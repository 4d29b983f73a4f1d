# Verification of wayvek

wayvek is a Rust library, with one example program, that draws frames with
Vulkan and shows them in a Wayland window without a toolkit: it exports the
rendered images as DMA-BUFs, wraps them in `wl_buffer`s and synchronises with
the compositor through one DRM syncobj timeline (explicit synchronisation).
This directory holds TLA+ models of that machinery, the TLC configurations that
check them and proofs for TLAPS. Paths below are relative to the repository.

## 1. The system

### Components

| Component | Code | State it keeps | Operations |
|---|---|---|---|
| Timeline | `src/drm/mod.rs` | process-wide point counter; the kernel's timeline | `import_sync_file`, `wait_available`, `create`, `export_fd`, drop |
| Swapchain | `src/swapchain.rs` | two slots: release point, presented flag; current slot | `acquire`, `mark_presented` |
| Renderer | `src/renderer/vulkan.rs` | extent, one image per slot, one command buffer, one fence | `draw`, `create_buffer`, `set_buffer_format`, `get_supported_modifiers`, drop |
| Wayland state | `src/backend/wayland/mod.rs` | globals, window objects, size, `pending_render`, `pending_acquire`, `pending_release`, `create_size`, formats | `init_window`, `import_timeline`, `commit`, the event handlers |
| Format table | `src/backend/wayland/dmabuf.rs` | the mapped table | `map`, `get`, drop |
| Negotiation | `src/lib.rs` | none | `negotiate` |
| Main loop | `examples/wayvek.rs` | all of the above as locals | start-up, dispatch loop, frame closure, drop order |
| Error type | `src/error.rs` | none | conversions |
| GPU, kernel, compositor | outside | submissions, timeline, surface state | complete, signal, configure, answer, show, release |

### How they interact

The program has one thread. It blocks in `EventQueue::blocking_dispatch`, which
flushes the requests queued so far, reads a batch of events and runs their
handlers; the handlers change `WaylandState` and queue requests. If a
`configure` left a size in `pending_render` the loop then draws one frame:
`acquire` a slot (perhaps waiting for its release point), `draw` into the
slot's image and submit, import the completion fence on the timeline at a fresh
odd *acquire point*, record the even *release point* above it for the slot, and
`commit`. `commit` only asks for a `wl_buffer`; the `Created` event that
answers, some later dispatch, attaches the buffer and commits the surface with
the points that are pending at that moment. The compositor waits for the
acquire point, shows the buffer, and signals the release point when a later
commit has replaced it.

So a frame passes through four actors (client, GPU, kernel timeline,
compositor) and the client keeps room for only one frame in flight between
`commit` and `Created`.

### What is hard

* The points of a frame and its `wl_buffer` travel separately. New frames,
  `Created` and `Failed` events arrive in any order, so buffers meet the points
  of other frames, or none.
* A wait for a release point is satisfied by any later point on the timeline,
  also one the client adds itself.
* One command buffer and fence serve both slots, and draw does not wait for the
  previous submission.
* A frame can fail at eight places between `acquire` and `commit`; every one
  leaves a different mix of state behind, and nothing is retried.
* Requests are flushed only on entering the next blocking dispatch.
* The buffer on screen is released only once another replaces it, so a client
  that waits for it waits for itself.

### What makes each component correct

* Timeline: points are unique and increasing; a point handed out is on the
  timeline already; a failed import disturbs nothing but the counter.
* Swapchain: a slot waits only for a point that was really handed out, and the
  two slots are never both stuck.
* Renderer: images are dropped only when no submission writes them; a frame is
  recorded into an image of its own size.
* Wayland state: what is committed carries points that protect the buffer;
  points are never left behind for a buffer that will not come; no buffer goes
  ahead of the first ack; every configure is acknowledged.
* Main loop: no error ends the ability to draw; the last size gets rendered;
  the window appears; what is on screen never goes back to an older frame.
* Format table: the list of formats holds every usable offer once, in the order
  of the tranches.
* Negotiation: the result is supported by both sides and the best by the
  documented preference.
* Start-up: the second roundtrip ends with the whole feedback; the loop starts
  with all a frame needs, or the program stops with an error.
* Objects and teardown: nothing the GPU uses is destroyed; nothing is left
  when the program is gone, but for creations that failed half-way.

`PROJECT.json` lists every hazard at its line with the properties that cover
it, or the reason why none does.

## 2. The modules

```
Frames                       values: slots, sizes, images
  Timeline                   src/drm/mod.rs
    Swapchain                src/swapchain.rs
  Renderer                   src/renderer/vulkan.rs
  WaylandSurface             src/backend/wayland/mod.rs, frame path
    Compositor               external; shares Timeline, Renderer, WaylandSurface
      FrameLoop              examples/wayvek.rs; composes everything
        FrameSafety          properties; refines FrameStream
          FrameInvariant     the inductive invariant
            MCFrameLoop      instances for TLC
            FrameLoopProofs  theorems
              DeliveryProofs   theorems about requests and events in flight, the
                               order on screen and the refinement of FrameStream
FrameStream                  abstract specification
  FrameStreamProofs          its theorem

Feedback                     the dmabuf feedback handlers, dmabuf.rs
  Negotiation                negotiate and the modifiers of the device
    Startup                  main before its loop, composed with the compositor
      StartupSafety          properties
        StartupInvariant     the inductive invariant
          MCStartup          instance for TLC
          StartupProofs      lemmas on lists and queues; types, the globals, the
                             steps after the roundtrips
            FeedbackProofs   theorems about the feedback and the negotiation

Queues                       messages of some types in a queue; used by Startup
                             and FrameSafety
  QueueProofs                lemmas about them; used by StartupProofs and
                             DeliveryProofs

Swapchain
  ReleaseWait                the wait for a release point, with a clock

Renderer
  RendererProofs             lemma about Rerecorded, for both proofs that need it
  VulkanObjects              creation and destruction, from new to drop
    MCObjects                instance for TLC
    VulkanObjectsProofs      theorems
```

**Timeline.** `counter` is the `static COUNTER` of `next_point`; `head` is the
highest point added to the kernel's timeline. The kernel keeps points as a
chain whose sequence number never falls (`AddPoint`), so `Available(p)` is
`head >= p`. `ImportSyncFile` and `ImportFails` are `import_sync_file`; the
failure leaves the temporary syncobj behind (`temps`) except when its creation
was what failed.

**Swapchain.** `release_points`, `current_idx`, `presented` as in the code.
`acquire` is `Acquire` or `AcquireTimesOut`; both rotate, since the code rotates
before it waits.

**Renderer.** `extent`, `buffers` and `frame` are the fields; `gpu` is the queue
of submissions the GPU has not completed. `draw` is taken apart at the points
where it can block, fail or be observed: `Resize` (which waits until the device
is idle), `CreateBuffer`/`ReuseBuffer`/`CreateBufferFails`,
`Submit`/`SubmitFails`. Beginning the command buffer while submissions of it
are pending is undefined in Vulkan. The model keeps the outcomes in which the
GPU goes on: the oldest k submissions were fetched as recorded, the others
execute the new recording (`Rerecorded`). Loss of the device is not modelled.

**WaylandSurface.** One action per handler: `OnToplevelConfigure`, `OnClose`,
`OnConfigure`, `OnCreatedCommits`, `OnCreatedDrops`, `OnFailed`, and
`CommitFrame` for `commit()`. `inbox` holds the events that have arrived,
`sendbuf` the requests queued and not flushed. A commit request stands for the
five requests the `Created` handler makes in one go. `own` on a frame, a buffer
or a commit is a history tag, the point its completion fence was meant for; no
action's guard reads it.

**Compositor** (external). It configures the window up to `MaxConfigures` times
with any size or none, closes it at most once, reads requests in order, answers
`create` with created or failed, shows a commit when its acquire point has
signalled (`Latch`), and adds the release point of a replaced commit
(`Materialise`), possibly before its last read ends (`Drain`): with
linux-drm-syncobj a release point may get a fence that has not signalled yet. A buffer that is not
replaced is not released. `Signalled(p)` counts the submissions at points up to
p and not the release fences below it, which lets the compositor show a commit
earlier than the kernel's chain would: more behaviours, never fewer.

**FrameLoop.** `pc` follows the one thread of `main` through
`loop, dispatch, handling, acquire, draw, buffer, record, bridge`; between any
two of these the GPU and the compositor may move. `EnterDispatch` is the flush
at the start of `blocking_dispatch`; `HandleEvent` runs a handler; a batch may
end after any event (`DispatchReturns`, `StartFrame`). The frame closure's `?`
operators are actions guarded by `Faults`: `WaitIdleFails`, `BufferFails`,
`RecordFails`, `ExportFails`, `BridgeFails`, and outside it `ConnectionLost`,
which ends `main`. `ExportPanics` is `OwnedFd::from_raw_fd(-1)`: Vulkan may
export -1 for a fence that has signalled. The timeout of the wait is not a
fault: it may come whenever the wait blocks, which also covers that the kernel
takes `timeout_nsec` as an absolute time and the constant as an instant ten
seconds after boot. The initial state is the one in which `main` enters its
`while`: globals bound, timeline imported, the first bufferless commit queued
and not flushed.

**FrameStream** is the abstract specification: a supply of numbered frames, a
mailbox that holds one, a queue and a screen. `FrameSafety!Stream` maps the
counter to the supply, `pending_acquire` to the mailbox, the acquire points of
the commits in `sendbuf`, on the wire and at the compositor to the queue, and
the acquire point of the commit on screen to the screen.

**Feedback.** The handlers of `main_device`, `format_table` and
`tranche_formats`. A table is a sequence of (format, modifier) entries;
`Usable` says which indices the handler looks up (`DrmFormatTable::get`): those
past the end and unknown fourccs are dropped. `AddModifier` is
`add_wayland_modifier`, `AddTranche` the loop that calls it. `OnFormatTableFails` is `DrmFormatTable::map` returning
`None`.

**Negotiation.** `device_mods` is what the Vulkan device reports per fourcc,
`buffer_fmt` the field that `set_buffer_format` sets. `Negotiate` says what the
two nested loops of `negotiate` return: the first place of the list, in their
order, among the tiled common pairs, else among all common pairs.
`NegotiationAssumption` says that a Vulkan device never lists
`DRM_FORMAT_MODIFIER_INVALID`; hence the second pass, which would accept it,
never meets it.

**Startup.** `stage` follows `main` from its first roundtrip to the loop. A
roundtrip appends a `sync` request and dispatches until it is answered: `Flush`
sends what is queued, `Read(n)` takes any prefix of what has arrived,
`HandleEvent` runs one handler, `RoundtripReturns` looks at the flag once the
batch is handled. The registry handler is `OnGlobal`, with `dmabuf` bound at
version 5 whatever is on offer. The straight-line steps are `ChooseDevice` (no
main device: error), `NewRenderer`, `NegotiateFormat`, `ImportTimeline`,
`InitWindow` (which returns silently without `wl_compositor` or `xdg_wm_base`
and panics without a syncobj manager) and `BuildPipeline`. `StepFails` stands
for every other `?`. The compositor (external) announces any set of globals in
any order, others later (`LateGlobal`), answers requests in order and sends a
protocol error for a bind above its version.

**VulkanObjects.** Ash handles have no destructors, so the model keeps the set
of objects that exist: `live` if a struct owns them, `leaked` if none does.
`Vulkan::new` (which may find no instance or no device),
`create_triangle_pipeline`, the parts of `create_buffer` that
survive its failures, the fence through submit, export and completion, and the
drop of `main`'s locals (`DropPipeline`, `DropSyncobj`, `DropRenderer`) are its
actions; images and submissions are those of `Renderer`, of which it uses every
action. When a slot may be drawn into again is left open, so the theorems and
the run hold whatever the swapchain waits for.

**ReleaseWait.** The wait of `Swapchain::acquire` with the clock the kernel
compares `timeout_nsec` with. FrameLoop has no clock: there a blocked wait may
time out at any moment.

## 3. What is checked

The frame-path runs instantiate `MCFrameLoop`, the others `MCStartup`,
`MCObjects` and `ReleaseWait`. Deadlock is checked in all of them; a process
that has exited or panicked stutters (`Terminated`), and so does a start-up
whose loop waits for events (`AtRest`). (`ReleaseWait` would run into its clock
bound; TLC reports its violation first.)

| Run | Specification, bounds | Shows |
|---|---|---|
| `faults` | `Spec`, 2 sizes, 3 configures, all faults; 769 thousand states | the safety properties below and the refinement of FrameStream |
| `live` | `FairSpec`, 2 sizes, 3 configures, no faults; 95 thousand states | `WindowAppears`, `LastSizeRendered` |
| `live_faults` | `FairSpec`, 2 sizes, 3 configures, failing buffer creation and rejected buffers; 212 thousand states | `EveryConfigureAcked`, `AcquireReturns` |
| `startup` | `Spec` with its fairness, 5 feedbacks, 24 devices, dmabuf version 4 or 5, one failing call, one late global; 202 thousand states | the five safety properties of start-up, `StartupEnds`, `WindowRequested` |
| `objects` | `Spec`, 2 sizes, 5 draws, all faults; 129 thousand states | what is destroyed, when, and what is left |
| `slot_released`, `command_buffer`, `timeout`, `own_points`, `last_frame`, `pipeline_handles`, `release_wait` | one property each | what a comment says and the code does not do, see section 5 |

Safety properties:

* `CommitPointsSound`: though the `Created` handler attaches whatever points
  are pending, the acquire point of a commit is on the timeline, its release
  point is the next one, and it is no older than the buffer's own. That is what
  makes the exchange of points harmless: the fence waited for is that of the
  buffer's own frame or of a later submission.
* `ReadsOnlyFinishedFrames`: hence the compositor never reads an image before
  the submission that drew its frame has completed.
* `NoBufferBeforeFirstAck`: the xdg-shell rule, over the send buffer and the wire.
* `PendingPointsAwaitTheirBuffer`: points that are pending belong to the newest
  frame, whose buffer (or a failure) is still to come; so the mailbox of one is
  never blocked by points nobody will collect.
* `SomeSlotAvailable`: the two slots are never both waiting; a frame lost to the
  timeout is not followed by a second.
* `GpuWritesLiveImages`: also with the command buffer recorded over, no pending
  submission writes an image that a resize dropped.
* `RecordsAtRequestedSize`: after any history of resizes and failures.
* `ScreenNeverGoesBack`: a frame that replaces another on screen is a newer
  rendering, although points are exchanged between frames.
* `ImplementsFrameStream`: points reach the screen at most once, in order.

Of start-up (`StartupSafety`):

* `AdvertisesInTrancheOrder`: however the tranches repeat entries, point past
  the table or name unknown formats, the list of formats holds what the tranches
  handled so far offer, no more and no less, each pair once, formats and
  modifiers in the order of their first mention. When the table could not be
  mapped it holds nothing.
* `WholeFeedbackNegotiated`: no negotiation starts on part of the feedback, when
  `dmabuf` is among the first globals. The second `sync` is sent after the
  requests of the first roundtrip; that is all there is to ensure it. A lost
  table is not exempt: the list is then empty for good.
* `NegotiatesBestOffer`: the pair chosen is a common one and the best, judged on
  the feedback as the compositor sent it: tiled if any is, then by order.
  `negotiate` fails only when there is no common pair. It is judged on the
  tranches handled by then (`Negotiable`): all of them when `dmabuf` was among
  the first globals, possibly fewer when it was announced late, none when the
  table was lost.
* `LoopStartsReady`: `main` gets as far as a renderer only with `dmabuf` version
  5, the one it binds. The loop starts with a supported format and a `dmabuf`
  global. There is a window unless `wl_compositor` or `xdg_wm_base` was not
  among the first globals, which is the only way into the loop without one, and
  a window has its synchronization object and an imported timeline. `main`
  panics only when the syncobj manager was not among the first globals.

Of the objects (`VulkanObjects`):

* `PendingWorkKeepsItsObjects`: until `main` is gone, what the GPU is working on
  keeps its image, memory, view, pool, fence, device and instance, through
  resizes, failures and the exit, and when `main` is gone nothing is pending.
  Two things are exempt, because the code does them: the triangle pipeline once
  `main` drops it (its `Drop` does not wait), and work that is still pending
  when the last `device_wait_idle` has failed, whose result is ignored.
* `CleanExit`: when the program is gone every owned object was destroyed, and
  what has no owner is of the kinds that the creations that failed leave behind
  (`Leftovers`): `create_buffer` the parts of an image, the pipeline its shader
  modules and layout, a missing device the instance. Never a pool, a fence, a
  device or a syncobj.
* `FenceFreeWhenReset`: `draw` has no CPU wait before it resets the fence; that
  it is not in use rests on the export of the submission just before. Only a
  draw right after a failed export may find it in use, and one good export later
  it may not (`exported` remembers whether the last one succeeded; no guard
  reads it).

Liveness of the loop: `EveryConfigureAcked` and `AcquireReturns` with failing frames;
`WindowAppears` and `LastSizeRendered` without faults. With faults the last two
do not hold and should not: a failed frame is not retried. Of start-up:
`StartupEnds` (from any compositor: the roundtrips come back and the initial
commit reaches the compositor, `main` stops, or it is in its loop without a
window, which `LoopStartsReady` allows only for want of a global) and
`WindowRequested` (with all globals and a dmabuf of version 5 the commit arrives
unless a call fails or there is no common pair).

**Bounds.** The program draws at most one frame per configure, so
`MaxConfigures = 3` gives three frames: both slots used and the first reused,
two frames between a `create` and its `Created`, a resize with a submission in
flight, a third frame that meets the wait. Two sizes are enough for "same" and
"different"; the sizes are otherwise opaque (`None` for a zero dimension). No
other counter is bounded: points, images and leaked syncobjs are bounded by the
number of frames. Deeper instances (four configures, five with a single size)
were run without faults and with some, and agree.

`startup` has every order of every set of globals, and reads cut anywhere. Its
table of eight entries has two renderable formats, one known and one unknown
format that are not, linear, implicit and two tiled modifiers; the five lists
of tranches repeat pairs in another order, offer linear before tiled, offer
nothing tiled, name unknown formats, point past the end, or are empty; the
devices are the combinations of eight sets of modifiers of one format with three
of the other. One failing call (`MaxFaults`) ends start-up or loses the table.
`objects` draws five times (`MaxDraws`): both slots twice, and a fifth with
several submissions pending. `release_wait` has `Timeout = 2` on a clock that
runs to 5 and at most 6 frames.

**Fairness.** `FairSpec` assumes weak fairness of the client's thread (it is
runnable whenever an action of it is enabled, the timeout included), of the GPU
(a submitted batch completes) and of the compositor's reading of requests, its
`Latch` and its release of replaced buffers. Nothing is owed by the user: configures and the close
may never come; nor do faults have to happen. `ConnectionLost` is outside the
fair client step. `Startup` assumes weak fairness of `main`, which waits for
nothing but events, and of the compositor's answers: a roundtrip has no
timeout, so without them start-up hangs, in the code as in the model. Late
globals and failures are owed by nobody.

**Mutants.** Every property has a mutation of a definition that breaks it, kept
beside the definition with the remark `mutant`: a transfer that is forgotten, a
resize that does not wait or keeps its images, a zero dimension taken, an ack
or a clearing of points forgotten, points read and not taken, requests sent out
of order, a wait without a timeout, a missing second roundtrip or initial
commit, a modifier listed twice, a linear pair preferred, a renderer dropped
without waiting.

## 4. What is proved

`FrameLoopProofs`, for all sizes, any `MaxConfigures` and any set of faults:

* `Invariance`: `Spec => []IInv`.
* from it `TypeCorrect`, `CommitsSound`, `ReadsFinished`, `GpuSafe`,
  `DrawsAtSize`, `OneSlotFree`, the theorems for `TypeOK`, `CommitPointsSound`,
  `ReadsOnlyFinishedFrames`, `GpuWritesLiveImages`, `RecordsAtRequestedSize`
  and `SomeSlotAvailable`.

`IInv` (module `FrameInvariant`) strengthens these in three ways.
`PointsHandedOut` adds that every point handed out lies below the counter, that
the pending points are on the timeline already, and that a buffer still asked
for is no newer than the pending points: without the last one the `Created`
handler could pair a buffer with an older fence. `SlotPoints` says that the
release point of a presented slot exceeds the timeline's head by at most one
and that two slots have different ones: so at most one of them blocks.
`FrameInProgress` ties `extent`, the images and the command buffer to the stage
`main` is in. The proof has one lemma per group of conjuncts and one step per
action. It rests on the assumptions `SizesAssumption`, `NoneAssumption`,
`NoneIsNoCommit`, `FaultsAssumption` and `MaxConfiguresAssumption`, which only
keep `None` apart from other values and give the constants their types; TLC
evaluates them on each run.

`FrameStreamProofs` proves `StreamOrdered`: in the abstract specification what
is shown is older than what is queued, which increases and is older than the
offer. With `ImplementsFrameStream` this is why points cannot be reordered or
used twice in FrameLoop.

`DeliveryProofs`, from `IInv` and under the same assumptions:

* `PointsAwaitBuffer`, for `PendingPointsAwaitTheirBuffer`. The strengthening
  (`PendingTogether`) says that the damage size and both points come and go
  together and that a buffer request, a `Created` or a `Failed` event of the
  newest frame is on its way whenever they are pending (`BufferComing`).
* `NoEarlyBuffer`, for `NoBufferBeforeFirstAck`. Wire and send buffer are taken
  as one queue, of which the compositor reads the head, the client appends and
  a flush changes nothing. `AckedFirst` says that no commit in it is ahead of
  the first ack; `FrameAfterAck` that a frame is drawn only once an ack is in
  it, which the initial commit, sent without one, does not need.

* `ScreenInOrder`: `Spec` implies the action property `ScreenNeverGoesBack`. A
  frame passes five stations (buffer asked for, buffer arrived, commit queued,
  commit at the compositor, on screen). `QueuesInOrder` says each of the queues
  is in the order of drawing, `FurtherIsOlder` that what is further on is
  older; a new frame is newest because all points in flight are below the
  counter (`PointsHandedOut`).
* `FramePathIsStream`: `Spec => ImplementsFrameStream`, the refinement of
  FrameStream under the mapping of `FrameSafety!Stream`. The three queues of
  requests are mapped to one queue of points, so each step is read as what it
  does to `PointsOf(Pipe)`: a request of another type adds nothing, a flush
  moves requests and leaves the list alone, the compositor's reading moves a
  commit from one queue to the next. `PresentFrame` is `Offer`, `BridgeFails`
  is `Lose`; a `Created` event that commits is `Post`, one that drops its buffer
  (or a `Failed`) is `Withdraw` if points were pending; `Latch` is `Show`;
  everything else stutters.
* `PointsInOrder`: hence `StreamOrdered` holds of the frame path.

`VulkanObjectsProofs`, for all sizes, any `MaxDraws` and any set of faults:

* `ObjectsInvariance`: `Spec => []ObjectsIInv`.
* from it `ObjectsTyped`, `WorkKeepsItsObjects`, `ExitIsClean` and
  `FenceIsFree`, the theorems for `ObjectsTypeOK`,
  `PendingWorkKeepsItsObjects`, `CleanExit` and `FenceFreeWhenReset`.

`WorkOwned` says that the image of a pending submission stays in its slot,
because the one action that empties slots waits for the GPU first, and that
work outlives the program only if the last wait failed. `HeldExists` says that
what the structs hold exists. Together they give the first property, with its
two exemptions and not without: the pipeline is dropped before anything waits.
`OnlyHeldExists` says that nothing else is owned, what each failed creation has
left, and what is left at each stage of the exit, which gives the second.
`FenceExported` says that the fence is in use only between a submission and its
export, or after an export that failed until the next one succeeds. The
assumptions are `SizesAssumption`, `NoneAssumption` and `ObjectsAssumption`.

`StartupProofs` and `FeedbackProofs`, for any globals announced in any order,
any tables, tranches and devices, any `MaxFaults` and `MaxLate`:

* `StartupInvariance`: `Spec => []SInv`.
* `StartupTypeCorrect`, `TrancheOrder`, `WholeFeedback`, `BestOffer` and
  `LoopReady`, the theorems for `StartupTypeOK`, `AdvertisesInTrancheOrder`,
  `WholeFeedbackNegotiated`, `NegotiatesBestOffer` and `LoopStartsReady`.

`SInv` (module `StartupInvariant`) looks at the two directions of the socket as
one queue each: `Up` is what the client has queued and sent, `Down` what has
been sent to it and read. It is built in layers, each inductive together with
those before it; the theorems use as many as they need.

1. *Globals* (`RegistryInv`). Until the compositor has read `get_registry`
   nothing has happened; after that a global that was announced is bound or its
   event is on its way, and only once. Hence `dmabuf` is bound once, and
2. *one feedback* is asked for (`FeedbackOnce`, `NothingYet`).
3. *What was handled* (`FeedbackHandled`). What is left in `Down` of the
   feedback is a suffix of what the compositor sent, and the state is what the
   handlers make of the rest: the device, the table (or none, if mapping
   failed), and a list of formats that is `InOrder`. `Lists(k)`, in the property,
   compares *first* mentions, which the next tranche leaves alone but a proof
   would have to recompute; `InOrder` says the same of all mentions, "whatever is
   listed earlier was mentioned before each mention of this", and one
   `AddModifier` preserves it (`AddInOrder`). `InOrderLists` gets back to
   `Lists`.
4. *The roundtrips* (`OneAnswer`, `GlobalInTime`, `EarlyBound`,
   `FeedbackInTime`, `FeedbackComplete`, `VersionBound`). One `sync` or one
   `done` is under way. The announcement of each of the first globals is ahead
   of the first `done`, so all of them are bound after it;
   `get_default_feedback` is ahead of the second `sync` in `Up`, and so the
   whole feedback ahead of the second `done` in `Down`: this is where the order
   of the two queues is used, and the fact that a roundtrip handles its whole
   batch before it looks at its flag.
   `VersionBound` uses the order of `Up` once more: the bind of `dmabuf` is ahead
   of the request for feedback, so a compositor without version 5 hangs up
   before it answers, and no device is ever named.
5. *The steps that follow* (`StepsInOrder`, `WindowMade`, `Negotiated`): what
   each stage may rely on, and that the choice was the best of the tranches
   handled when it was made. Until the loop nothing more of a feedback is
   handled; what the loop handles of a late one no longer matters
   (`ChoiceKept`).

The assumptions are `FeedbackAssumption`, `NegotiationAssumption` and
`StartupAssumption`. As an additional check TLC evaluated `SInv` as an
invariant of `MCStartup` on all 202 thousand states of the run `startup`.

*Recursion and induction.* `OfType` and `AddTranche` are recursive functions
over a queue. The installed provers cannot instantiate an induction theorem
that takes an operator, so induction is done on sets: `LeastNumber` says that a
non-empty set of numbers has a least one, `SetInduction` and `QueueInduction`
follow from it, and a proof applies them to the set of numbers (or queues) for
which its claim holds. That the recursive functions exist at all is
`RecursionExists`, from which each gets its equation (`OfTypeRecursion`,
`AddTrancheRecursion`); its other laws (`OfTypeConcat`, `OfTypeAppend`,
`OfTypeTwice`, ...) follow from that.

Every safety invariant, the action property and the refinement that the passing
runs check are proved. Model-checked only: the liveness properties
(`WindowAppears`, `LastSizeRendered`, `EveryConfigureAcked`, `AcquireReturns`,
`StartupEnds`, `WindowRequested`), since the proof system covers neither
fairness nor `ENABLED`.

## 5. Where comments and code disagree

* `src/swapchain.rs:31`: `acquire` "waits for the compositor to release" the
  slot. The wait ends with any later point, and the other slot's next acquire
  point is one (`AcquiredSlotIsReleased`).
* `src/renderer/vulkan.rs:180`: the release-point wait "guarantees the previous
  frame's GPU work is complete". It does not concern the previous frame at all
  (`CommandBufferIdleWhenBegun`).
* `src/drm/mod.rs:32`: after the timeout the buffer is reused "anyway". The
  error ends the frame (`TimeoutReusesSlot`).
* `src/lib.rs:38`: the points are those "for a single frame". A buffer may be
  committed with those of another (`CommitCarriesItsOwnPoints`).
* `src/drm/mod.rs:32`: "how long to wait for the compositor to release a buffer
  (10s)". The ioctl takes `timeout_nsec` as an absolute time on
  CLOCK_MONOTONIC, so ten seconds after boot the wait is a poll
  (`WaitsForTimeout`).
* `examples/wayvek.rs:51`: the handles of the pipeline are destroyed by `Drop` or
  on the error path. The `?` on the later creations leaves the earlier handles
  behind (`HandlesDestroyed`).
* `src/backend/wayland/mod.rs:149`: `commit` gets the frame committed. If its
  points are taken by an older buffer, it is dropped (`EveryFrameIsCommitted`).

## 6. What is left out, and the plan

Left out of the frame path on purpose: pixel contents and formats, the shaders,
the title and decorations, ping and pong, plane layouts, overflow of the 64-bit
point counter, early release of buffers the compositor copies, and commit's
early return without a dmabuf global (unreachable once a frame has been drawn:
without that global `main` ends with "no main DRM device" before the loop).

Left out of start-up: the decoration manager (optional, without effect on
anything modelled); a second round of feedback, which the code would merge into
the first, and which only matters if it falls between the roundtrips; matching
of device numbers (a primary node's number as main device is one way in which
`Vulkan::new` fails); the mapping that `DrmFormatTable::map` leaks when it
rejects a table (the formats lost with it are modelled); plane counts and format features of modifiers; the create
infos of the pipeline. That the preference of earlier tranches is lost once
formats are merged (a format's later modifiers move up to its first mention) is
what the code does and no comment speaks against; `NegotiatesBestOffer` states
the order the code keeps.

Left out of the objects: `wl_buffer`s, which the code never destroys; the
temporary syncobjs of failed imports are in `Timeline`. `src/error.rs` has no
state; its errors are modelled where they occur.

Left to do, in this order: a second round of feedback between the roundtrips,
with what of `AdvertisesInTrancheOrder` survives it; invariants of `ReleaseWait`
with its clock (how long a wait may last), to set beside the finding; the
safety half of the liveness properties (what a fair step can no longer undo),
proved, so that only the fairness argument is left to TLC.
