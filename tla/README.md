# MaxMCP in TLA+

MaxMCP is a Max external that lets an MCP client (an LLM) read and edit Max
patches. This directory models its control flow in TLA+, checks the models with
TLC, and proves properties of the tool-call protocol, the server, the `maxmcp`
objects, the editing tools, the session and the placement of objects with TLAPS.
All paths below are relative to the repository.

    tlc -config DeferredCall.cfg MCDeferredCall     one run (see "Runs")
    tlapm DeferredCall_proofs.tla                   proofs (see "What is proved")

`PROJECT.json` lists, for each module, which definition stands for which lines of
the source, the runs, a mutation per property that breaks it, the hazards and the
findings.

## The system

    MCP client --stdio--> bridge (Node.js) --WebSocket--> maxmcp @mode agent
                                                            |  MCPServer
                                                            v
                          PatchRegistry <---- maxmcp @mode patch, one per patcher
                                                            |
                                             tools, run on the Max main thread

| component | state | operations | where |
|---|---|---|---|
| deferred tool call | a `DeferredResult` (result, flag, mutex, condition variable) per call, a payload that points to it | `run_deferred`, `notify`, the macros of the callbacks | `src/tools/tool_common.h` |
| WebSocket server | running flag, clients, a send queue per client, a request queue; a service and a queue thread | `start`, `stop`, `send_to_client`, `broadcast`, the lws callback, the queue loop | `src/websocket_server.cpp` |
| MCPServer | a singleton, started flag | `handle_request_string` | `src/mcp_server.cpp` |
| bridge | line buffer, connection state | line, open, message, close, error, signals | `bridge/websocket-mcp-bridge.js` |
| maxmcp object | mode, id, alias, patcher, server | new, free, notify, attribute setters, messages | `src/maxmcp.cpp` |
| PatchRegistry | a list of patches under a mutex | register, unregister, find, list | `src/utils/patch_registry.cpp` |
| object and connection tools | the patcher of Max: boxes, patchlines, dirty flag | add, remove, replace, name, set, connect, disconnect, midpoints, queries | `src/tools/{object,connection}_tools.cpp`, `src/utils/patch_helpers.cpp` |
| layout tools, geometry, placement | none: advice on what they read | validate, suggest, align, find a position | `src/tools/layout_*.cpp`, `utility_tools.cpp`, `src/utils/*geometry.cpp` |
| patch, state and hierarchy tools | none of their own | one query or one attribute each | `src/tools/` |
| console logger, uuid generator, schemas | a bounded list under one lock; none | | `src/utils/` |
| bridge launcher | handle of a child process, its address | url, start, stop, close event, exit | `package/MaxMCP/support/bridge/bridge-launcher.js` |

Threads: the Max main thread runs every callback and all of `maxmcp.cpp`; the
service thread runs `lws_service()` and, since `maxmcp.cpp` installs a
synchronous callback, every `MCPServer` request; the queue thread exists besides
it. The service thread waits inside a request until the main thread ran the
tool's callback, or for at most 5 seconds, 30 for the heavy reads.

What is hard here: a waiting thread and a callback that share a heap cell of
which one side may be gone; `stop()` on the main thread joining a thread that
waits for the main thread; wake-ups that fall between a predicate and a block;
queues that must neither strand nor reorder; objects of Max that are freed while
their pointers travel between threads; edits that take a patcher apart and put
it together again, with an error on the way. `PROJECT.json` has the list of
hazards at their lines.

What makes each part correct, in words:

* deferred call: a reply carries the result of the call's own callback; a callback
  writes into no cell of another call; every call is answered, whatever the main
  thread does; nothing leaks.
* server: responses leave in order and exactly once; none stays behind; `stop()`
  returns and leaves nothing; nobody without the token is served.
* objects: the registry holds exactly the live patches; one agent runs a server; no
  request is handled by an `MCPServer` that is gone; the main thread comes back from
  every join with a service thread that may be waiting for it.
* editing tools: replies tell what became of the patcher; what changed marks it dirty;
  a line is taken or changed only by a tool that was asked about it; a replacement
  keeps what it says.
* layout tools: advice that is carried out brings what it promises; reports agree
  with the picture.
* session: requests reach the server in order and take effect in order; each has one
  reply, which can be matched to it and tells whether it took effect; arguments
  against the schema reach no callback.
* launcher: no bridge outlives it.

## Modules

| module | models | composed with |
|---|---|---|
| `ToolCalls` | the promise: a call is carried out at most once, a reply follows and tells what it can | abstract specification |
| `DeferredCall` | `tool_common.h`: executor, callback, heap cells, patches that come and go | implements `ToolCalls` |
| `ResponseChannel` | the promise: a channel per connection, first in first out, emptied when it closes | abstract specification |
| `WebSocketServer` | three threads of the server | implements `ResponseChannel` |
| `PatchRegistry` | the registry's list and its operators | used by `MaxmcpObjects` |
| `MaxmcpObjects` | lives of `maxmcp` objects, the server each agent owns, the `MCPServer` singleton, calls that delete boxes | extends `PatchRegistry` |
| `Patcher` | the editing tools on one patcher, and the user | |
| `Geometry` | predicates and solvers on rectangles, segments and nubs | used by `LayoutTools` |
| `LayoutTools` | the advising tools and a client that carries the advice out | extends `Geometry` |
| `ToolExecutors` | the checks of all 30 executors, in their order, the dispatch, and the schemas of `tools/list` | used by `AgentSession` |
| `McpServer` | which replies a message can get | used by `AgentSession` |
| `AgentSession` | client, bridge, RECEIVE, dispatch, tool calls, replies | extends `McpServer` and `ToolExecutors`, instantiates `ToolCalls` |
| `BridgeLauncher` | the launcher and the processes it starts | |
| `*_proofs` | theorems, see "What is proved" | extend their modules |
| `MC*` | instances for TLC | |

**DeferredCall.** One action per stretch of code between two accesses that the
other thread can see. `pc[c]` follows the executor of call `c`: `FindPatch`,
`Defer` (allocates a cell), `WaitCompletes` / `WaitExpires` (the value that
`wait_for` returns), `ReturnResult` / `ReturnTimeout` (delete the cell). `cb[c]`
follows its callback: `RunCallback`, `StoreResult`, `SetCompleted`, `NotifyOne`.
The heap is a function of addresses and an address that was freed is handed out
again, so that a write through a stale pointer has its effect; `touched` collects
such accesses. A callback acts and reports success, or reports an error and has not
acted, but for `replace_object_text_deferred`: it frees the old box before it knows
whether the new one can be made (`object_tools.cpp:441`), so that for the calls in
`Replacements` an error may follow an effect (`Run`, `ToolCalls!Tells`); no other
callback reports an error after it acted. To act means here to carry out the operation as
far as the callback looks: what Max's attribute setters return is not looked at. A
deferred callback of Max runs once, some time later. Patches are
registered, closed and freed on the main thread between callbacks.

**WebSocketServer.** `lws_callback` has an action per reason, split where other
threads may look in: `ReceiveSync` / `ReceiveAsync`, `HandlerResponds`,
`RequestWritable`, `WriteableEnter`, `WriteableFind`, `WriteablePop`,
`WriteableEmpty`, `WriteableWrite`, `WriteableMore`, `Establish`,
`Reject`, `Close`. `stop()` is `StopFlag`, `StopSignal`, `JoinService`, `JoinQueue`,
`StopFinish`. The queue thread's `wait()` is `QueueCheck` and `QueueBlock`, because
`stop()` signals without the mutex, which `enqueue_request` does hold. Locks are
guards (`ClientsFree`, `que # "checked"`). Seen from a client all this is a
`ResponseChannel`: what waits in the channel is the message that the WRITEABLE
handler has popped and not written yet, followed by the send queue (`InChannel`).

**MaxmcpObjects.** Boxes, the patchers they are in and what Max does to both are
external. Creation, the mode attribute, the start and stop messages, the
notification of a closing patcher and `maxmcp_free` are actions of the main
thread. The service thread of a server is another actor: it creates the `MCPServer`
singleton on its own when it comes first, finds patches, defers callbacks and waits
for them until its time-out. `maxmcp_free` and the stop message join that thread
(`JoinService`), so that each side can wait for the other, and after it the queue
thread (`Stopped`, `FreeAgent`), which may take for ever; and the callback of `remove_max_object` may
delete any box of the patcher it was called for, its patch's own and that of the very
agent whose thread waits for it.

**Patcher.** Each callback is one step: nothing on the main thread interrupts it.
The list of boxes is a sequence because names are not unique and the first match
counts, and because `assign_varnames` addresses boxes by index. Attributes, looks
and midpoints of lines are reduced to what a replacement has to bring back.

**LayoutTools.** A tool's answer is a record that keeps the moves not carried out
yet; `ApplyMove` is the client's `set_object_attribute`. Coordinates are integers
in sub-pixel units, chosen so that no division leaves a remainder; the rounding of
doubles is not modelled, and neither is presentation mode.

**ToolExecutors.** An executor is the sequence of its checks, each with the
parameters it looks at, the classes of arguments it takes, and what it does with
others; `ExecuteTool` is the verdict of the first check that fails. The schemas are a
second table, written from the other half of the sources, and a client may send what
they allow and what they rule out.

**AgentSession.** The bridge's buffer, the connection, and RECEIVE, which takes
every callback of libwebsockets for a whole message: a line longer than the
receive buffer arrives in `MaxPieces` pieces, of which `pieces` counts those that came
(`ReceivePiece`); `Take` takes a message, or the last piece. A tool call gets its verdict from
`ToolExecutors`; one that is deferred goes on as a call of `ToolCalls`, whose actions
`Accept`, `Reject`, `Execute`, `Answer` and `TimeOut` are conjuncts of actions here.
So the session rests on what `DeferredCall` was shown to implement, and adds the order
of the effects and the reply the client sees. All calls are in `Replacements` there, and
`CallReturns` lets an error follow an effect for the verdict `"Replace"` alone, which is
that of `replace_object_text`.

**BridgeLauncher.** One action per message and event. `kill()` only sends a signal, so
that a bridge's close event can come after the next bridge was started.

## Runs

| run | checks | distinct states |
|---|---|---|
| `deferred` | safety, liveness and refinement of a call | 343,800 |
| `deferred_late_result`, `deferred_stale_patch` | two statements the code does not keep | stop at the violation |
| `server` | order, completeness, refinement of the channel, cleanliness after `stop()`, the token | 2,695,190 |
| `server_live` | service thread joins, responses leave, requests are handled | 79,016 |
| `server_stop_hangs`, `server_auth` | two statements the code does not keep | stop at the violation |
| `objects` | registry, singleton, server, joins with a service thread | 93,788 |
| `patcher` | the editing tools | 23,132 (3.4 M transitions) |
| `session` | order of lines and effects, replies, arguments, an answer for each request | 1,036,877 |
| `layout` | advice and reports | 250,209 |
| `launcher_exit` | a statement the code does not keep | stops at the violation |

What each passing run shows:

* `deferred`: until a call runs out of time every answer is the call's own, success is
  that of a callback that acted and an error that of one that did not, unless the call
  replaces a box, as one of the two calls here does (`AnswerIsOwn`); every
  store reaches the cell of its executor (`StoresReachOwner`); nothing
  leaks (`NoLeak`); every call is replied to although the main thread may hang, and
  every payload is consumed when it does not (`EveryCallReplied`,
  `EveryPayloadConsumed`); the executors implement `ToolCalls`.
* `server`: no response is left behind without a writable callback to come
  (`NoStrandedResponse`), responses to one client leave in the order they were pushed
  (`FifoPerClient`), each step is one of the channel (`ImplementsChannel`), `stop()`
  leaves nothing (`StopLeavesNothing`), the queue thread does not sleep over a request
  and takes requests in order (`NoMissedRequest`, `HandledInOrder`), and a connection
  without the token never becomes a client (`UntrustedGetNothing`).
* `server_live`: `ServiceThreadJoins`, `ResponseLeaves`, `RequestHandled`.
* `objects`: `RegistryTracksPatches`, `OneServer` and `HandlerHasServer` for objects
  whose mode was not switched, and `MainReturns`: whatever the main thread begins
  comes to an end, joins with a service thread that waits for it included, provided
  that the queue threads it joins end. Finding 3 is about a queue thread that does not.
* `patcher`: `ChangesMarkDirty`, and three action properties: a reply
  tells what became of the patcher (`RepliesAreTrue`), no tool takes or changes a line
  it was not asked about, and clearing midpoints, for which the line is freed and made
  again, keeps its look (`LinesStay`), a replacement keeps name,
  attributes and lines (`ReplaceKeeps`).
* `session`: while the connection lasts no line is lost or overtaken
  (`LinesKeepOrder`); replies match requests by id and order (`RepliesMatchRequests`);
  until a call times out, effects take place in the order the calls were written
  (`EffectsInOrder`) and a reply tells whether its call took effect, but for results of
  tools that wrap errors and errors of `replace_object_text` (`RepliesTellOutcome`); arguments against the schema never reach a callback and
  others are never turned down (`ArgumentsChecked`); each request is answered or the
  bridge exits (`RequestAnswered`).
* `layout`: advice carried out leaves the group aligned (`AppliedAlignmentHolds`; on
  which line, and that the ends of a distribution stay, is not stated) and the nubs in
  line (`NubsMeet`); a proposed position is clear (`PlacedIsClear`); overlaps and cords
  over boxes are reported as the picture shows them (`ReportMatchesPicture`). For a box
  no thicker than the tolerance the last only says that a reported pair shares cells,
  since code and comment differ there (see "Findings"); the other two checks, upward
  cords and cords on cords, are modelled and no property is about them.

Bounds and why they are enough:

* `DeferredCall`: two calls, two patches, two addresses. One service thread runs
  one executor at a time, so that two calls and one address suffice for a cell to
  be used again under a late callback; a second address makes a cell whose owner
  is another call than the one that writes into it. The proofs remove these bounds.
* `Server`: two connections, three requests of which one is silent, one message of
  the server's own, two lives of the server. Two requests of one client are needed
  to see an order, two clients to mix them up, two lives for what the first leaves.
  The proofs remove these bounds.
* `Objects`: two boxes with one alias, each free to be an agent or a patch, in two
  patchers or together in one: a call can delete a box of another patcher than its
  agent's, and the box of its own agent. Six `MCPServer` instances are more than they
  can make. One callback of a server is on the main thread's queue at a time; a second
  would meet the same boxes.
* `Patcher`: two boxes at three addresses, so that a replaced box comes back at its
  old address, or at another, or at one another box had; two names, shared or not;
  two lines, which includes a line and a self-connection of the same box; an
  ordinary class and a content class with fewer nubs. Addresses are symmetric (no
  step compares them), and `reply` is left out of the fingerprint: it is a function
  of the step, no step reads it, and the action properties read only its new value.
* `Session`: three lines of any kind, so that a long one comes before, between or after
  others, and so that a call can wait behind one that timed out. A long line has two
  pieces. All argument lists of all tools are taken into account: they are reduced to
  the set of verdicts they can have.
* `Layout`: three boxes of three widths at five points, which includes inside,
  overlapping, touching, diagonal and apart; three is the least that can be
  distributed. Tolerances of none, of less than the thinnest box and of as much as it.
  `MaxRadius` is small so that the search for a position does fail.
* `Launcher`: two bridges, one of which takes the other's handle.

Deadlock is checked for `Patcher` and switched off where the model rests: clients
run out of calls or lines, the server was stopped for the last time, all boxes are
gone, the launcher has exited.

## Fairness

* `DeferredCall`: weak fairness of the service thread, which the operating system
  schedules and whose wait has a deadline. `EveryCallReplied` assumes nothing of the
  main thread, which may hang in a dialog. Only `EveryPayloadConsumed` has the
  premise that it serves its queue.
* `WebSocketServer`: weak fairness of each thread's own progress; strong fairness of
  `LeaveService` (`lws_service` comes back after 50 ms), of writing to a writable
  connection and of closing one whose callback returned -1 (other events can come
  between, but lws serves each). Clients, failures and calls of `start()` and
  `stop()` owe nothing.
* `MaxmcpObjects`: weak fairness of what the main thread is in the middle of (creating
  an agent, closing a patcher) and of a service thread inside a handler, whose wait has
  a deadline; strong fairness of the end of a join with the service thread, since that
  may take a last message or two before it looks at `running_`. Nothing is assumed of the
  join with the queue thread, which a lost wake-up keeps asleep (finding 3): `MainReturns`
  has it as a premise. Nothing is assumed of callbacks either: the main thread may never
  get to its queue.
* `AgentSession`: the event loop of Node.js serves each event, an attempt to connect
  ends one way or the other, and a connection that is closing closes; the service
  thread goes on, and an executor returns, which is what `EveryCallReplied`
  establishes. Nothing is assumed of the main thread of Max. Breaking connections and
  signals are not fair.

## What is proved

| module | for any | theorems |
|---|---|---|
| `DeferredCall_proofs` | calls, patches, addresses | `TypeCorrect`, `AnswersAreOwn`, `StoresAreOwn`, `NothingLeaks`, `Refinement` |
| `WebSocketServer_proofs` | connections, requests, messages, starts, modes | `TypeCorrect`, `NoResponseStranded`, `StopIsClean`, `NoRequestMissed`, `RequestsInOrder`, `TokenProtects`, `MessagesAreKept`, `MessagesLeaveInOrder`, `Refinement` |
| `MaxmcpObjects_proofs` | boxes, patchers, placements, aliases, instances | `TypeCorrect`, `RegistryTracks`, `ServerIsOne`, `HandlersHaveServers` |
| `Patcher_proofs` | addresses, names, classes, nubs, bounds | `TypeCorrect`, `DirtyMarks`, `LinesKept`, `ReplacementsKeep`, `RepliesTrue` |
| `ToolExecutors_proofs` | arguments of every tool | `EveryToolAgrees` |
| `AgentSession_proofs` | lines, pieces | `TypeCorrect`, `LinesOrdered`, `RepliesMatch`, `EffectsOrdered`, `RepliesTell`, `ArgumentsAreChecked` |
| `LayoutTools_proofs` | layouts, groups, cords, tolerances, sizes, points, constants of the search | `LayoutTypes`, `PlacementClear`, `SuggestionsMeet`, `ReportTrue`, `AlignmentHolds` |
| `Sequence_proofs` | sequences without repetition | lemmas for the others |

With these, every invariant and every action property of every passing run is a theorem,
and so is the safety part of both refinements; what the runs alone show is liveness.

`DeferredCall_proofs`, from the assumptions that the null values are not members of
the sets: `AnswerIsOwn` alone is not inductive. What the proof needs is that one
executor is in `run_deferred` at a time (`OneExecutor`), that it owns the cell it points
to (`OwnsCell`), that its place and that of its callback fit together (`InStep`: no
callback before `Defer`, no flag before the result is stored), that a result tells
of the effect what `Tells` says: success that it took place, an error that it did not
unless the call replaces a box (`OutcomeTrue`), that an answer is given only
after the callback ran (`ResultAfterCallback`), and that as long as no call ran out of
time a raised flag is the work of the call's own callback (`OwnCompletion`). The last
one is where the time-out matters: after one, a callback may raise the flag of a cell
that now belongs to another call, and `deferred_late_result` shows the answer that comes
of it. Hence the case `SomeTimeout` in the properties. `Refinement` says that each step
of `DeferredCall` is a step of `ToolCalls` or changes none of its variables. Each action
has a lemma with a step per conjunct.

`WebSocketServer_proofs`, from the assumptions that silent requests are requests, that
requests and the server's own messages differ, that the modes are Booleans, and that
`None` is no value of its own: its `Inv` adds to the properties of the run `server`
what they rest on. How far `stop()` has come says which threads are gone and that nobody
runs meanwhile (`Threads`); who is in the middle of a callback has its connection in
hand, and that connection is open, since while it runs only the service thread closes
connections (`Hands`); `clients_` and the connections of libwebsockets agree, and
nothing waits for others (`Connected`); between predicate and block the request queue of
a running server stays empty, for which `enqueue_request` must hold the mutex
(`Asleep`); and no connection without the token ever opens (`TrustedOnly`). Nothing of
the kind holds of `stop()`, which signals without the mutex: `NoMissedRequest` is about
a running server only, and finding 3 shows the queue thread asleep while `stop()` waits
for it.

Its second half, on the order of the messages, rests on three facts about the histories: a message is new when it
is pushed and is pushed once (`Fresh`, `Unique`); the send queue is the end of what was
ever pushed, and the message in the handler's hands the one before (`Suffix`); of the
rest each was written or lost, in order (`Written`, `InOrder`). `MInv`, their
conjunction with `Inv`, is kept by each kind of step: a push (`PushOut`), a broadcast
(`BroadcastOut`), a pop (`PopOut`), a write or its failure (`WriteOut`), and all others,
which leave a client's messages alone (`SameOut`). `MessagesAreKept` says that each
message pushed to a client is in one place: its send queue, the handler's hands, the
wire, or among those lost.

Its `Refinement` maps the server's state to that of `ResponseChannel`: a connection
that hung up and was not closed yet is still open, and what waits is the handler's hand
followed by the send queue. A pop is then no step of the channel, a write delivers, a
failed write drops, and `Close`, `Reject` and `StopFinish` close one connection or all.
It uses `Inv`: the connection in the handler's hands is
open, one that is not open has an empty queue, and `clients_` are the open ones.

`MaxmcpObjects_proofs`, from the assumptions that `None` is no box and no patcher, that
boxes do not share generated ids and that the placements put boxes in patchers: the
properties hold together, none of them alone. An object that was never made has left no
trace (`Unborn`); what the main thread is in the middle of says which object it holds
and in what state (`MainBusy`): while an agent is being made none is named by the
singleton, while one is freed it is alive, and a join is under way only with a server
that is stopping. The live agents are those that have a server (`Agents`), which with
`OneServer` makes `maxmcp_free` of the agent the only step that destroys the
`MCPServer`. A service thread is in a handler only while its server was not joined
(`InService`); so when that step comes, nobody is in a handler, which is
`HandlerHasServer`. `InstanceLives` says that the pointer the handlers read is never
stale. The exception `flipped` runs through all of it: once a mode was switched the
cleanup follows the wrong mode, and these properties need not hold.

`Patcher_proofs`, from the assumptions that the null values are no name and no address,
that classes have their nubs and that the bounds are numbers: `Contents` (`Listed`: the
list names the boxes, each once; their and the lines' types; `LinesMeetBoxes`: a line
joins nubs that exist and no two the same, which Max sees to and the tools rely on) is kept by
each tool, by a lemma per tool, and `Flags` with it. The hard case is `replace_object_text`: the new box may come back at the
address of the old one, so that a self-connection that was saved points to the new box,
and at a class with fewer nubs; `connect` must then turn such lines down, which is what
the proof of its lemma goes through. The three action properties follow from `Contents`:
`LinesKept` goes through the tools by which a line can leave (`LineStays`), and needs that
the nubs of a line exist for the line that is freed and made again to come back
(`OnlyMidpoints`); `ReplacementsKeep` compares the lines before and after one by one (`ReplacementKeeps`),
which needs that no two lines join the same nubs; `RepliesTrue` needs, for a name that
`assign_varnames` gave, that the box with the highest index among the assignments of that
name is the one a search finds (`AssignedIsFound`).

`AgentSession_proofs`, from the assumptions that there are at least two pieces and that the
null id is no number of a line: the invariant has two parts. `Lines` follows what the
client wrote: `LinesKeepOrder`, that the n-th line has the id n (`Numbered`), and that what
was received are the first lines written (`Arrived`), from which `NextLine` follows: the
line that is taken next is the one after the last received. `Talk` follows what the server
makes of it. `Calls` says that only the last line received can be a call that waits,
because a message is taken only when no executor waits (`Idle`); so a callback that acts
before a time-out acts for a later line than all callbacks before it (`Acts`), and a reply
is to a later line than all replies before it (`Speech`). `Said` is what stays true of a
reply once given: its request was received, no executor waits for it, and it told of the
effect. `Answered` says that no reply is missing. Each of these needs the others, and all
need `Lines`. `SpeechQuiet`, `SpeechGrows` and `SpeechCut` say how a step may change the
replies; each action is one of these. None of this opens the tables of `ToolExecutors`: it
holds whatever the executors' checks are. `TypeCorrect` and `ArgumentsAreChecked` do need
them, by way of `ToolExecutors_proofs`.

`ToolExecutors_proofs` goes through the 30 tools. `Agree` compares the executor of a tool
with its schema, the other table: arguments that lack a required one, or give one that
the schema rules out, are turned down before anything is deferred, and arguments that
are as the schema says never are, at most their patch is not known. A verdict is what the
first failing check says (`FirstFails`), and a sequence of checks is put together from
parts that take certain classes of one parameter (`Part`, `Join`), before and after the
look-up of the patch (`Decided`). Tools whose checks have the same shape share a lemma;
the others have a step each. `ArgumentsChecked` follows, because the verdict of a line is
one its executor can have for the arguments the client wrote (`Decisions`).

`LayoutTools_proofs`, from assumptions on the layouts to begin with: finitely many boxes
with integer coordinates, none drawn without width or height (`DrawnAssumption`); cords
that join nubs which are drawn (`CordsAssumption`); numbers of nubs, tolerances, sizes,
groups and scopes of their kinds; `PLACE_GAP` at most `PLACE_MARGIN` (8 and 50 in the
code). Three assumptions say that the unit of the coordinates is fine enough: the
divisions for a center (`CentersAssumption`), for an equal gap (`GapsAssumption`) and for
the width that brings a nub to an anchor (`WidthsAssumption`) leave no remainder. The
code has doubles, in which these divisions are as exact as doubles are; without the
assumptions the integers would lose half a unit that the program does not lose. TLC
evaluates all of them for the layouts of the run.

All four tools read the layout and none changes it, so each invariant says that the
layout is still one to begin with until a tool has answered (`Untouched`), and then
follows that answer:

* `get_avoid_rect_position`: `AvoidIsClear` follows the three ways in which the search
  ends. At the anchor there is nothing to show; to the right of everything the position
  is clear because a finite set has a greatest member (`GreatestOf`), which is where the
  margin is needed; on a ring, the least of the open rings is the one that is taken, its
  free points have a nearest, leftmost, topmost one (`NearestIsFree`), and each of its
  points is exactly its radius away from the anchor (`RingApart`), so that the smaller
  rings are those without a free point.
* `suggest_alignment`: `SolvedMeets` puts the solved rectangle into the layout and
  computes its nub again, once for a moved left edge and once for a solved width; the
  undrawn first inlet shifts both by one. `Suggested` keeps the one move until it is
  applied.
* `validate_layout`: `SharedRun` says when two intervals share more cells in a row than
  the tolerance, and `OverlapRuns` compares that with the four comparisons of
  `aabb_overlap`: they agree for boxes thicker than the tolerance. `CrossesSteps` is about Liang-Barsky: the
  parameters at which the segment enters and leaves are the first and the last of the
  steps that lie inside the rectangle, for which each edge is treated alike (`OneEdge`)
  and the greatest entry and the least exit are steps themselves (`EnterLeave`).
* `align_objects`: `Aligning` says that each box of the group is where the solution puts
  it or has its move left, whichever moves the client took first; so in the end the
  group is the solution (`AlignedThen`), and `SolutionsSettle` says of every solution
  that it is aligned and solves to itself. For edges and centers that is because the
  bounding box of the solution has the same line (`EdgesSettle`). A distribution is a
  `Row`; its gap, put into the formula again, gives the same gap (`RowGap`), and with a
  gap that is not below zero no other order sorts it (`RowOrder`), so that whatever order
  `std::sort` leaves it is this one. With a gap below zero `NoRoom` shows that some order of the
  boxes as they are then has a gap below zero too, and these groups are the ones that
  the property excepts (`Room`). The sums of sizes are folds over sets; `SizeIsArea`
  shows that they count cells, from which they can be compared and added
  (`SizeSum`). `Sorting` is there to show that an order always exists: without it `Room`
  could hold because nothing is to be compared.

Only model-checked:

* liveness, and `ENABLED`, which are out of the prover's reach: `EveryCallReplied`,
  `EveryPayloadConsumed`, `ServiceThreadJoins`, `ResponseLeaves`, `RequestHandled`,
  `MainReturns`, `RequestAnswered`;
* the fairness of `ToolCalls`, by which a call that was accepted is replied to: the run
  `deferred` checks it with the rest of `ImplementsToolCalls`.

## Findings (runs that end in a violation)

1. `deferred_late_result` — after a time-out the executor deletes the
   `DeferredResult`, the payload of the still queued callback points to it, and when
   the memory is given to a later call the late callback completes that call with
   its own result (`tool_common.h:472`).
2. `deferred_stale_patch` — the `t_maxmcp` found before `defer()` may be freed when
   the callback reads it (`tool_common.h:244`, against `architecture.md:495`).
3. `server_stop_hangs` — `stop()` clears `running_` and signals without the mutex;
   a queue thread between predicate and block sleeps for ever and the join with it
   (`websocket_server.cpp:90`).
4. `server_auth` — a client that presented the token is refused at its first
   message, since nothing sets `authenticated` (`websocket_server.cpp:384`).
5. `launcher_exit` — the close event of a bridge that was stopped clears the handle
   of the one started after it, which the exit handler then leaves running
   (`bridge-launcher.js:50`, against `:71`, "Cleanup on exit").

Further differences met while modelling, without a run of their own:

* `DeferredResult::notify` signals after it released the mutex; a waiter that woke
  for another reason may have deleted the condition variable (`tool_common.h:153`;
  `touched` has these accesses under "cv").
* A call that timed out takes effect later all the same, so that a client that
  repeats it, as `architecture.md:253` suggests it safely can, has it done twice.
* `remove_max_object` on the box of the patch it was called for frees the `t_maxmcp`
  and then reads its patcher to mark it dirty (`object_tools.cpp:215`).
* `remove_max_object` on the box of the agent itself joins the service thread that
  waits for this callback: Max stands still until the call times out, and the callback
  then completes a `DeferredResult` that was deleted (`object_tools.cpp:214`).
* `replace_object_text` does not restore all connections, as its description says it
  does (`object_tools.cpp:441`, against `:775`): a self-connection is saved as a pointer
  to the box that is freed, and a new class may lack the nub.
* `replace_object_text` whose new text cannot be created has deleted the box and its
  lines, reports an error and does not mark the patcher dirty (`object_tools.cpp:441`).
  It is the one callback whose error does not mean that nothing was done; the properties
  about errors except it, and no property shows it as a fault.
* `get_avoid_rect_position` returns a point of the first ring that has one, which
  need not be the nearest on its grid as `mcp-tools-reference.md:510` says: a corner
  of a ring is farther than the middle of the next one from the third ring on.
* `distribute_h` and `distribute_v` on boxes without room side by side compute a gap
  below zero; a box can be carried past its neighbour, and the gaps are then not
  equal (`geometry.cpp:319`, `mcp-tools-reference.md:668`).
* `aabb_overlap` compares the edges of two boxes, not what the two share: a box no
  thicker than epsilon inside another one is reported (`geometry.cpp:29`), although
  `geometry.h:72` and `mcp-tools-reference.md:546` say that an overlap of at most epsilon
  is not. The layouts of the run have such boxes; `ReportMatchesPicture` leaves open
  whether they are reported.
* Clearing midpoints reports success also when the line could not be made again
  (`connection_tools.cpp:367`); Max makes it, since both nubs were joined before.
* `suggest_alignment` with anchor and target on one box moves the anchor along.
* `align_objects` with a name that occurs twice returns two moves for one box.
* The mode attribute can be set after creation; the cleanup of the other mode then
  runs and a registry entry or a server outlives its object (`maxmcp.cpp:303`, `:310`).
* `MCPServer::get_instance` may create two instances, one of which leaks
  (`mcp_server.cpp:37`).
* The stop message leaves the `MCPServer` started (`maxmcp.cpp:467`).
* An alias replaces the generated id unchecked; of two patches with one alias only
  the first is found (`maxmcp.cpp:276`).
* `get_frontmost_patch` returns the patch that was registered first
  (`patch_registry.cpp:163`, `mcp-tools-reference.md:63`).
* Notifications other than `notifications/initialized` are answered
  (`mcp_server.cpp:229`, `docs/research/phase2-e2e-websocket-fixes.md:64`).
* A request with a field of another type than asked for is answered by a parse
  error with a null id (`mcp_server.cpp:315`); `attributes`, `arguments`, `checks` and
  `scope_varnames` of another type are silently taken for absent.
* A message of more than 4096 bytes is handled piece by piece
  (`websocket_server.cpp:389`, `architecture.md:399`).
* Under `DeferredWrap::Always` (`tool_common.h:481`) an error of the callback comes
  back as a result; `RepliesTellOutcome` excepts the tools that use it.
* The bridge does not exit when the client closes its stdin: it listens to `line`
  only (`websocket-mcp-bridge.js:144`).
* The launcher does not listen to the `error` event of the child: when `node` cannot be
  found the error is not the one that the handler at `bridge-launcher.js:55` posts.

## What is not modelled

* Callbacks of queries that only format what they read (`get_objects_in_patch`,
  `get_patchlines`, `get_object_io_info`, ...), the wording of schemas, log texts, ids
  and their generator. The checks of their executors are in `ToolExecutors`.
* Callbacks of state and hierarchy tools: one attribute or one read-only walk in one
  callback; what is hard about them is the deferral, in `DeferredCall`.
* The console logger: every operation under one lock.
* The older bridges in `package/`, which are not part of the WebSocket path.
* Presentation mode and nested patchers; floating-point rounding. `LayoutTools` shows
  what the formulas promise on exact numbers.
* Optional arguments of a wrong type in the run `session`: the tools tolerate some,
  and no document says which.
* Max and libwebsockets themselves, which are modelled from how the code uses them
  and marked external in the map.

## Plan

Done: every part above with its runs; proofs of every safety property that a run
checks, and of both refinements, of `ToolCalls` but for its fairness. What is left:

1. `AgentSession` and `ToolCalls`: that a session's steps are steps of the promise.
2. Properties of the abstract specifications themselves, carried over by the refinements.
3. Presentation mode in `LayoutTools`, nested patchers in `Patcher`.
