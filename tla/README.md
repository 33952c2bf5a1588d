# Verification of cctg

cctg ("Claude Code in Telegram") connects the Claude Code sessions of several
computers with Telegram. On every computer (a *device*) Claude Code runs
`cctg hook` for its lifecycle and turn events, and `cctg agent` (an MCP channel
server) as long as a `claude` process lives. Hooks and agents talk to one
`cctg hub`; the hub gives each session a forum topic and writes into it through
the Bot API. This directory holds TLA+ modules of the parts of that system in
which order, concurrency, loss and restarts matter, the TLC configurations that
check them, and proofs for most of them.

Paths below are relative to `src/crates/cctg/src/`.

## 1. Inventory

```
 claude ── cctg hook ──HTTP──┐                        ┌─ registry (slots, sessions)
   │          │ spool        ├─ hub/ingress ─ actor ──┤  hub/slots.rs owns it
   │       (files)           │   (channels)   slots   └─ save_loop → registry.json
   └──── cctg agent ──TCP────┘                  │
              (replays the spool too)           └─ Outbox: one scheduler per chat ─ Telegram
```

| Component | State | Operations | What is hard | What makes it correct |
|---|---|---|---|---|
| Slot registry `hub/registry.rs` | slots (host, folder, ordinal, current session), sessions, pid map, recent clears and starts | `session_started`, `session_ended`, `reap`, `prune`, `load`/`heal_split_sessions` | every hook is a process of its own: posts come late, in any order, after a pid was reused | a running session owns one slot, nobody else takes it; the file stays loadable |
| Agent links `hub/slots.rs`, `hub/ingress.rs` | open links, the link of each session, links that wait for a session | register, disconnect, rebind, `follow_pid`, update answers | two channels (hooks, links) that race; stale environment ids after `/clear`; a dead link noticed late | messages of a topic go to the process that runs its session |
| Hook delivery `hook.rs`, `spool.rs`, `agent.rs`, `hub/ingress.rs` | spool files, remembered event ids | post, keep, replay, evict, expire, deduplicate | lost answers, two replayers, no locks, restarts of the hub | once, in order, bounded, and not kept for ever |
| Outbound scheduler `hub/scheduler.rs` | three lanes, token buckets, broken streams | submit, coalesce, merge, pick, dispatch, retry, drop | starvation, a retried request overtaking a newer one, one request with many senders | order within a topic, newest text wins, every sender answered once |
| Transcript stream `hub/stream.rs`, `tail.rs` | what was sent, what was answered, offset, barriers | read, send, receipt, rewind, restart | receipts out of order, part of them refused | each line shown once, the offset never passes an unshown line |
| Message delivery `hub/updates.rs`, `hub/offset.rs`, `hub/buffer.rs`, `hub/fetch.rs`, `hub/slots.rs` | the offset, the buffer of a slot, bursts, downloads, voice messages being heard | poll, route, keep, gather, hear, fetch, hand over, offer Resume | what the front waits for answers late or never; the link goes during a transfer; crashes between handling and saving | in order, once, and no message vanishes without a word to its author |
| Permission prompts `hub/permissions.rs`, `hub/slots.rs`, `hook.rs` | the prompt book, hooks that wait, verdicts that are not acknowledged | open, send, press, answer in the terminal, acknowledge, resend, expire, edit | a button, the terminal, a timeout and lost answers race; a dialog is asked about twice (hook and channel) | the verdict is what was pressed, it is not dropped, buttons go away |
| Topics and views `hub/registry.rs`, `hub/slots.rs` | the views of a slot, topics to delete, what Telegram is known to show | create, edit, separate, share, unshare, archive, clean up | calls that get through although their answer is lost; people delete topics and block the bot; deletes that race a slot coming back | no topic is orphaned, deleted in use, or left as the home of a session it is not for |
| Registry store `hub/slots.rs` (`save_loop`), `Registry::save` | newest snapshot, the file | save, replace, stop | a crash between a Telegram call and the write | what the file lost is found out again from Telegram |
| Subagent blocks, mirrors, devices and enrolment, people and menus, client update, status line, wire and TLS, transcript parser, sandbox, deployment | see `PROJECT.json` | | | one reader or writer each, or pure I/O and text |

`PROJECT.json` lists every component with its files and, under `hazards`, what is
hard to test in this code, at the line where it bites.

## 2. Plan

| Order | Module | State |
|---|---|---|
| 1 | `SessionSlots`, abstract `TopicOwnership`, proofs in the first part of `DeviceProofs` | done |
| 2 | `AgentLinks` (extends `SessionSlots`), composed by `Device`, proofs `DeviceProofs` | done |
| 3 | `HookSpool`, proofs `HookSpoolProofs` | done |
| 4 | `Outbox`, proofs `OutboxProofs` | done, without callback answers |
| 5 | `TranscriptStream`: the reads of a session's transcript, receipts, barriers, rewind, resend, the saved offset across restarts; the scheduler reduced to what `Outbox` shows of it (order, and a broken stream); proofs `TranscriptStreamProofs`, `NothingSkippedProofs` | done, see section 7 for what it leaves out |
| 6 | `MessageDelivery`, abstract `KeptMessages`: from getUpdates to the agent of the topic's session; proofs `MessageDeliveryProofs` | done |
| 7 | `PermissionPrompts`: press, terminal answer, acknowledgement, expiry and edits; proofs `PermissionPromptsProofs` | done |
| 8 | `TopicViews`: the topics of a slot, their calls and the saved registry; proofs `TopicViewsProofs` | done |
| 9 | questions (`hub/questions.rs`), mirrors of private chats | open |

The modules that are proved about use no recursive operator.

## 3. Modules

### SessionSlots and TopicOwnership

`SessionSlots` is `hub/registry.rs` without topics and views. `slots`, `sessions`
and `pids` are the maps of `Registry`; `clears` and `starts` are `recent_clears`
and `recent_starts`, which live only in memory. Times are abstracted to what is
compared: `older` orders the sessions by `SessionEntry::seen`, and `GraceOver`
and `HandoffOver` end `REAP_GRACE` and `CLEAR_HANDOFF_TTL` at any moment.

| Code | Definition |
|---|---|
| `session_started` | `StartRouted` (a nested post of a top-level id: nothing is recorded), `StartNested`, `StartTopLevel` |
| `session_ended` | `EndIgnored` (unknown session, or another run's pid), `EndSession` |
| `reap` (part of both) | `Reaped`, `SessionsReaped`, `PidsReaped` |
| the reused pid's session is over | `ReusedPidEnded` |
| `allocate`: own slot, slot a `/clear` left, slot the previous session still holds, lowest free one, new one | `Allocates`, `OwnUsable`, `ClearUsable`, `HandedOn`, `FreeSlots`, `NextOrdinal` |
| `occupy`, `release_elsewhere` | `Occupied` |
| `prune` | `Forgotten`, `Pruned`, in `Recorded` |
| `load`, `heal_split_sessions` | `ReadableFile`, `HealedSlots`, `HealedSessions`, in `Init` and `Restart` |

Every post may come in every state: that is more than devices send, and what holds
here holds for any delay, loss and repetition of posts. `TopicOwnership` is what
the rest of the hub relies on: a session owns one slot from its start to its end,
and a post of another session neither moves it nor takes its slot, except that a
post may end sessions. `Holder` maps the registry to it.

### AgentLinks and Device

`AgentLinks` adds the actor's handlers to the registry's: `AgentRegistered`
(`agent_session` chooses the session), `AgentDisconnected` (with `heir` and
`rebind`), `HookStart` and `HookEnd` (`on_hook` with the link that waited, and
`follow_pid`), `AgentLeaves` and `AgentStays` (update answers, handled under the
session their frame was read under), `HubRestart`.

`Device` is a device around them. Processes start, `/clear`, are compacted, exit and die
(`Launch`, `Clear`, `Compact`, `Exit`, `Kill`); the posts this causes wait in `posts`, in
order for one session and in no order for different ones, and may lose their list
of live pids by being kept (`Spool`: the spool strips it, `spool.rs`). The agent of
a process has a link (`LinkUp`, `LinkLost`), whose loss the hub notices later, or never
(`AnswerLost`: the hub took the registration and could not write its answer).
`Device` is Claude Code and the operating system as the hooks and agents of this
repository use them. `situation` says what a run leaves open: sessions a live process
left are resumed, agents are asked to update, the hub restarts, answers to registrations
are lost, sessions are compacted. Two cases are left
out because the code does not promise `LiveIsKnown` after them (section 6): a pid that
names a second process, and a session that goes on in another process while posts of
it still wait.

### HookSpool

One action per step of a hook (`HookStarts`, then `Answered` or `Failed` for each
kept event and its own, `MakeRoom`, `Write`), of an agent (`AgentReplays`), of the
sweep, and of the hub (`Accept`: deduplicate, then take or refuse). A POST that ran
into its timeout may still arrive (`LateCopy`). `Turn` and `Unread` say which event
numbers are turn events and which ones this hub answers with 400. What a poster read
from the spool is a set, sent oldest first (`First`). `lost` holds what
was given up: expired, evicted, refused, or gone with a dead hook; it is not
state of the code but what the properties must exclude.

### Outbox

The scheduler of one chat. Texts are the numbers of the jobs that brought them, so
that merging and coalescing stay visible. `q` holds the lanes, the broken streams
and the answer of every sender; `out` is the request under way; jobs handed over
meanwhile wait in `inbox` (the channel) and are taken in when it returns.
`Turns` lists the rules of `pick` in their order; `Dispatch` is `dispatch` up to the
request, and `Accepted`, `Refused`, `Failed`, `FloodWait` and `FormRefused` are the
rest of it for the possible answers. `log` keeps the requests Telegram took and the
lines that failed.

Times are abstracted: a bucket gains a token, a pause ends and a debounce runs out
at any moment (`Refill`, `PauseOver`, `Ripen`), so every real timing is one of the
model's. The hub always makes schedulers with all buckets and the debounce
(`Limits::default`, `Limits::private`); branches for a missing bucket are left out.
The counters of requests since the last new message and the last refresh are kept
up to `MaxUnmetered`, where all comparisons happen.

`Submit` has one precondition of the hub: once it handed over turn content for a
status message, it writes no status into that message any more. `Op` says what each variant of
`Op` carries; among it that a line that may merge has no earlier messages (`rich_turn` in `slots.rs`
makes the rich form of such lines, with `before` empty). `OutboxAssumption` says that a message is in one topic:
the hub takes the id of a message it writes into from the topic it writes for.

### TranscriptStream

The stream of one session: `plan` is its transcript with what may go wrong, `live` is
`Live` of `hub/stream.rs`, `offset` is what the registry saves of it. A line is its
number and shows one piece; an answer is the number of the line that ends its turn;
a write carries the whole text of its message as a sequence of lines, so growing,
merging and sending again stay visible in `topic`. The transcript grows as it is
read: `written` is what the agent and the Stop hook have seen of it.

| Code | Definition |
|---|---|
| `pump_streams` | `ReadForgotten`, `HoldOver`, `AskRead` |
| `on_chunk`, with `apply_line`, `roll`, `overdue` | `OnChunk`, with `LinesTaken` (`LinesRead`, `TakenLine`, `Applied`, `Shown`, `Overdue`) |
| `on_turn_answer`, `claim_end`, `answered_early`, `release` | `Stop`, with `Claimable`, `AnsweredEarly`, `Released` |
| `turn_end` | `TurnEnd`, `LetGo` |
| `push_message`, `barrier`, `advance`, `rewind`, `opened`, `close_open` | `Push`, `Barrier`, `Advanced` and `Committed`, `Rewound`, `Opened`, `CloseOpen` |
| `on_stream_sent`, `stream_answered`, `absorbed` | `OnStreamSent`, `Moved` |
| `drain_stream`, `resend`, `fold_refused_absorbs` | `Leave` (the held answers go), `Drain`, `Resent`, `Folded` |
| `close_turn_message` after somebody else's post | `OtherPost` |
| scheduler: `enqueue`, `next_message`, `merge_lines`, `break_stream` | `HandOff`, `Sending`, `Joins`, `Failed`; `Taken`, `EditGone` and `Refused` are the other answers |

Simplifications: the channel to the scheduler and its lane are one queue; a request
and its answer are one step (a failed request did not show), but the answers reach the
actor in any order, since each is awaited by a task of its own; clearing a status
message away is immediate; one tool call is open at a time. Timers run out at any
moment, except that a held answer and an unanswered read may run out only as often as
the plan says (without an agent they always may). `fate` is not state of the code: it
records what Telegram refused or a reader deleted, which answers went outside the
stream or before their turn end, what an answer overtook, and whether a resend wrote an older text over a
newer one.

### MessageDelivery and KeptMessages

What people write in the topic of one slot, from Telegram to the agent. `plan` is the
kinds of the messages in their order, `slot` the `Buffer` of the slot and `disk` what
registry.json holds of it, `actor` what the hub keeps in memory only (voice messages
being heard, words being shown, the summary being made, the burst, losses of the link),
`fetch` the download of the front file, `link` the newest link with its queue.

| Code | Definition |
|---|---|
| `poll_until`, `route_batch_with`, `save_offset` | `Poll`, `OffsetOf` |
| `on_topic_message`, `take_in`, `Buffer::push` | `TakeIn`, `Kept`, `Parked`, `Full`, `Dropped` |
| `flush` and what it calls for the front message | `Flushed`, with `Tries`, `Tried`, `TextStep` (`Burst`), `FileStep`, `VoiceStep`; an emptied buffer: `Closed` |
| `offer_resume`, `on_resume_done`, `drop_resume_button` | `Offered`, `OnResumeDone`, `ButtonDropped`; its edit gets through in `ButtonEdited` |
| `on_voice`, `on_heard`, `expire_voices` | `OnVoice`, `OnHeard` |
| `history_ready` | `HistoryReady` |
| the download task (`serve`, `hand` in `fetch.rs`), `on_fetched` | `Download`, `OnFetched` (`Stays`) |
| links, sessions, the stop of the hub | `Connect`, `Lose`, `Disconnected`, `End`, `Begin`, `Save`, `Crash` |

An event of the actor, the flush it ends with and the rest of `pump` are one step; what
the actor asked others for answers later, in any order. The summary of a history is
always answered by a later step, which is what the code does when it has a reader at all.
`KeptMessages` is the promise: a message the hub took is kept until the agent of its
session got it or its author was told that it does not go; a crash loses what was not on
disk, never what was. `MessageDelivery` implements it (`KeepsMessages`).

### PermissionPrompts

Dialogs of a `claude` process that its channel relays, its PermissionRequest hook asks
about, or both. `dialog` and `hook` are Claude Code's side, `outbox` and `passed` the agent's,
`links` the frames between agent and hub; `book` is `Prompts`, `asks`, `waiter` and
`relayed` are `hook_asks`, `hook_waiters` and the requests remembered for
`TWIN_WINDOW`; `tg` is what Telegram shows of each prompt.

| Code | Definition |
|---|---|
| `on_permission_request`, `on_permission_ask`, their twins | `OnRequest`, `OnAsk`, `WindowOver`, `TwinForgotten` |
| `Prompts::open` on a full book | `Opened`, `Crowded`, `Victims` |
| `send_prompts`, Telegram, `Done::Permission` | `Sent`, `Shows`, `OnSent` (`Delivered`) |
| `on_callback`, `press`, `press_hook`, `push_verdict` | `OnCallback`, `Selected`, `HookPressed`, `Pushed`, `VerdictConn` |
| the agent's verdicts and their acknowledgement, `push_selected` on the next link | `AgentTakes`, `OnAck`, `Connect` |
| `check_hook_asks` | `HookChecked`, `HookEnds`, `HookOver` |
| `send_prompt_edits`, `on_prompt_edit_done`, `expire`, `close_prompts` | `EditSent`, `OnEdited`, `Cleared`, `Closes` |

Assumed: the request id of a forgotten message is never that of a prompt whose send is still out (`Stray`).
Ids have five letters of 25, those of hooks are random (`hook_request_id`), and a repetition would have to fall into
the time of one send; ids may repeat in every other way, between processes and between hooks and channels.

### TopicViews

The topics of one slot, which shows in the private chat of its owner, in the group while
that chat takes nothing (a fallback), or in both when it is shared. `hub` is the slot's part of the
registry with the actor's own state and the calls it handed out, `tg` Telegram, `file`
registry.json, `past` what the hub was told so far. A title and an icon are the session
and whether it runs; a separator is the number of the session it names, 0 for the share line.
Every event ends with the rules of `pump`: `Ensured` (`add_private_views`,
`ensure` of a group view, `drop_fallback_views`), deletes of unshared and cleaned topics, and
`topic_work_except`. `Takes` is Telegram carrying a call out or not; `Answered` is the answer, or
none, reaching the actor. A slot that was not made yet is like an archived one.

## 4. Runs

| Run | Asks | Bounds | Size |
|---|---|---|---|
| `session_slots` | Do slots stay exclusive under any posts? Does the registry implement `TopicOwnership`? | 2 sessions, 2 pids, 1 host, 1 folder, `MaxSessions` 1; starts from an empty file or one that has a session in two slots | 32 thousand states |
| `device` | Is a session ever bound to a link of another one? Once everything a device sent arrived, does the hub know what runs, and serve it by the link its agent has? | 2 sessions, 2 processes, 2 links, 2 posts per session, reordered posts; restarts at any time with lost answers to registrations, or agents that leave and stay, or compactions | 1.6 million |
| `hook_spool` | Once, in order, bounded, not for ever? | 3 events (one lifecycle, one turn, one turn the hub refuses), one turn file, two files, 1 restart, clock to 3 | 56 thousand |
| `outbox` | Order within a topic, newest text, no starvation, one answer per sender | four workloads: prompts, cancellable status messages and tool lines; rich texts of two parts, restarts and tool lines; edits, refreshes and turn content; topic calls, edits and messages of another topic; 3 or 4 jobs, 1 or 2 faults | 249 thousand |
| `transcript_stream` | Is no line skipped, each answer shown once and behind the lines of its turn, and everything shown in the end? | eleven plans: transcripts of 3 or 4 lines with one or two turns, each with one to three things that go wrong; messages of 2 pieces, `MAX_WAITING` 3, `MAX_HELD` 2, one resend | 867 thousand |
| `message_delivery` | In order, once, never stuck, no button forgotten; does the hub keep what it took (`KeptMessages`)? | 2 or 3 messages of a plan (a file and two texts; a voice message and a mention; a text and a command), a buffer of 2, bursts of 2, a queue of 1, 2 links, 2 sessions, 2 faults | 1.3 million |
| `prompts` | Is the verdict what was pressed, is it kept until it is acknowledged, do buttons and hooks end? | two dialogs, each asked by its channel, its hook or both; a book of 1 or 2; the hook's id equal to the channel's or not; agents that acknowledge or not; 2 links, 2 processes, 1 or 2 faults | 1.7 million |
| `topics` | Is every topic owned, alive where it is shown, and the home of the right session? | eight plans over 1 or 2 sessions, 2 or 3 topics, a failed call or a crash or up to three acts of people (write, delete, block, share, clean), with and without the right to delete | 2.7 million |

Why these bounds reach the interesting cases. *Slots*: with two sessions and two
pids every relation between a post and the registry occurs (own slot, handed-on
slot, foreign slot, own pid, reused pid, ancestor), and `MaxSessions = 1` makes
`prune` forget; the properties are proved for all sizes. *Device*: two processes
are enough for a reaped session and two links for a reconnect;
ids of links only grow, so runs are finite by `MaxConns`. *Spool*: with
`MaxTurnFiles = 1` the second turn event evicts, `MaxFiles = 2` fills the spool, and
`TurnMaxAge < DedupTtl` are adjacent numbers, so their boundary is met; there is one
session, and the bound over several sessions is proved (section 5). *Outbox*: buckets of one
token make every pick compete, `MaxUnmetered = 1`
makes the forced turn come after one other request, `MaxText = 2` makes the third
line not fit, and a fault can hit any request, twice in the workload of lines.

*Messages*: a buffer of two and three messages overflow it while a file is on its way;
two links and two faults give a lost link, a new one and a second loss (`MAX_LINK_LOSSES`);
a crash may come with the offset saved and the message not. *Prompts*: a book of one makes
the second prompt push the first out, two links make the verdict go again. *Topics*: two
topics are enough for a replacement, three for one that is shared as well.

*Stream*: the four transcripts have a turn message that grows and one that overflows,
two turns whose answers can be confused, a prompt between two turns (turn ends lapse)
and a tool call left open across a rewind; each plan adds failed, refused, deleted,
late or lost things, a foreign post, a lost link, a restart, or a session that leaves,
in the pairs that meet in the code (a failure while an answer is held, during a drain,
before a restart, with a deletion). With `MAX_WAITING` 3 and two pieces per message
a read stops in the middle and is continued. Larger combinations run into millions of
states without a new kind of step.

`CHECK_DEADLOCK FALSE` stands where the bounded environment stops by itself (no
session, event or job left to make, no line left to read).

Four runs expect a violation: each states what a comment says and shows what the
code does (section 6).

**Fairness.** `HookSpool!Fairness`: the agent looks at the spool every second
(`agent.rs`), so its replay starts again and again, and the hub can be reached
again and again, so a replayed event is answered at some time (strong, since posts
fail in between). No fairness is assumed of hooks: only the agent makes
`KeptIsHandled` true. `Outbox!FairSpec`: the scheduler's loop goes on, a request gets
an answer or its timeout (reqwest), and time passes; nothing is assumed of the
hub. `TranscriptStream!Fairness`: `pump_streams` runs again and again, so a due read is
asked and a late one forgotten; the agent answers a read on a living link; a queued
message is tried and gets an answer, and that answer reaches the actor. `EventuallyShown`
speaks of sessions that keep their slot and their agent. The other runs check safety only;
`NothingStuck` says as an invariant that the front of a buffer always waits for something
that ends by itself.

**What some results say.** `NewestTextStays` holds because the channel is not
read while a request is out: a newer edit of the message that is out is never queued
when a 429 comes back, so the branch for that case (`scheduler.rs`, in the 429 path)
does not run; the older edit returns to its lane and is replaced when the channel
is read. `TurnHandledOnce` needs `TURN_MAX_AGE < DEDUP_TTL`, stated as an assumption of
the module and true of the code's constants, and room for the ids (`RoomForIds`, section 5);
it holds within one run of the hub only (section 6).

`AnswerInPlace` has exceptions, each a limit of the code
that the model showed: an answer whose time ran out goes first (`fate.early`, as
`hold_answer` says); a write into a message above may still be under way, because it
has a queue of its own; once turn ends lapsed, an answer went outside the stream, a
late read was taken for a newer one or a restart of the hub forgot a pairing, answers and turn ends may be paired
one off (`PairingLost`); and after the break of `stream_break` nothing is promised. None
of them touches `NothingSkipped` or `AnswersKept`. `NothingSkipped` has one exception of its own
(`fate.stale`): the resend of a session that left its slot, section 6.

`LiveIsServed` is about runs in which the hub restarts and answers are lost; it leaves out agents asked to
update, sessions that a live process left and another resumes, and a link that came before the start of its
run and lost its session meanwhile (`used.robbed`; section 6 has all three).
It holds with links whose end the hub is never told: the link an agent has is its newest, and
what is bound later wins. A compaction breaks it, since it makes an older link move (`device_compact`).
`ServedByOwnAgent` leaves out agents asked to update: with a third session the one that is bound back may take
a session that another process runs by then.
`FixedAnswerStays` is checked twice: with Telegram's answers to sent prompts reliable it
holds, with them lost it does not (`prompt_lost`). `HomeIsRight` asks for the right name and icon
only where no answer of an edit was lost, and for the right session only of topics that are not older than
it (section 6); after a crash that lost what the file did not have yet, it asks for neither.
`TopicsOwned` leaves out a topic whose create got through while its answer was lost, or which
the hub did not save before it died: the code documents it as an orphan.

Every property has a mutant in `PROJECT.json`: a definition next to the
one it replaces, called "Mutant of ..." in its comment, with a plausible mistake (a
dropped guard, an off-by-one, a missing reset, a changed order) under which the same
run finds the property violated.

## 5. Proofs

The proof modules are checked by TLAPS. `DeviceProofs` is for every set of
sessions, hosts, folders and pids, every `MaxSessions`, and every set of readable
registry files; what it proves of `Device` also for any number of links and of posts under way, whatever
`Situations` leave open. Its first part, on `SessionSlots`, assumes `ConstantsAssumption` alone: `None` is no
value, there are finitely many sessions, `MaxSessions > 0`, and a file a hub starts
from is well-formed, has unique slot identities (`load` refuses others), and has
each running session in the slot its entry names and shown sessions known. A
session may be current in several slots of such a file: older hubs left such
files, and `heal_split_sessions` mends them.

| Theorem | Says |
|---|---|
| `Invariance` | `IInv` is inductive |
| `TypeCorrect`, `SessionCurrentOnce`, `RunningSessionHoldsSlot`, `ShownSessionIsKnown`, `SlotIdentityIsUnique` | the invariants of run `session_slots` hold in every reachable state |
| `RegistryKeepsOwnership` | the registry implements `TopicOwnership` |
| `DeviceInvariance` | `DeviceInv` is inductive |
| `LinksServeTheirOwn` | `LinksOwn` of run `device` holds in every reachable state |
| `LiveInvariance`, `AgentInvariance`, `ServedInvariance` | `LiveInv`, `AgentInv` and `ServedInv` are inductive, if the hub does not know the device yet |
| `LiveSessionIsKnown`, `LiveLinkServes` | under the same hypothesis, `LiveIsKnown` and `LiveIsServed` of run `device` hold in every reachable state, for every `Situations` |
| `OwnAgentServes` | under the same hypothesis, `ServedByOwnAgent` holds in every reachable state, where no process resumes what a live one left |
| `DeviceImplementsRegistry` | `DeviceSpec` implements `SessionSlots!Spec`, so what is proved of the registry holds of a device |
| `TopicsInvariance` | `TopicsInv` is inductive |
| `HomeInvariance` | `HomeInv` is inductive |
| `NoTopicForgotten`, `NoViewOfGone`, `SessionIsAtHome` | `TopicsOwned`, `ViewsAlive` and `HomeIsRight` of run `topics` hold in every reachable state |
| `SpoolInvariance` | `SpoolInv` is inductive |
| `TypeCorrect` of `HookSpoolProofs`, `EventsInOrder` | `TypeOK`, with the bounds of the spool, and `HandledInOrder` of run `hook_spool` hold in every reachable state |
| `TurnEventsOnce` | `TurnHandledOnce` of run `hook_spool` holds in every reachable state, if the hub has room for the ids |
| `PromptsInvariance` | `PromptsInv` is inductive |
| `TypeCorrect` of `PermissionPromptsProofs`, `AnswerPressed` | `TypeOK`, with the limit of the book, and `AnswerIsPressed` of run `prompts` hold in every reachable state |
| `ShownWasTaken`, `ButtonsAreOwned`, `HookIsHeld` | `ShownIsTaken`, `ButtonsOwned` and `HookHeld` of run `prompts` hold in every reachable state |
| `FixedAnswerKept` | every step keeps `FixedAnswerStays` of run `prompts`, unless an answer of Telegram is lost |
| `Invariance` of `MessageDeliveryProofs` | its `IInv` is inductive |
| `TypeCorrect` of `MessageDeliveryProofs`, `DeliveredInOrderOnce`, `NoButtonForgotten`, `MessagesMoveOn` | `TypeOK`, with the limit of the buffer, `InOrderOnce`, `ButtonsGo` and `NothingStuck` of run `message_delivery` hold in every reachable state |
| `MessagesAreKept` | `MessageDelivery` implements `KeptMessages` |
| `Invariance` of `OutboxProofs` | its `IInv` is inductive |
| `TypeCorrect` of `OutboxProofs`, `TopicsKeepOrder`, `NewestStays`, `MessageServed`, `SendersHeld` | `TypeOK`, `TopicOrder`, `NewestTextStays`, `NewMessageServed` and `WaitersHeld` of run `outbox` hold in every reachable state |
| `StreamInvariant` | `StreamInv` holds in every reachable state of `TranscriptStream` |
| `TypeCorrect` of `TranscriptStreamProofs`, `NoAnswerLost` | `TypeOK`, with what waits in the scheduler or is answered, and `AnswersKept` of run `transcript_stream` hold in every reachable state |
| `WritesStayBelow` | `NothingAboveAnswer`, the second half of `AnswerInPlace`, holds in every reachable state |
| `NoLineSkipped` | `NothingSkipped` of run `transcript_stream` holds in every reachable state |

The inductive invariant `IInv` is the conjunction of the five invariants and
`SlotsExist`: every slot number in an entry or a remembered hand-off is a slot of
the registry. Without it `allocate` could be sent to a slot that does not exist.
The five need each other: `RunningHoldsSlot` is kept because a start only takes a
slot whose current session does not run, or its own, or one whose session it
ends (`TakesHandedOn`); the session put into a slot is shown elsewhere no more
(`CurrentOnce`) because `Occupied` clears it; `ShownIsKnown` is kept by `prune`
because a shown session is no candidate; and it is what makes a slot's current
session one that the arguments about running sessions speak of. The
proof has a lemma per building block (ending sessions, occupying, adding a slot,
forgetting, healing) and one per action.

For the refinement every step is mapped: a step that ends sessions is `End`, a
top-level start is `Start` with the sessions it ended, everything else stutters;
`Invariance` supplies that the slot taken is owned by nobody left.

The part of `DeviceProofs` on `Device` adds `MaxConnsAssumption` and `DeviceAssumption` (the device is one of the hosts, its
folder one of the folders). `LinksOwn` is not inductive. `LinksOK` adds that an open link has a
session, and that a session with an agent is known: a forgotten session must not keep one, which is
what `AgentsLeft` is for. `AnswersOwn` says that an update answer of a leaving link was read under the session
the link still has; `AgentStays` binds the link back to that session, and without it could bind it to another
one. It holds because `follow_pid` passes leaving links by (`FollowPidMoves`). `LinksInOrder` says that a
new link's number is not in use. With `IInv` of the registry and the types of the device these make `DeviceInv`.
The step that needs the registry is a post: no post makes a session other than its own one that links are
bound to (`StartBinds`, `EndBinds`), so a link that waits elsewhere goes on waiting (`AfterPost`).

The last part of `DeviceProofs` relates the hub to what the device did, under one hypothesis more: `DeviceIsNew`, the hub starts from
a file that knows no session and no pid of the device. A file that does may know a pid that names another
process by now, which is the case `Launch` leaves out (section 6). `LiveIsKnown` speaks of moments at which nothing is under way;
`LiveInv` says what holds in between. A session that a live process runs has either no post under way, and then the hub
has that run of it (`Handled`), or exactly one, the start of that run (`RunsOK`): Claude Code waits for a
hook before the session's next one. Such a start finds its pid unknown to the hub, or known by the session that the process left
by `/clear`, whose end is then the only post of it and still to come (`StartsOK`), so whichever of the two arrives first, the start is recorded
under its pid and the late end ends the old session only. A list of live pids that is still on its way has every process whose
start was handled and whose grace is over (`ListsOK`), hence no reap ends a run the hub has. `RegistryOfDevice` says that no
session is a nested one and that a hand-off waits only for a pid that names no session, so `allocate` takes
no slot from a running session. Each kind of post has a lemma on what it does to other sessions than its own
(`StartDelivered`, `EndDelivered`).

`AgentInv` adds the links. The link an agent has is open and the newest of its process (`HeldOK`), so `follow_pid`, which takes the
newest one that is elsewhere, moves it and no stale one; with that it is at the session the process runs once the
start was handled (`Followed`). A stale environment id is harmless because the session it names is not run by anybody else and ends
for the hub before, or with, the start of its successor (`EnvOK`). This is where `"resume left"` is excluded: run `device_resume` resumes
that very session. `ServedInv` is for `LiveIsServed`: whether `follow_pid` moves a link at all depends on whether it is at the
new session already, and `FirstStart` says that it is for the first start of a process and is not for a later one. A link at its
process's session serves it or waits for it (`Served`), unless the reap took the session away (`used.robbed`).

`TopicViewsProofs` is about every `plan` in `Plans`: any number of sessions, topics, failed calls, crashes
and acts of people, with nothing assumed but what `Plans` says. `TopicsOwned` and `ViewsAlive` are about
topics the hub knows, and neither is inductive. `TopicsInv` adds, for the hub and for the file alike:
`PlacesOK` (the topic of a view is neither unshared nor to be cleaned up, and each topic kept is one of its chat that
the hub was told of), `ArchiveOK` (an archived slot has no topic and makes none), `MakingOK` (the view of a topic being
made waits, has none, and waits for that call alone, so the answer cannot overwrite another topic), `CallsOK`
(a delete names no view's topic, and Telegram says a topic is gone only of one that is) and `NoneGone`
(`ViewsAlive`, which holds of the hub only: a crash forgets what it was told, so the file may name a topic
that went; the restart clears `past.gone`). The file must satisfy the rest at any time, because `Crash` makes it
the hub. Each operator that builds the next hub out of the last has a lemma that it `GoesOn`: the invariant
holds of the result, and `Keeps` every topic that stands, in some place. The actions are compositions of these
operators, so their lemmas compose the same way; `TopicWork` and `DeleteCleaned` act on both chats at once
and are taken one chat after the other.

`HomeIsRight` speaks of a hub that has nothing left to do; `HomeInv` says what holds while it has. A view's topic names the
session and looks as the view has recorded (`applied`), or something is still to come that makes it so: a line the view owes
the topic (`AboutRight`), or the answer to an edit that got through (`LookRight`). For that the calls must not run past one another: a view is busy
as long as a call changes its topic (`BusyOK`) and only one call does (`ChangesOK`), and what was done is
seen (`SeparatorsOK`, `MadeOK`). `FormOK` says that a view names one session at most, that a fallback topic is not announced as
shared, and that a slot without a session has no topic; it must hold of the file too, because a crash makes that
the hub. `PumpedOK` is what the pump leaves: no job, a private view for a running session, some chat to be in, and no
fallback topic that can be left. `Quiet` then means that nothing is owed, and what is recorded is what is wanted. Every operator has
a lemma that it keeps `HomeOK`, every act and answer one that the pump after it gives `PumpedOK`. Three exceptions are part of the property, each at the
line where the code lets go (section 6): a topic that came back with a session in between
(`past.old`), an edit whose answer was lost (`past.lost`), and a restart that forgot what the file did not have (`past.lossy`).

`HookSpoolProofs` assumes `SpoolAssumption` only, so it speaks of any finite set of sessions, where run
`hook_spool` has one. `SpoolInv` has three parts. `Types` says what a poster may be doing, and that the spool
is finite. `Bounds` counts the files hooks are about to write (`Writing`): `save` makes room first and
writes later, so each of the bounds holds because a hook between the two has its place. All hooks but
one may have passed the check of all files together, which is where `Cardinality(Session) - 1` comes from.
`Order` says how far each copy of an event has got. An event made is handled, given up, kept, or with its hook (`KeptOK`),
and a hook's own one is not kept before the hook is done (`MadeOK`). What a poster will not send any more is settled or
newer than what it sends (`SendsOK`), so a copy that comes late comes after all older ones were settled
(`LateOK`), and what is not settled is newer than all that was handled (`HandledOK`). `HandledInOrder` follows for the
event that is handled next. A hook and an agent that replay the same files beside each other are the hard case:
each keeps `SendsOK` although the other deletes files.

`TurnEventsOnce` adds `Once`: what was taken and may still be sent is remembered. A kept turn event is
remembered since its file was written or later, because its hook tried it at that moment; a copy under way,
and what a poster has read, for no longer than `TURN_MAX_AGE`; a hook's own event since now. `TURN_MAX_AGE < DEDUP_TTL` then says
that the hub remembers it when the copy comes. `Dedup` also forgets ids when it has more than `DEDUP_MAX`
(4096), whatever their age, and the property can fail when more than that come while a copy is kept: hence the
hypothesis `RoomForIds`, that `DedupMax` holds the ids of all events. Run `hook_spool` satisfies it.

`PermissionPromptsProofs` assumes `PromptsAssumption`: any number of dialogs, prompts, links and processes, any
limit of the book, ids of hooks that may equal those of channels, agents that acknowledge or not, and any number of
faults. `AnswerIsPressed` relates the two ends of a path, what Telegram shows and what Claude Code was answered;
`PromptsInv` says what each place in between knows. A prompt says the same as the message that shows it, and its
answer is the press that counted for that message (`PromptOK`). A prompt that a link brought is of a dialog of the
link's process (`AskOK`). A verdict on a link carries the id of the dialog of its message, of the link's process, and
what was pressed there (`VerdictOK`): it may have been queued on a later link than the request came by, and
`VerdictLink` shows that `VerdictConn` only chooses one of the same process. The agent looks the dialog up by the id alone,
and that finds the right one because ids of a process do not repeat (`DialogsOK`) and an open link is of the
process that lives (`AgentOK`). A hook gets the answer of a prompt of its own dialog (`WaitersOK`). A press on a message
whose send is still out is looked up by its id: `PressedOwn` shows that the prompt found is the message's own, given
`Stray`. The pump runs at the end of most steps, so its part is proved once (`PumpStep`), from what a
handler leaves to it. `FixedAnswerKept` needs that a fixed answer is of a message that shows and that no hook waits for
(`FixedPrompt`); then neither the pump, nor a full book, nor a send that failed takes it back. Its
hypothesis `~LostAnswers` is the one run `prompt_lost` shows to be needed.

`ButtonsOwned` is part of `PromptOK`: a prompt whose message shows buttons `OwnsButtons`, and a handler that ends a
prompt leaves its edit due. `HooksOK` is `HookHeld` for what every handler leaves; the prompt a hook waits for changes
only to one that still asks the same (`Becomes`), or lets go of the hook in that step. `ShownWasTaken` looks at another part of the
system, what the agent passed on, and has an invariant of its own (`TakenInv`) proved on top of `PromptsInv`: an
acknowledgement on its way (`UpOK`) is of a verdict that was passed on, or comes from a process that is gone; so a prompt
that an acknowledgement settles was passed on. The processes only grow, hence a process that is gone stays so.

`MessageDeliveryProofs` assumes `DeliveryAssumption`: any plans, any number of messages, links and sessions, any limits.
`Flushed` tries the front until nothing moves. `Tries` is a recursive function, and what it computes is not proved; but
whatever every try keeps, the tries keep (`TriesKeep`, by the least number of tries after which it would
not hold). So all that a flush may touch is one record `x`, with one predicate on it, `Fine`: the types, a
buffer in order and within its limit (`BufferOK`), a download under way is of the front (`FrontOK`), what went to the link is
older than what is kept (`Frontier`, `RunningOK`), and of the Resume messages (`ResumeOK`)
an answer that is still out is of a post already made, never of the one the note keeps nor of one to be edited, and
no button that shows is forgotten. Each step of a flush keeps `Fine` and `Follows` what it was: messages go only from the kept
ones to the handed or told ones, and only to this link. `Frontier` holds while the session lives: a link whose
session ended may have taken a file that the buffer still has, and a new session starts on a link that got nothing.
`IInv` adds what is outside of a flush: what was polled and what waits in the channel (`PolledInv`, `CameInv`), the file,
which may still have messages that went but never ones that come after the offset (`DiskInv`), sessions and their link
(`SessionInv`), and how often each message was taken (`TakenInv`). Every action is a part of its own and then a flush,
so its lemma is about the part. `MessagesAreKept` follows from `Follows`: a step of the actor is a `Work` step for each message
(`WorkKeeps`); the hub's saving and its crash are `Save` and `Crash` (`SaveKeeps`, `CrashKeeps`). `NothingStuck`
speaks of what the next pump would move. After every flush a front that must be compressed or fetched has been asked
for (`MovedInv`). `Rank` counts the tries that may still move the front of a buffer (`TriesMove`): those a flush makes are
enough, and so the front that is left waits for something outside, or the next pump changes the buffer (`PumpedMoves`).

`OutboxProofs` assumes `OutboxAssumption`: any workloads, any number of jobs and faults, any capacities and limits.
`TopicOrder` and `NewestTextStays` speak of the log; what makes them hold is the order in which jobs stand in the lanes, in the
request that is out and in the channel. `Ahead(a, b)` is what an older job owes a newer one that writes to the same place
(`Rivals`): all its text is older than the job `b` goes back to, or it is a prompt that overtakes lines, or they are two parts of one
text. Everything shown is `Ahead` of everything that waits, everything that waits in the message lane is in line
(`InLine`), and the request that is out is `Ahead` of all lanes (`Held`), for it may come back to the front
of its own. Coalescing is what makes this delicate: an edit keeps its place and gets a newer text. So no two queued
writes of the lanes overwrite one another (`Clear`): a newer one takes the older one's place, or purges it (`Outdated`). A merge line that takes
others in carries the texts of several jobs; when it comes back, what stands behind it must not be taken in a second
time before it (`NotTaken`). Jobs in the channel are those handed over last, in their order, and all newer (`InboxOf`). `Taken` is shown to be a
run of one queue without gaps, whose texts join in order (`TakenIs`, `JoinedIs`); `PickIs` shows that whatever rule picks, what goes
has no rival of its queue before it, but for a prompt before lines, and that its tokens are there. `TakenIn`, the
channel being emptied, is a recursive function, and is treated like `Tries` above. For `NewMessageServed`,
`PaceInv` says that `passed` is never above `unmetered`: a new message that may go resets both or is forced.

`WaitersHeld` has an invariant of its own, `SendersInv`, proved on top of `IInv`. `Senders(s, X)` says that the senders
that wait are those of the jobs in the lanes of `s`, each in one job, and those in `X`, whose jobs are in hand:
the request that is out (`OutSenders`) and the channel (`Later`). Each operation on the lanes has a lemma that
says what it does to `X`: a job taken out adds its senders (`TakenOut`), one that is put back or queued takes them away
(`LinedUp`), an answer takes away those it names (`Released`), and purging, coalescing and breaking a stream leave
`X` as it is. Only a line has senders merged into it, and a line has no LiveText (`Own`): that is why a
coalesced edit and a cancelled status message, whose code answers one sender, forget nobody. Of a text laid out in parts the last one
alone has the senders (`PartsBack`), and a merge line has those of what it took in (`JoinedWaits`).

`LinesWaitForRestart` does not hold for every workload (`stream_break`, section 6); the workloads of run `outbox` leave out
what breaks it.

`TranscriptStreamProofs` assumes `StreamAssumption`: any transcripts, any limits, and any number of things that go wrong.
`AnswersKept` compares the topic with what the Stop hook brought; `StreamInv` follows an answer through every place between
the two. `Around` is what surrounds the stream (the reads under way, the offset, what is left to go wrong), `Good` what holds
of the stream, the scheduler and the topic together. Its parts need each other. `Numbered` and `Queued`: every message that
waits is in the scheduler's queue or answered, never both, and once; this is also the equation in `TypeOK`, and it is what makes the
answer of Telegram find its message although answers come in any order, and what leaves queue and answers empty when the
stream is stuck, so that a rewind forgets nothing that is still to come. `Placed`: a turn message never shares a message of the topic with an answer, so
neither a growing edit, nor a merge, nor a refused status message (`retire`) can take an answer away. `Kept` is the count itself: an answer that came
is in the topic, given up, held, or on its way, in one of these only. `Above` is what `NothingAboveAnswer` needs while an id is still to come: a turn
message whose `key` is unknown has no answer queued behind it, for `close_open` closes the copies in the barriers too. `Bounded`
keeps barriers within what was read. Each operator of the stream (`Push`, `Opened`, `Barrier`, `Advanced`,
`Rewound`, `Resent`, ...) has a lemma that says what it changes (`Pushes`, `OpenedSet`, `BarrierSet`, `AdvancedSet`, ...) and one that it keeps `Good`. The folds over
answers, lines and resent writes (`AnswersGo`, `LinesRead`, `HandedOff`) are recursive functions, treated like `Tries` above: what each step keeps, all keep.

`NothingSkipped` has an invariant of its own, `WholeInv`, proved in `NothingSkippedProofs` on top of `StreamInv`: either an older
write once went again over a newer one (`fate.stale`), or the stream is `Whole`. What `NothingSkipped` says of the offset, `Whole` says of
every place the offset may still come to: each barrier that waits, and where the stream reads (`Places`). A line before such a place is `Covered`:
refused or deleted for good, in a message before the place that Telegram did not take yet, or `FirmIn` a message of
the topic. In the topic is not enough, for each write into a message replaces its text: whatever is still queued for that message, and each open message at
this place or a later one that may grow in it, must have the line too. This is what makes the copies of the open message in the
barriers necessary, and why a deleted or refused message has to be closed in all of them. The texts written into one message only grow (`TextsGrow`, `OpenGrows`);
a key Telegram just gave is nobody else's (`Fresh`); and a call is open where the last line read is one (`CallsRight`), else a rewind
between a call and its result would never show it. A place behind a write that was lost while a newer one into its message was taken (`Torn`) promises nothing, and need not: the
lost write holds the offset back, and the rewind reads again from before it. `drain_stream` of a session that left cannot rewind, so it resends the older
text over the newer; that is `fate.stale`, and the one step at which the invariant is given up. With no session in the slot nothing
is written any more but what waits, so `Whole` drops what it says of open messages (its last argument). Each step of the stream has
a lemma (`ChunkWhole`, `StopWhole`, `OnStreamSentWhole`, `SendWhole`, `DrainWhole`, ...); those of `Send` rest on what goes as one request
being all that is queued for its message (`JoinedIs`), and the edit's text on the last of them (`LastPicked`).

TLAPS does not reach liveness under fairness (`KeptIsHandled`, `EveryJobAnswered`,
`EventuallyShown`) or
`ENABLED`; these are model-checked only. So are `LinesWaitForRestart` of `Outbox`, and of `TranscriptStream` the first half
of `AnswerInPlace` (`NoAnswerAhead`).

## 6. Where a comment and the code differ

| Run | The comment | What the code does |
|---|---|---|
| `device_resume` | `slots.rs:3062`, the session of a registering agent | a session left by `/clear` and resumed in another process is taken over by the first process's agent when it reconnects |
| `device_compact` | `slots.rs:3104` "a stale duplicate must not win the new session" | `follow_pid` looks for the newest among the links that are elsewhere: when the newest of all is at the session already, its next start (a compaction) moves a dead one there and binds the session to it |
| `stream_break` | `scheduler.rs:58` "a later line never shows before the one the stream sends again" | a line marked restart that was queued before the refused one (a write into the status message, in a queue of its own) ends the break, and later lines show first |
| `prompt_lost` | `slots.rs:26` "again after a link drop until that agent acknowledges it" | a prompt whose send fails at the hub, although Telegram shows it, is removed even when a press fixed its answer and nobody acknowledged it |

`device_compact` and `stream_break` are defects rather than wrong comments: `follow_pid` should take
the newest link of the process and move it only if it is elsewhere, and `break_stream` should look
for a restart behind the refused line only. All of them need
several actors and an order that is rare but possible; the traces are what TLC
prints for the runs.

Further differences met while modelling, which have no run of their own; the models
leave the situation out, at the place named:

- `registry.rs:1604` "that process is gone": a start kept in the spool and delivered after its
  process moved on by `/clear`, or after its pid was reused, ends the session the process runs now
  (`Device!Launch` and `Clear` exclude it).
- `slots.rs:9927` "is bound back": a `/clear` between an agent's "I leave" and "I stay" binds it to the
  session that is over, and the running one has no channel (`LiveIsServed` excludes update answers).
- `slots.rs:3091` "Moves the agents of a claude process to the session that process now runs": an agent that
  registers for a resumed session before the start of that run arrives is bound at once, since the hub knows the
  session. When another session's post then reaps the older, killed run, the session loses its agent, or prune
  forgets it; the start that follows finds no link waiting, and `follow_pid` passes by a link that is at the
  session already. The session runs without a channel until its agent reconnects. It takes three processes, so
  run `device` does not reach it; `LiveIsServed` excludes such links (`used.robbed`).
- `stream.rs:1231`, `resend`: a session that left its slot sends every refused write again, also one behind
  which a newer write into the same message was accepted. That happens without a break of the stream when a 4xx
  refuses an edit and those merged into it go unanswered, and when a break is ended by a restart queued before it.
  The older text then stands in the message although the offset passed the newer line (`fate.stale`).
- `spool.rs:9` "the hub drops a copy it already has": a hub that restarted in between takes the copy
  again (`TurnHandledOnce` speaks of one run).
- `registry.rs:2459` "make Telegram match the registry": an edit that got through with its answer lost is not
  undone when the state goes back, since what is wanted equals what is recorded as applied (`HomeIsRight` asks
  for the look only where no answer of an edit was lost).
- `registry.rs:2417` "or its slot was taken by a session since": `revive_topic` asks only whether the slot is
  archived now. A topic whose delete waits or fails comes back also when a session took the slot, ended, and
  the slot was archived again; when that session then goes on, the topic gets its title but no separator,
  and still names the session before (`HomeIsRight` excludes such topics, `past.old`; the plan of run
  `topics` with two sessions and three acts reaches them).
- `slots.rs:5412` "An emptied buffer ends the slot's offline period": not when its last message left while no
  agent was bound (a file that failed after its link went): `flush` returns before it closes the period, and
  `flush_all` passes empty buffers by. The Resume button then stays until a later message is handed over
  (the period is still open for `ButtonsGo`).
- `slots.rs:6331` "gets one Resume message per offline period": a crash may bring back a saved period
  whose message lost its button since, and that period then offers none.

**Resume buttons that stay.** The hub makes one try to take a button (`slots.rs:6391`), and knows a message by the
id in Telegram's answer only (`buffer.rs:337` "such a button is never edited away"). So the model has messages
that show although no id came (`OnResumeDone` with "shown"), edits that fail (they stay in `buttons.edits` until a
crash), and crashes that leave the button of any message whose id is not on disk, those being sent
included. `ButtonsGo` does not say that such buttons go, it says that there are no others: `buttons.lost` has those
without a usable id. A message counts as shown from its answer on, or from the crash that leaves it without one; before, it is in
`flight`.

## 7. What is not modelled

The map covers a small part of the lines of the repository, and will: more than half of `hub/slots.rs`
(41 thousand lines) and of the other large files are tests, and much of the rest is what messages look like
(menus, blocks, titles, status texts, notices), parsing, file and process I/O. What is modelled
is the control of the parts in which several actors, failures and restarts meet.

- Of the registry: blocks, people, groups, metrics and the archive of a slot. `Restart` takes over
  the last state in memory, which an orderly stop writes; the crash is in `TopicViews` and `MessageDelivery`.
- Of the links: the rounds and waits of the update protocol beyond what binds and unbinds.
- Of hook delivery: the held connections, of which `PermissionPrompts` has those of permissions, without
  the delay of the HTTP answer.
- Of the scheduler: callback answers, which have a scheduler of their own; the
  memory of refused rich writes and the slower rate after a 429, which only change
  times; the bound of the channel (1024 jobs).
- Of devices: each post is sent once by `Device`; that posts are taken twice
  after a restart is `HookSpool`'s subject, and `SessionSlots` allows any repetition.
- Of the stream: a transcript that is missing, cut or replaced (`reset`), a topic that
  is gone, answers that are blank or go as a document, receipts, menus, mirror
  topics, a resume while the stream drains, more than one open tool call, a failed
  request that did show, and a hub without status messages (`status_every` unset). Its
  restart is the orderly one, which saves the offset.
- Of message delivery: several slots (they share the download task only), an offset that cannot be saved or is too
  old (`MAX_AGE`), messages held for mentions, echoes in other views, receipts, the press of Resume,
  a full download queue, a hub without a fetcher, notices about files that have words.
- Of prompts: private copies and mirrors, a move to another topic, messages held back while a stream drains, the icon of a
  waiting session, the status press, two dialogs of the same tool that are taken for twins,
  and questions (`hub/questions.rs`), which follow the same pattern with more than one answer.
- Of topics: the choice of a group and messages held for it, several groups, owners and devices, the option to
  share new slots, drains that hold a separator, the pauses between deletes, and calls for the
  icon and the notice of a topic that ended.
- The remaining components are file, process and terminal I/O, text
  conversion, or records that one handler changes at a time; `PROJECT.json` lists them.
