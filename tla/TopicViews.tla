----------------------------- MODULE TopicViews -----------------------------
(***************************************************************************)
(* The forum topics of one slot (hub/registry.rs, hub/slots.rs): it shows  *)
(* in its owner's private chat, in the group while that chat takes nothing *)
(* (a fallback) or when the owner shares it there.  The hub compares the   *)
(* registry with what it knows of Telegram after every event and hands out *)
(* topic calls; each may fail, or get through with its answer lost, and    *)
(* users delete topics and block the bot meanwhile.  The registry reaches  *)
(* the disk some time after it changed.                                    *)
(***************************************************************************)
EXTENDS Naturals, Sequences, FiniteSets, SequencesExt, FiniteSetsExt

CONSTANT
  Plans        (* what a run may do: whether the bot may delete group       *)
               (* topics; bounds of the slot's sessions, of the topics ever *)
               (* made, of failed calls and lost answers, of crashes and of *)
               (* what people do; and what that is                          *)

ASSUME TopicViewsAssumption ==
  Plans \subseteq [rights : BOOLEAN, runs : Nat, topics : Nat, faults : Nat,
                   crashes : Nat, acts : Nat,
                   people : SUBSET {"write", "delete", "block", "share", "clean"}]

VARIABLES
  hub,      (* the slot's part of the registry, the actor's own state, the  *)
            (* calls it handed out and the topics it ended                  *)
  tg,       (* the topics in Telegram, and whether the user blocked the bot *)
  file,     (* registry.json                                                *)
  past,     (* what the hub was told so far                                 *)
  plan,     (* of this run                                                  *)
  used      (* faults, crashes and acts so far                              *)

topicVars == <<hub, tg, file, past, plan, used>>

Chat == {"private", "group"}

(* Title and icon: the slot's session and whether it runs.                 *)
Wanted(h) == <<h.session, h.live>>

(* A separator is the session it names, and 0 for the share line.          *)
ShareLine == 0

(* View: a topic 0 is none yet; `failed` holds what a call failed with.    *)
NoView == [here |-> FALSE, topic |-> 0, applied |-> <<0, FALSE>>, pending |-> <<>>,
           fallback |-> FALSE, opening |-> FALSE, busy |-> FALSE, failed |-> {}]

NewView == [NoView EXCEPT !.here = TRUE]

Usable(h, c) == c = "group" \/ ~h.closed

Ready(h, c) == h.views[c].topic # 0 /\ Usable(h, c)

(* primary_view is the private one.                                        *)
AtHome(h) == Ready(h, "private")

Shown(h) == {c \in Chat : h.views[c].here}

(* slot_by_topic                                                           *)
ChatsOf(h, t) == {c \in Chat : h.views[c].here /\ h.views[c].topic = t}

Topics(h) == {h.views[c].topic : c \in Shown(h)} \ {0}

CallOf(kind, c, t, text, look) ==
  [kind |-> kind, chat |-> c, topic |-> t, text |-> text, look |-> look, got |-> "none"]

Handed(h, call) == [h EXCEPT !.calls = @ \cup {call}]

Without(h, call) == [h EXCEPT !.calls = @ \ {call}]

EachView(h, f(_)) ==
  [h EXCEPT !.views = [c \in Chat |-> IF h.views[c].here THEN f(h.views[c]) ELSE h.views[c]]]

(***************************************************************************)
(* pump: ensure_private_views                                              *)
(***************************************************************************)
(* add_private_views: only of a session known to run.                      *)
WithPrivate(h) ==
  IF h.live /\ h.running /\ ~h.closed /\ ~h.views["private"].here
  THEN [h EXCEPT !.views["private"] = NewView] ELSE h

(* A live slot with no usable view shows in the group.                     *)
WithGroup(h) ==
  IF h.live /\ ~\E c \in Shown(h) : Usable(h, c)
  THEN [h EXCEPT !.views["group"] = [NewView EXCEPT !.fallback = TRUE]] ELSE h

(* drop_fallback_views: the private chat takes the session again; a topic  *)
(* that is being made goes once it is known.                               *)
Leaves(h) ==
  LET v == h.views["group"]
  IN AtHome(h) /\ h.proven /\ v.here /\ v.fallback /\ ~(v.topic = 0 /\ v.busy)

(* leave_group: the topic is told that it ends and stays.                  *)
WithoutFallback(h) ==
  IF Leaves(h) THEN [h EXCEPT !.views["group"] = NoView,
                              !.ended = @ \cup ({h.views["group"].topic} \ {0})]
               ELSE h

Ensured(h) == WithoutFallback(WithGroup(WithPrivate(h)))

(***************************************************************************)
(* pump: delete_unshared, delete_cleaned, topic_work                       *)
(***************************************************************************)
(* Deletes of unshared topics; without the right they are told instead.    *)
DeleteUnshared(h) ==
  LET due == h.unshared \ (h.deleting \cup h.later)
  IN IF plan.rights
     THEN [h EXCEPT !.deleting = @ \cup due,
                    !.calls = @ \cup {CallOf("delete", "group", t, <<>>, <<>>) : t \in due}]
     ELSE [h EXCEPT !.unshared = @ \ due, !.ended = @ \cup due]

Deletable(h, c) == Usable(h, c) /\ (c = "group" => plan.rights)

Queued(h, c) == {e \in h.cleanup : e.chat = c}

(* One delete per chat at a time; one in a closed private chat waits.      *)
CleanedIn(h, c) ==
  IF Queued(h, c) = {} \/ h.flying[c] # 0 \/ ~Usable(h, c) THEN h
  ELSE IF ~Deletable(h, c)
  THEN [h EXCEPT !.cleanup = @ \ Queued(h, c),
                 !.ended = @ \cup {e.view.topic : e \in Queued(h, c)}]
  ELSE LET t == Min({e.view.topic : e \in Queued(h, c)})
       IN Handed([h EXCEPT !.flying[c] = t], CallOf("clean", c, t, <<>>, <<>>))

DeleteCleaned(h) == CleanedIn(CleanedIn(h, "private"), "group")

(* The next call of a view: its topic, its separator, its title and icon.  *)
JobsOf(h, c) ==
  LET v == h.views[c] IN
  IF h.archived \/ ~v.here \/ ~Usable(h, c) \/ v.busy \/ Wanted(h) \in v.failed THEN {}
  ELSE IF v.topic = 0 THEN {CallOf("create", c, 0, <<>>, Wanted(h))}
  ELSE IF v.pending # <<>> THEN {CallOf("separator", c, v.topic, v.pending, <<>>)}
  ELSE IF h.edits /\ v.applied # Wanted(h) THEN {CallOf("edit", c, v.topic, <<>>, Wanted(h))}
  ELSE {}

TopicWork(h) ==
  LET busied(c) == [h.views[c] EXCEPT !.busy = @ \/ JobsOf(h, c) # {}]
  IN [h EXCEPT !.calls = @ \cup UNION {JobsOf(h, c) : c \in Chat},
               !.views = [c \in Chat |-> busied(c)]]

Pump(h) == TopicWork(DeleteCleaned(DeleteUnshared(Ensured(h))))

Act(h) == hub' = Pump(h)

(***************************************************************************)
(* Sessions                                                                *)
(***************************************************************************)
(* occupy: an older separator is replaced, a share line stays the first.   *)
Occupied(h, n) ==
  LET joined(v) ==
        [v EXCEPT !.pending = IF @ # <<>> /\ Head(@) = ShareLine THEN <<ShareLine, n>> ELSE <<n>>]
  IN IF h.session \in {0, n} THEN [h EXCEPT !.session = n]
                             ELSE [EachView(h, joined) EXCEPT !.session = n]

(* home_new_slot: in the private chat alone, in the group while that is    *)
(* closed.                                                                 *)
Homed(h) ==
  IF h.closed
  THEN [h EXCEPT !.views["group"].fallback = @ \/ h.views["group"].here]
  ELSE IF Shown(h) = {"group"} /\ h.views["group"].topic = 0 /\ ~h.views["group"].busy
  THEN [h EXCEPT !.views = [private |-> NewView, group |-> NoView]]
  ELSE h

(* A SessionStart takes the slot; one just made, or taken back from the    *)
(* archive, is homed.  Topics still queued then are about older sessions.  *)
Start(n) ==
  /\ n \in {hub.session, hub.session + 1} \ {0} /\ n <= plan.runs
  /\ n = hub.session => ~hub.live
  /\ LET h == [Occupied(hub, n) EXCEPT !.live = TRUE, !.running = TRUE, !.archived = FALSE]
     IN Act(IF hub.archived THEN Homed(h) ELSE h)
  /\ past' = [past EXCEPT !.old = IF n = hub.session THEN @ ELSE {e.view.topic : e \in hub.cleanup}]
  /\ UNCHANGED <<plan, tg, file, used>>

End ==
  /\ hub.live /\ Act([hub EXCEPT !.live = FALSE])
  /\ UNCHANGED <<plan, tg, file, past, used>>

(* The agent of the session is bound, or a hook came, after a restart.     *)
Seen ==
  /\ hub.live /\ ~hub.running /\ Act([hub EXCEPT !.running = TRUE])
  /\ UNCHANGED <<plan, tg, file, past, used>>

(***************************************************************************)
(* What people do                                                          *)
(***************************************************************************)
Acts(what) ==
  /\ what \in plan.people /\ used.acts < plan.acts
  /\ used' = [used EXCEPT !.acts = @ + 1]

(* reopen: the user wrote in the private chat.                             *)
Reopened(h) ==
  LET v == h.views["private"]
  IN WithoutFallback([h EXCEPT !.proven = TRUE, !.closed = FALSE,
                               !.views["private"].failed = IF h.closed THEN {} ELSE @])

(* revive_topic: a topic that waits for its cleanup is the slot's again.   *)
Revived(h, t) ==
  LET entries == {e \in Queued(h, "private") : e.view.topic = t}
  IN IF entries = {} \/ ~h.archived \/ ChatsOf(h, t) # {} THEN h
     ELSE [h EXCEPT !.cleanup = @ \ entries, !.archived = FALSE,
                    !.views = [private |-> [(CHOOSE e \in entries : TRUE).view
                                              EXCEPT !.busy = FALSE, !.failed = {}],
                               group |-> NoView]]

InChat(c) == {t \in DOMAIN tg.topics : tg.topics[t].chat = c /\ tg.topics[t].alive}

(* A message in the private chat, in one of its topics or in none.         *)
UserWrites(t) ==
  /\ Acts("write") /\ t \in {0} \cup InChat("private")
  /\ Act(Revived(Reopened(hub), t))
  /\ tg' = [tg EXCEPT !.blocked = FALSE]
  /\ UNCHANGED <<plan, file, past>>

UserDeletes(t) ==
  /\ Acts("delete") /\ t \in InChat("private") \cup InChat("group")
  /\ tg' = [tg EXCEPT !.topics[t].alive = FALSE]
  /\ UNCHANGED <<plan, hub, file, past>>

UserBlocks ==
  /\ Acts("block") /\ ~tg.blocked /\ tg' = [tg EXCEPT !.blocked = TRUE]
  /\ UNCHANGED <<plan, hub, file, past>>

(* A share or unshare command comes from the slot's private topic.         *)
FromHome == /\ hub.views["private"].topic \in InChat("private")
            /\ tg' = [tg EXCEPT !.blocked = FALSE]

(* adopt_fallback, or share: the new topic starts with the share line.     *)
Shared(h) ==
  LET v == h.views["group"] IN
  IF ~v.here THEN [h EXCEPT !.views["group"] = [NewView EXCEPT !.opening = TRUE]]
  ELSE IF ~v.fallback THEN h
  ELSE IF v.topic # 0
  THEN [h EXCEPT !.views["group"].fallback = FALSE,
                 !.views["group"].pending = <<ShareLine>> \o @]
  ELSE [h EXCEPT !.views["group"].fallback = FALSE, !.views["group"].opening = TRUE]

Share ==
  /\ Acts("share") /\ FromHome
  /\ LET adopted == hub.views["group"].here /\ hub.views["group"].fallback
         h == Reopened(IF adopted THEN Shared(hub) ELSE hub)
     IN Act(IF ~adopted /\ AtHome(h) THEN Shared(h) ELSE h)
  /\ UNCHANGED <<plan, file, past>>

(* Mutant of Unshared: the topic is not waited for.                        *)
UnsharedMaking(h) ==
  LET v == h.views["group"] IN
  IF ~AtHome(h) \/ ~v.here \/ v.fallback THEN h
  ELSE [h EXCEPT !.views["group"] = NoView, !.unshared = @ \cup ({v.topic} \ {0})]

(* unshare: not while its topic is being made.                             *)
Unshared(h) ==
  LET v == h.views["group"] IN
  IF ~AtHome(h) \/ ~v.here \/ v.fallback \/ (v.topic = 0 /\ v.busy) THEN h
  ELSE [h EXCEPT !.views["group"] = NoView, !.unshared = @ \cup ({v.topic} \ {0})]

Unshare ==
  /\ Acts("share") /\ FromHome /\ Act(Unshared(Reopened(hub)))
  /\ UNCHANGED <<plan, file, past>>

(* archive_slot: topics the bot may delete wait for it with their views,   *)
(* others stay as they are.                                                *)
Archived(h) ==
  LET gone == {c \in Shown(h) : h.views[c].topic # 0 /\ Deletable(h, c)}
  IN [h EXCEPT !.archived = TRUE,
               !.cleanup = @ \cup {[chat |-> c, view |-> h.views[c]] : c \in gone},
               !.ended = @ \cup (Topics(h) \ {h.views[c].topic : c \in gone}),
               !.views = [private |-> NoView, group |-> NewView]]

(* cleanup_plan: of a slot long dead, if there is a topic to delete.       *)
Cleanup ==
  /\ Acts("clean") /\ ~hub.archived /\ ~hub.live
  /\ \E c \in Shown(hub) : hub.views[c].topic # 0 /\ Deletable(hub, c)
  /\ \A c \in Shown(hub) : ~hub.views[c].busy
  /\ Act(Archived(hub))
  /\ UNCHANGED <<plan, tg, file, past>>

(***************************************************************************)
(* Calls                                                                   *)
(***************************************************************************)
Fault == used.faults < plan.faults /\ used' = [used EXCEPT !.faults = @ + 1]

(* A status or a reply goes into the primary topic; only what comes back   *)
(* from a private chat changes something here.                             *)
Post ==
  LET call == CallOf("post", "private", hub.views["private"].topic, <<>>, <<>>) IN
  /\ AtHome(hub) /\ \A k \in hub.calls : k.kind # "post"
  /\ hub.views["private"].topic \notin InChat("private") \/ ~hub.proven \/ tg.blocked
  /\ hub' = Handed(hub, call)
  /\ UNCHANGED <<plan, tg, file, past, used>>

(* Telegram does what the call asks for.                                   *)
Done(call) ==
  CASE call.kind = "create" ->
         [tg EXCEPT !.topics = Append(@, [chat |-> call.chat, alive |-> TRUE,
                                          look |-> call.look, shows |-> 0])]
    [] call.kind = "edit" -> [tg EXCEPT !.topics[call.topic].look = call.look]
    [] call.kind = "separator" ->
         [tg EXCEPT !.topics[call.topic].shows = IF Last(call.text) = ShareLine THEN @
                                                 ELSE Last(call.text)]
    [] call.kind \in {"delete", "clean"} -> [tg EXCEPT !.topics[call.topic].alive = FALSE]
    [] OTHER -> tg

Answer(call, got) ==
  hub' = [hub EXCEPT !.calls = (@ \ {call}) \cup {[call EXCEPT !.got = got]}]

(* It refuses, takes, fails, or takes and the answer is lost.              *)
Takes(call) ==
  LET blocked == tg.blocked /\ call.chat = "private"
      made    == call.kind = "create"
      gone    == ~made /\ call.topic \notin InChat(call.chat)
      topic   == IF made THEN Len(tg.topics) + 1 ELSE call.topic
  IN /\ call.got = "none" /\ (made => Len(tg.topics) < plan.topics)
     /\ \/ blocked /\ Answer(call, "forbidden") /\ UNCHANGED <<tg, used>>
        \/ ~blocked /\ gone /\ Answer(call, "gone") /\ UNCHANGED <<tg, used>>
        \/ /\ ~blocked /\ ~gone /\ tg' = Done(call)
           /\ hub' = [hub EXCEPT !.calls = (@ \ {call})
                                   \cup {[call EXCEPT !.topic = topic, !.got = "ok"]}]
           /\ UNCHANGED used
        \/ ~blocked /\ ~gone /\ Fault /\ Answer(call, "lost") /\ tg' = Done(call)
        \/ ~gone /\ Fault /\ Answer(call, "failed") /\ UNCHANGED tg
        \/ call.kind \in {"delete", "clean"} /\ Fault /\ Answer(call, "refused") /\ UNCHANGED tg
     /\ UNCHANGED <<plan, file, past>>

(* Mutant of Unsent: what was joined meanwhile goes with it.               *)
UnsentNothing(pending, sent) == <<>>

(* unsent: without the lines both begin with, else without `sent` at the   *)
(* end.                                                                    *)
Unsent(pending, sent) ==
  LET same == Max({k \in 0 .. Min({Len(pending), Len(sent)}) :
                     SubSeq(pending, 1, k) = SubSeq(sent, 1, k)})
  IN IF same > 0 THEN SubSeq(pending, same + 1, Len(pending))
     ELSE IF IsSuffix(sent, pending) THEN SubSeq(pending, 1, Len(pending) - Len(sent))
     ELSE pending

Free(v) == [v EXCEPT !.busy = FALSE, !.failed = {}]

Proven(h, c) == [h EXCEPT !.proven = @ \/ c = "private"]

(* close_chat, of a private chat.                                          *)
Closed(h, call) ==
  IF call.chat = "private" /\ call.got = "forbidden"
  THEN [h EXCEPT !.closed = TRUE, !.proven = FALSE] ELSE h

(* The view of the call's chat, if it still has the call's topic, by `f`.  *)
OfTopic(h, call, f(_)) ==
  IF h.views[call.chat].here /\ h.views[call.chat].topic = call.topic
  THEN [h EXCEPT !.views[call.chat] = f(@)] ELSE h

(* topic_failed                                                            *)
Failed(h, call) ==
  LET fail(v) == [v EXCEPT !.busy = FALSE, !.failed = {Wanted(h)}] IN OfTopic(h, call, fail)

(* topic_invalid: the view forgets a topic that is gone.                   *)
Invalid(h, call) ==
  LET forget(v) == [NewView EXCEPT !.fallback = v.fallback, !.opening = v.opening]
  IN OfTopic(h, call, forget)

(* topic_created; a share's topic gets its line at once (separator_job).   *)
Created(h, call) ==
  LET c == call.chat
      v == h.views[c]
      line == IF v.opening THEN <<ShareLine>> ELSE <<>>
      made == [Free(v) EXCEPT !.topic = call.topic, !.applied = call.look, !.pending = line,
                              !.opening = FALSE, !.busy = v.opening]
      next == Proven(IF v.here THEN [h EXCEPT !.views[c] = made] ELSE h, c)
  IN IF v.here /\ v.opening THEN Handed(next, CallOf("separator", c, call.topic, line, <<>>))
     ELSE next

OnTopicDone(h, call) ==
  LET edited(v)    == [Free(v) EXCEPT !.applied = call.look]
      separated(v) == [Free(v) EXCEPT !.pending = Unsent(@, call.text)]
  IN CASE call.got = "ok" /\ call.kind = "create" -> Created(h, call)
       [] call.got = "ok" /\ call.kind = "edit" -> OfTopic(h, call, edited)
       [] call.got = "ok" /\ call.kind = "separator" -> OfTopic(h, call, separated)
       [] call.got = "gone" -> Invalid(h, call)
       [] OTHER -> Failed(Closed(h, call), call)

(* Done::Landed                                                            *)
OnLanded(h, call) ==
  CASE call.got = "ok" -> Proven(h, "private")
    [] call.got = "gone" -> Invalid(h, call)
    [] OTHER -> Closed(h, call)

(* on_topic_deleted: asked again later, or told instead.                   *)
OnDeleted(h, call) ==
  LET t == call.topic
      left == [h EXCEPT !.deleting = @ \ {t}, !.unshared = @ \ {t}]
  IN IF t \notin h.unshared THEN [h EXCEPT !.deleting = @ \ {t}]
     ELSE CASE call.got \in {"ok", "gone"} -> left
            [] call.got \in {"failed", "lost"} ->
                 [h EXCEPT !.deleting = @ \ {t}, !.later = @ \cup {t}]
            [] OTHER -> [left EXCEPT !.ended = @ \cup {t}]

Landed(h, call) == [h EXCEPT !.flying[call.chat] = 0]

Entries(h, t) == {e \in h.cleanup : e.view.topic = t}

(* Mutant of OnCleaned: the slot keeps the topic that was brought back.    *)
OnCleanedOnly(h, call) ==
  IF call.got \in {"failed", "lost"} THEN Landed(h, call)
  ELSE [Landed(h, call) EXCEPT !.cleanup = @ \ Entries(h, call.topic)]

(* on_topic_cleaned: one that a message brought back meanwhile is gone all *)
(* the same.                                                               *)
OnCleaned(h, call) ==
  LET t == call.topic
      done == call.got \in {"ok", "gone"}
  IN IF Entries(h, t) = {}
     THEN IF done THEN Invalid(Landed(h, call), call) ELSE Landed(h, call)
     ELSE IF call.got \in {"failed", "lost"} THEN Landed(h, call)
     ELSE [Landed(h, call) EXCEPT !.cleanup = @ \ Entries(h, t),
                                  !.ended = IF done THEN @ ELSE @ \cup {t}]

Handled(h, call) ==
  CASE call.kind \in {"create", "edit", "separator"} -> OnTopicDone(h, call)
    [] call.kind = "post" -> OnLanded(h, call)
    [] call.kind = "delete" -> OnDeleted(h, call)
    [] OTHER -> OnCleaned(h, call)

Told(call) ==
  [past EXCEPT
     !.known = IF call.kind = "create" /\ call.got = "ok" THEN @ \cup {call.topic} ELSE @,
     !.since = IF call.kind = "create" /\ call.got = "ok" THEN [@ EXCEPT ![call.topic] = hub.session]
               ELSE @,
     !.gone  = IF call.got = "gone" \/ (call.kind \in {"delete", "clean"} /\ call.got = "ok")
               THEN @ \cup {call.topic} ELSE @,
     !.lost  = @ \/ (call.kind = "edit" /\ call.got = "lost")]

Answered(call) ==
  /\ call.got # "none"
  /\ Act(Handled(Without(hub, call), call))
  /\ past' = Told(call)
  /\ UNCHANGED <<plan, tg, file, used>>

(* on_tick                                                                 *)
Retry ==
  LET again(v) == [v EXCEPT !.failed = {}]
  IN /\ hub.later # {} \/ \E c \in Chat : hub.views[c].failed # {}
     /\ Act([EachView(hub, again) EXCEPT !.later = {}])
     /\ UNCHANGED <<plan, tg, file, past, used>>

GraceOver ==
  /\ ~hub.edits /\ Act([hub EXCEPT !.edits = TRUE])
  /\ UNCHANGED <<plan, tg, file, past, used>>

(***************************************************************************)
(* The file                                                                *)
(***************************************************************************)
(* What the registry keeps, with after_restart.                            *)
Restored(h) ==
  [EachView(h, Free) EXCEPT !.running = FALSE, !.closed = FALSE, !.proven = FALSE,
                            !.edits = FALSE, !.deleting = {}, !.later = {},
                            !.flying = [c \in Chat |-> 0], !.calls = {}, !.ended = {}]

(* save_loop writes the newest snapshot; the file counts only where a      *)
(* crash may still come.                                                   *)
Save ==
  /\ used.crashes < plan.crashes /\ file # Restored(hub) /\ file' = Restored(hub)
  /\ UNCHANGED <<plan, hub, tg, past, used>>

Held(h) == Topics(h) \cup h.unshared \cup {e.view.topic : e \in h.cleanup} \cup h.ended

(* The hub stops at any point; what is in the file goes on.                *)
Crash ==
  /\ used.crashes < plan.crashes /\ used' = [used EXCEPT !.crashes = @ + 1]
  /\ Act([file EXCEPT !.ended = hub.ended])
  /\ past' = [past EXCEPT !.known = @ \cap (Held(file) \cup hub.ended), !.gone = {},
                          !.lost = @ \/ \E k \in hub.calls : k.kind = "edit" /\ k.got \in {"ok", "lost"},
                          !.lossy = @ \/ file # Restored(hub)]
  /\ UNCHANGED <<plan, tg, file>>

-----------------------------------------------------------------------------
(* A slot that was not made yet is like an archived one.                   *)
NoSlot ==
  [views |-> [private |-> NoView, group |-> NewView], session |-> 0, live |-> FALSE,
   archived |-> TRUE, unshared |-> {}, cleanup |-> {}, running |-> FALSE, closed |-> FALSE,
   proven |-> FALSE, edits |-> FALSE, deleting |-> {}, later |-> {},
   flying |-> [c \in Chat |-> 0], calls |-> {}, ended |-> {}]

Init ==
  /\ plan \in Plans /\ hub = NoSlot /\ file = NoSlot
  /\ tg = [topics |-> <<>>, blocked |-> FALSE]
  /\ past = [known |-> {}, since |-> [t \in 1 .. plan.topics |-> 0], gone |-> {},
             lost |-> FALSE, lossy |-> FALSE, old |-> {}]
  /\ used = [faults |-> 0, crashes |-> 0, acts |-> 0]

Next ==
  \/ \E n \in 1 .. plan.runs : Start(n)
  \/ End \/ Seen
  \/ \E t \in 0 .. Len(tg.topics) : UserWrites(t)
  \/ \E t \in DOMAIN tg.topics : UserDeletes(t)
  \/ UserBlocks \/ Share \/ Unshare \/ Cleanup \/ Post
  \/ \E call \in hub.calls : Takes(call) \/ Answered(call)
  \/ Retry \/ GraceOver \/ Save \/ Crash

Spec == Init /\ [][Next]_topicVars

-----------------------------------------------------------------------------
(* No topic is forgotten while it stands in Telegram: each one the hub was *)
(* told of is that of a view, waits to be deleted, or was told that it     *)
(* ends (or the bot may not delete it), whatever was shared, unshared,     *)
(* archived, brought back or answered late.  A topic made by a create      *)
(* whose answer the hub lost, or died before saving, stays an orphan.      *)
TopicsOwned == \A t \in past.known : tg.topics[t].alive => t \in Held(hub)

(* No view shows a topic after the hub was told that it is gone: a topic   *)
(* brought back while its delete was on its way is replaced too.           *)
ViewsAlive == Topics(hub) \cap past.gone = {}

Quiet == /\ hub.calls = {} /\ hub.edits /\ hub.later = {}
         /\ \A c \in Chat : hub.views[c].failed = {}

(* The session a topic is about for its readers.                           *)
About(t) == IF tg.topics[t].shows = 0 THEN past.since[t] ELSE tg.topics[t].shows

(* Once nothing is under way, a running session has a topic where its      *)
(* owner is: in the private chat while that takes it, and then no fallback *)
(* stands beside one the bot or the user wrote in; else in the group.  Its *)
(* topics say whose they are, and how it is, unless a crash took the       *)
(* registry back; not how it is if the answer to an edit was lost, and not *)
(* whose if a message brought back a topic that is older than the session. *)
HomeIsRight ==
  Quiet /\ hub.live /\ hub.running =>
    /\ ~hub.closed => AtHome(hub) /\ ~(hub.proven /\ hub.views["group"].fallback)
    /\ hub.closed => hub.views["group"].topic # 0
    /\ \A c \in Chat : \A t \in {hub.views[c].topic} \cap InChat(c) :
         Usable(hub, c) /\ ~past.lossy =>
           /\ t \in past.old \/ About(t) = hub.session
           /\ past.lost \/ tg.topics[t].look = Wanted(hub)
=============================================================================
