------------------------- MODULE PermissionPrompts -------------------------
(* Permission prompts (hub/permissions.rs and the prompts of hub/slots.rs, *)
(* the verdicts of agent.rs): a dialog of Claude Code that its channel     *)
(* relays, its PermissionRequest hook asks about, or both, becomes a       *)
(* message with buttons; the first press answers it.  The dialog may be    *)
(* answered in the terminal, its session and process may end, its link may *)
(* be lost and the hub may crash at any moment.                            *)
(*                                                                         *)
(* One slot that has its topic.  An event of the actor and the pump after  *)
(* it are one step.                                                        *)
(***************************************************************************)
EXTENDS Integers, FiniteSets, FiniteSetsExt, Sequences

CONSTANTS
  None,         (* no dialog, no id                                         *)
  Dialog,       (* dialogs Claude Code opens                                *)
  Plans,        (* ways: how each is asked, subsets of {"channel", "hook"}; *)
                (* max: MAX_PROMPTS; acks: whether its agents acknowledge;  *)
                (* ids: of the prompts of hooks; sessions: bound of the     *)
                (* sessions; faults: of lost links, ended sessions, failed  *)
                (* calls, full queues and crashes                           *)
  Tool,         (* the tool of each                                         *)
  Id,           (* request ids of Claude Code                               *)
  HookId,       (* hook_request_id, perhaps one of them                     *)
  Behavior,     (* what a press may answer                                  *)
  Keys,         (* bound of the prompts                                     *)
  MaxEdits,     (* MAX_EDIT_ATTEMPTS                                        *)
  MaxConns,     (* bound of the links                                       *)
  MaxProcs,     (* bound of the claude processes                            *)
  LostAnswers   (* an answer of Telegram to a message it shows may be lost  *)

ASSUME PromptsAssumption ==
  /\ {Keys, MaxEdits, MaxProcs} \subseteq Nat \ {0}
  /\ MaxConns \in Nat
  /\ \A p \in Plans : /\ p.ways \in [Dialog -> SUBSET {"channel", "hook"}]
                      /\ {p.max, p.sessions} \subseteq Nat \ {0} /\ p.faults \in Nat
                      /\ p.acks \in BOOLEAN /\ p.ids \subseteq HookId
  /\ None \notin Dialog \cup Id \cup HookId
  /\ LostAnswers \in BOOLEAN
  /\ {"none", "terminal"} \cap Behavior = {}

VARIABLES
  plan,
  claude,    (* the process: proc, its session, the one of its environment  *)
  dialog,
  hook,      (* the hook of each dialog                                     *)
  outbox,    (* requests the agent has not sent                             *)
  passed,    (* verdicts the agent passed on                                *)
  links,
  hub,       (* the sessions as the registry knows them                     *)
  book,      (* Prompts                                                     *)
  next,      (* the next key                                                *)
  asks,      (* hook_asks                                                   *)
  relayed,   (* requests relayed within TWIN_WINDOW                         *)
  waiter,    (* hook_waiters: the prompt of a dialog's hook, 0 without one  *)
  clearing,  (* prompts forgotten whose buttons are being taken             *)
  tg,        (* what Telegram shows of each prompt, and of which dialog     *)
  first,     (* the press that counted for each prompt                      *)
  faults

asker == <<claude, dialog, hook, outbox, passed>>

telegram == <<tg, first>>

vars == <<plan, asker, links, hub, book, next, asks, relayed, waiter, clearing, telegram, faults>>

Key == 1 .. Keys

Conn == 1 .. MaxConns

Kinds == {"none", "Open", "Selected", "Decided", "Closed", "Expired"}

Edits == {"None", "Due", "InFlight", "Failed", "Done"}

Prompt == [dialog : Dialog \cup {None}, conn : 0 .. MaxConns, proc : 0 .. MaxProcs,
           session : Nat, id : Id \cup HookId \cup {None}, hook : BOOLEAN,
           sent : BOOLEAN, known : BOOLEAN, state : Kinds,
           behavior : Behavior \cup {"none"}, edit : Edits, failures : 0 .. MaxEdits]

(* A key without a prompt (never used, or forgotten).                      *)
NoPrompt == [dialog |-> None, conn |-> 0, proc |-> 0, session |-> 0, id |-> None,
             hook |-> FALSE, sent |-> FALSE, known |-> FALSE, state |-> "none",
             behavior |-> "none", edit |-> "None", failures |-> 0]

NotShown == [shows |-> "none", dialog |-> None, id |-> None]

NoLink == [state |-> "none", proc |-> 0, session |-> 0, down |-> {}, up |-> <<>>]

Init ==
  /\ plan \in Plans
  /\ claude = [proc |-> 1, session |-> 1, env |-> 1, live |-> TRUE]
  /\ dialog = [d \in Dialog |-> [state |-> "new", id |-> None, proc |-> 0, session |-> 0,
                                 answer |-> "none"]]
  /\ hook = [d \in Dialog |-> "none"]
  /\ outbox = {} /\ passed = {}
  /\ links = [c \in Conn |-> NoLink]
  /\ hub = [session |-> 0, proc |-> 0, ended |-> {}]
  /\ book = [k \in Key |-> NoPrompt] /\ next = 1
  /\ asks = {} /\ relayed = {} /\ waiter = [d \in Dialog |-> 0] /\ clearing = {}
  /\ tg = [k \in Key |-> NotShown] /\ first = [k \in Key |-> "none"]
  /\ faults = 0

Fault(n) == faults' = faults + n /\ faults' <= plan.faults

----------------------------------------------------------------------------
(* The book.                                                               *)

Active(p) == p.state \in {"Open", "Selected"}

Live(h, s) == s = h.session /\ s \notin h.ended

(* An active prompt ends; one that never went to Telegram is forgotten.    *)
Finish(p, state) ==
  IF ~Active(p) THEN p
  ELSE IF p.known THEN [p EXCEPT !.state = state, !.edit = "Due"]
  ELSE IF p.sent THEN [p EXCEPT !.state = state] ELSE NoPrompt

(* Mutant of Delivered: a prompt that ended during its send owes no edit.  *)
DeliveredOpen(p) == [p EXCEPT !.known = TRUE]

Delivered(p) == [p EXCEPT !.known = TRUE, !.edit = IF Active(p) THEN @ ELSE "Due"]

InBook(b) == { k \in Key : b[k].state # "none" }

Finished(p) == p.state \in {"Decided", "Closed", "Expired"} /\ p.edit = "Done"

(* Mutant of Expirable: a fixed answer makes room like an open prompt.     *)
ExpirableActive(p) == Active(p) /\ (p.known \/ ~p.sent)

Expirable(p) == p.state = "Open" /\ (p.known \/ ~p.sent)

Duplicate(b, p) == \E k \in Key : Active(b[k]) /\ b[k].session = p.session /\ b[k].id = p.id

(* Mutant of Crowded: the limit is met one prompt late.                    *)
CrowdedLate(b) == Cardinality(InBook(b)) > plan.max

Crowded(b) == Cardinality(InBook(b)) >= plan.max

(* What a full book may forget: a finished prompt first.                   *)
Victims(b) ==
  LET finished == { k \in Key : Finished(b[k]) }
  IN  IF finished # {} THEN finished ELSE { k \in Key : Expirable(b[k]) }

Opens(b, p) == ~Duplicate(b, p) /\ (Crowded(b) => Victims(b) # {})

Opened(b, p) ==
  [k \in Key |-> IF k = next THEN p
                 ELSE IF Crowded(b) /\ k = Min(Victims(b)) THEN NoPrompt ELSE b[k]]

(* The open prompt that made room and has buttons.                         *)
Cleared(b) ==
  { k \in Key : Crowded(b) /\ k = Min(Victims(b)) /\ Active(b[k]) /\ b[k].known }

----------------------------------------------------------------------------
(* Verdicts.                                                               *)

Serves(l, p) == l.state \in {"open", "dead"} /\ l.session = p.session

(* Mutant of Candidates: any link of the session's process or not.         *)
CandidatesAny(ls, p) == { c \in Conn : Serves(ls[c], p) }

Candidates(ls, p) ==
  { c \in Conn : Serves(ls[c], p) /\ (c = p.conn \/ (ls[c].proc = p.proc /\ p.proc # 0)) }

(* The link a verdict goes to, 0 without one.                              *)
VerdictConn(ls, p) ==
  LET cs == Candidates(ls, p)
  IN  IF p.conn \in cs THEN p.conn ELSE IF cs = {} THEN 0 ELSE Max(cs)

Verdict(k, p) == [key |-> k, id |-> p.id, behavior |-> p.behavior]

(* Mutant of Pushed: a verdict sent is a verdict taken.                    *)
PushedTaken(b, ls, ks) ==
  [k \in Key |-> IF k \in ks /\ b[k].state = "Selected" /\ VerdictConn(ls, b[k]) # 0
                 THEN Finish(b[k], "Decided") ELSE b[k]]

(* push_verdict, for every prompt of ks.                                   *)
Pushed(b, ls, ks) ==
  [k \in Key |-> LET c == VerdictConn(ls, b[k])
                 IN  IF k \in ks /\ b[k].state = "Selected" /\ c # 0 /\ ~plan.acks
                     THEN Finish(b[k], "Decided") ELSE b[k]]

Queued(b, ls, ks) ==
  [c \in Conn |-> [ls[c] EXCEPT !.down = @ \cup
     { Verdict(k, b[k]) : k \in { j \in ks : /\ b[j].state = "Selected"
                                              /\ VerdictConn(ls, b[j]) = c } }]]

OfSession(b, s) == { k \in Key : b[k].session = s }

----------------------------------------------------------------------------
(* The pump.                                                               *)

(* What a handler leaves to the pump: late are the hooks whose time is up. *)
Now == [book |-> book, hub |-> hub, asks |-> asks, waiter |-> waiter, hook |-> hook, late |-> {}]

(* Mutant of HookEnds: a prompt that ended is not looked at again.         *)
HookEndsLeft(x, d) == x.waiter[d] # 0 /\ (x.hook[d] = "left" \/ d \in x.late)

(* check_hook_asks: the hook of d hears of its prompt.                     *)
HookEnds(x, d) ==
  /\ x.waiter[d] # 0
  /\ Active(x.book[x.waiter[d]]) => x.hook[d] = "left" \/ d \in x.late

HookChecked(x, k) ==
  IF \E d \in Dialog : x.waiter[d] = k /\ HookEnds(x, d)
  THEN Finish(x.book[k], "Expired") ELSE x.book[k]

(* send_prompts                                                            *)
Sent(p, h) ==
  IF ~Active(p) \/ p.sent THEN p
  ELSE IF p.session \in h.ended THEN Finish(p, "Closed")
  ELSE IF p.session = h.session THEN [p EXCEPT !.sent = TRUE] ELSE p

(* send_prompt_edits                                                       *)
EditSent(p) == IF p.edit = "Due" /\ p.known THEN [p EXCEPT !.edit = "InFlight"] ELSE p

Pumped(x) == [k \in Key |-> EditSent(Sent(HookChecked(x, k), x.hub))]

(* An ask whose hook left, waited too long, or whose session ended, goes.  *)
AskDropped(x, d) ==
  d \in x.asks /\ (x.hook[d] # "waiting" \/ d \in x.late \/ ~Live(x.hub, dialog[d].session))

(* The answer the hook of d gets from its prompt.                          *)
HookAnswer(x, d) ==
  IF x.waiter[d] # 0 /\ HookEnds(x, d) /\ x.book[x.waiter[d]].state = "Decided"
  THEN x.book[x.waiter[d]].behavior ELSE "none"

(* A waiting hook that is neither an ask nor waits for a prompt any more.  *)
HookFree(x, d) ==
  x.hook[d] = "waiting" /\ ( \/ AskDropped(x, d) \/ HookEnds(x, d)
                            \/ (d \notin x.asks /\ x.waiter[d] = 0) )

Pump(x) ==
  /\ book' = Pumped(x)
  /\ hub' = x.hub
  /\ asks' = { d \in x.asks : ~AskDropped(x, d) }
  /\ waiter' = [d \in Dialog |-> IF HookEnds(x, d) THEN 0 ELSE x.waiter[d]]
  /\ hook' = [d \in Dialog |-> IF ~HookFree(x, d) THEN x.hook[d]
                               ELSE IF HookAnswer(x, d) = "none" THEN "undecided" ELSE "decided"]
  /\ dialog' = [d \in Dialog |->
       IF HookFree(x, d) /\ HookAnswer(x, d) # "none" /\ dialog[d].state = "open"
       THEN [dialog[d] EXCEPT !.state = "closed", !.answer = HookAnswer(x, d)] ELSE dialog[d]]

Step(b) == Pump([Now EXCEPT !.book = b])

----------------------------------------------------------------------------
(* Claude Code and the agent of its process.                               *)

actor == <<plan, hub, book, next, asks, relayed, waiter, clearing>>

(* Its request ids do not repeat within a process.                         *)
Ask(d, id) ==
  /\ claude.live /\ dialog[d].state = "new"
  /\ ("channel" \in plan.ways[d]) = (id # None)
  /\ id # None => \A e \in Dialog : ~(dialog[e].proc = claude.proc /\ dialog[e].id = id)
  /\ dialog' = [dialog EXCEPT ![d] = [@ EXCEPT !.state = "open", !.id = id, !.proc = claude.proc,
                                               !.session = claude.session]]
  /\ outbox' = IF "channel" \in plan.ways[d] THEN outbox \cup {d} ELSE outbox
  /\ hook' = IF "hook" \in plan.ways[d] THEN [hook EXCEPT ![d] = "posting"] ELSE hook
  /\ UNCHANGED <<claude, passed, links, actor, telegram, faults>>

Left(ds) ==
  hook' = [d \in Dialog |-> IF d \in ds /\ hook[d] \in {"posting", "waiting"} THEN "left"
                            ELSE hook[d]]

(* The dialog is answered in the terminal; its hook ends.                  *)
Terminal(d) ==
  /\ dialog[d].state = "open"
  /\ dialog' = [dialog EXCEPT ![d].state = "closed", ![d].answer = "terminal"]
  /\ Left({d})
  /\ UNCHANGED <<claude, outbox, passed, links, actor, telegram, faults>>

Gone == { d \in Dialog : dialog[d].state = "open" }

Dropped ==
  [d \in Dialog |-> IF d \in Gone THEN [dialog[d] EXCEPT !.state = "closed"] ELSE dialog[d]]

Clear ==
  /\ claude.live /\ claude.session < plan.sessions
  /\ claude' = [claude EXCEPT !.session = @ + 1]
  /\ dialog' = Dropped /\ Left(Gone)
  /\ Fault(1)
  /\ UNCHANGED <<outbox, passed, links, actor, telegram>>

(* The process ends, and its link with it.                                 *)
Exit ==
  /\ claude.live
  /\ claude' = [claude EXCEPT !.live = FALSE]
  /\ dialog' = Dropped /\ Left(Gone)
  /\ outbox' = {}
  /\ links' = [c \in Conn |-> IF links[c].state = "open" THEN [links[c] EXCEPT !.state = "dead"]
                              ELSE links[c]]
  /\ Fault(1)
  /\ UNCHANGED <<passed, actor, telegram>>

(* Another process resumes the session, or starts one.                     *)
Start(session) ==
  /\ ~claude.live /\ claude.proc < MaxProcs
  /\ session \in {claude.session, claude.session + 1} /\ session <= plan.sessions
  /\ claude' = [proc |-> claude.proc + 1, session |-> session, env |-> session, live |-> TRUE]
  /\ passed' = {}
  /\ UNCHANGED <<dialog, hook, outbox, links, actor, telegram, faults>>

Frame(kind, of, session) == [kind |-> kind, of |-> of, session |-> session]

(* The agent sends a request; the hub reads it as the link's session.      *)
Relay(c, d) ==
  /\ links[c].state = "open" /\ d \in outbox
  /\ outbox' = outbox \ {d}
  /\ links' = [links EXCEPT ![c].up = Append(@, Frame("request", d, links[c].session))]
  /\ UNCHANGED <<claude, dialog, hook, passed, actor, telegram, faults>>

(* A verdict the agent passed on already; one without an id always is new. *)
Repeated(v) == plan.acks /\ v.key \in passed

(* The agent passes a verdict on, once, and acknowledges it.  Claude Code  *)
(* ignores one for a request that is no longer pending.                    *)
AgentTakes(c) ==
  /\ links[c].state = "open"
  /\ \E v \in links[c].down :
       LET answered == { d \in Dialog : /\ ~Repeated(v) /\ dialog[d].state = "open"
                                        /\ dialog[d].proc = claude.proc /\ dialog[d].id = v.id }
           ack == Frame("ack", v.key, links[c].session)
       IN  /\ \A i \in DOMAIN links[c].up : links[c].up[i] # ack  (* bound *)
           /\ dialog' = [d \in Dialog |-> IF d \in answered
                          THEN [dialog[d] EXCEPT !.state = "closed", !.answer = v.behavior]
                          ELSE dialog[d]]
           /\ Left(answered)
           /\ passed' = IF plan.acks THEN passed \cup {v.key} ELSE passed
           /\ links' = [links EXCEPT ![c].down = @ \ {v},
                                     ![c].up = IF plan.acks THEN Append(@, ack) ELSE @]
  /\ UNCHANGED <<claude, outbox, actor, telegram, faults>>

----------------------------------------------------------------------------
(* Links and hook posts, as the hub hears of them.                         *)

Closes(b, h) ==
  [k \in Key |-> IF b[k].session \in h.ended THEN Finish(b[k], "Closed") ELSE b[k]]

(* The hook posts of the process: its start or the end of its session; a   *)
(* link follows its process.                                               *)
Learn ==
  LET over == IF claude.live THEN {hub.session} \ {0, claude.session} ELSE {claude.session}
      h == [hub EXCEPT !.session = claude.session, !.proc = claude.proc,
                       !.ended = (@ \cup over) \ (IF claude.live THEN {claude.session} ELSE {})]
  IN  /\ h # hub
      /\ links' = [c \in Conn |->
           IF claude.live /\ links[c].state # "none" /\ links[c].proc = claude.proc
           THEN [links[c] EXCEPT !.session = claude.session] ELSE links[c]]
      /\ Pump([Now EXCEPT !.book = Closes(book, h), !.hub = h])
      /\ UNCHANGED <<plan, claude, outbox, passed, next, relayed, clearing, telegram, faults>>

Newest == Max({0} \cup { c \in Conn : links[c].state # "none" })

(* An agent registers; its session's fixed answers go to it.               *)
Connect ==
  LET c == Newest + 1
      session == IF hub.proc = claude.proc THEN hub.session ELSE claude.env
      ls == [i \in Conn |->
               IF i = c THEN [NoLink EXCEPT !.state = "open", !.proc = claude.proc,
                                            !.session = session]
               ELSE IF links[i].state = "open" THEN [links[i] EXCEPT !.state = "dead"]
               ELSE links[i]]
      ks == OfSession(book, session)
  IN  /\ claude.live /\ c \in Conn
      /\ links' = Queued(book, ls, ks)
      /\ Step(Pushed(book, ls, ks))
      /\ UNCHANGED <<plan, claude, outbox, passed, next, relayed, clearing, telegram, faults>>

(* A link breaks; what was on its way down is lost.                        *)
Lose(c) ==
  /\ links[c].state = "open"
  /\ links' = [links EXCEPT ![c].state = "dead"]
  /\ Fault(1)
  /\ UNCHANGED <<asker, actor, telegram>>

(* The hub notices; an older link of the session takes its answers.        *)
Disconnected(c) ==
  LET ls == [links EXCEPT ![c] = [NoLink EXCEPT !.state = "gone"]]
      ks == OfSession(book, links[c].session)
  IN  /\ links[c].state = "dead" /\ links[c].up = <<>>
      /\ links' = Queued(book, ls, ks)
      /\ Step(Pushed(book, ls, ks))
      /\ UNCHANGED <<plan, claude, outbox, passed, next, relayed, clearing, telegram, faults>>

----------------------------------------------------------------------------
(* What the actor is told.                                                 *)

OneOf(ds) == IF ds = {} THEN {} ELSE {CHOOSE d \in ds : TRUE}

(* The dialogs of ds asked by d's session for d's tool.                    *)
Twins(ds, d, session) == { e \in ds : dialog[e].session = session /\ Tool[e] = Tool[d] }

NewPrompt(d, c, session) ==
  [NoPrompt EXCEPT !.dialog = d, !.conn = c, !.proc = IF c = 0 THEN 0 ELSE links[c].proc,
                   !.session = session, !.id = dialog[d].id, !.hook = c = 0, !.state = "Open"]

(* on_permission_request, note_relayed                                     *)
OnRequest(c) ==
  /\ links[c].up # <<>> /\ Head(links[c].up).kind = "request"
  /\ next \in Key  (* bound *)
  /\ LET f == Head(links[c].up)
         p == NewPrompt(f.of, c, f.session)
         twins == Twins(asks, f.of, f.session)
     IN  IF f.session \in hub.ended \/ ~Opens(book, p)
         THEN Step(book) /\ UNCHANGED <<next, relayed, clearing>>
         ELSE /\ next' = next + 1 /\ clearing' = clearing \cup Cleared(book)
              /\ relayed' = IF twins = {} THEN relayed \cup {f.of} ELSE relayed
              /\ Pump([Now EXCEPT !.book = Opened(book, p),
                                !.asks = asks \ OneOf(twins)])
  /\ links' = [links EXCEPT ![c].up = Tail(@)]
  /\ UNCHANGED <<plan, claude, outbox, passed, telegram, faults>>

(* on_verdict_ack                                                          *)
OnAck(c) ==
  /\ links[c].up # <<>> /\ Head(links[c].up).kind = "ack"
  /\ LET f == Head(links[c].up)
         p == book[f.of]
     IN  Step([book EXCEPT ![f.of] = IF p.state = "Selected" /\ f.session = p.session
                                     THEN Finish(p, "Decided") ELSE p])
  /\ links' = [links EXCEPT ![c].up = Tail(@)]
  /\ UNCHANGED <<plan, claude, outbox, passed, next, relayed, clearing, telegram, faults>>

(* on_permission_ask: a twin was relayed, or the ask waits for one.        *)
OnAsk(d) ==
  /\ hook[d] = "posting"
  /\ LET twins == Twins(relayed, d, dialog[d].session)
         waits == Live(hub, dialog[d].session) /\ twins = {}
         live == Live(hub, dialog[d].session)
     IN  /\ relayed' = IF live THEN relayed \ OneOf(twins) ELSE relayed
         /\ Pump([Now EXCEPT !.hook[d] = "waiting",
                             !.asks = IF live /\ twins = {} THEN @ \cup {d} ELSE @])
  /\ UNCHANGED <<plan, claude, outbox, passed, links, next, clearing, telegram, faults>>

(* TWIN_WINDOW is over: the ask becomes a prompt under a fresh id (a full  *)
(* book gives its hook no decision).                                       *)
WindowOver(d, id) ==
  /\ d \in asks
  /\ next \in Key  (* bound *)
  /\ LET p == [NewPrompt(d, 0, dialog[d].session) EXCEPT !.id = id]
     IN  /\ ~Duplicate(book, p)
         /\ IF Opens(book, p)
            THEN /\ next' = next + 1 /\ clearing' = clearing \cup Cleared(book)
                 /\ Pump([Now EXCEPT !.book = Opened(book, p), !.asks = @ \ {d},
                                     !.waiter[d] = next])
            ELSE Pump([Now EXCEPT !.asks = @ \ {d}]) /\ UNCHANGED <<next, clearing>>
  /\ UNCHANGED <<plan, claude, outbox, passed, links, relayed, telegram, faults>>

(* A relayed request is no twin any more after TWIN_WINDOW.                *)
TwinForgotten(d) ==
  /\ d \in relayed
  /\ relayed' = relayed \ {d}
  /\ UNCHANGED <<plan, asker, links, hub, book, next, asks, waiter, clearing, telegram, faults>>

(* The hook of d waited hook_answer_wait.                                  *)
HookOver(d) ==
  /\ d \in asks \/ waiter[d] # 0
  /\ Pump([Now EXCEPT !.late = {d}])
  /\ UNCHANGED <<plan, claude, outbox, passed, links, next, relayed, clearing, telegram, faults>>

others == <<plan, claude, outbox, passed, next, relayed, clearing>>

(* on_tick: failed edits are due again, fixed answers go again; a hook     *)
(* that left is noticed.                                                   *)
Tick ==
  LET b == [k \in Key |-> IF book[k].edit = "Failed" THEN [book[k] EXCEPT !.edit = "Due"]
                          ELSE book[k]]
  IN  /\ links' = Queued(b, links, Key)
      /\ Step(Pushed(b, links, Key))
      /\ UNCHANGED <<others, telegram, faults>>

----------------------------------------------------------------------------
(* Telegram.                                                               *)

Sending(p) == p.sent /\ ~p.known

(* Telegram shows the message of a send that is out.                       *)
Shows(k) ==
  /\ Sending(book[k]) /\ tg[k].shows = "none"
  /\ tg' = [tg EXCEPT ![k] = [shows |-> "buttons", dialog |-> book[k].dialog, id |-> book[k].id]]
  /\ UNCHANGED <<asker, links, actor, first, faults>>

(* The send came back: a refused one is forgotten.                         *)
OnSent(k, ok) ==
  /\ Sending(book[k])
  /\ IF ok THEN tg[k].shows # "none" ELSE tg[k].shows # "none" => LostAnswers
  /\ Fault(IF ok THEN 0 ELSE 1)
  /\ Step([book EXCEPT ![k] = IF ok THEN Delivered(@) ELSE NoPrompt])
  /\ UNCHANGED <<others, links, telegram>>

EditFailed(p) ==
  [p EXCEPT !.failures = @ + 1, !.edit = IF p.failures + 1 >= MaxEdits THEN "Done" ELSE "Failed"]

(* The final edit came back; it took the buttons, or failed.               *)
OnEdited(k, ok) ==
  /\ book[k].edit = "InFlight"
  /\ Fault(IF ok THEN 0 ELSE 1)
  /\ tg' = [tg EXCEPT ![k].shows = IF ok THEN book[k].state ELSE @]
  /\ Step([book EXCEPT ![k] = IF ok THEN [@ EXCEPT !.edit = "Done"] ELSE EditFailed(@)])
  /\ UNCHANGED <<others, links, first>>

(* The one edit of a prompt that made room.                                *)
OnCleared(k) ==
  /\ k \in clearing
  /\ clearing' = clearing \ {k}
  /\ tg' = [tg EXCEPT ![k].shows = "Expired"]
  /\ UNCHANGED <<plan, asker, links, hub, book, next, asks, relayed, waiter, first, faults>>

InFlight(id) == { j \in Key : Sending(book[j]) /\ book[j].id = id }

(* The prompt of a pressed message: by the message, or the only one with   *)
(* its id whose send is out.                                               *)
Pressed(k) ==
  LET out == InFlight(tg[k].id)
  IN  IF book[k].known THEN {k} ELSE IF Cardinality(out) = 1 THEN out ELSE {}

(* The first press fixes the answer.                                       *)
Selected(p, b) ==
  IF p.state = "Open" THEN [p EXCEPT !.state = "Selected", !.behavior = b] ELSE p

(* press_hook: it answers at once, unless the hook left.                   *)
HookPressed(k, b) ==
  IF \E d \in Dialog : waiter[d] = k /\ hook[d] = "waiting"
  THEN Finish([book[k] EXCEPT !.behavior = b], "Decided") ELSE Finish(book[k], "Expired")

(* An assumption on the ids (25^5 random ones): a message the hub forgot   *)
(* has not the id of a prompt just being sent, which would take its press. *)
Stray(k) == book[k].state = "none" /\ InFlight(tg[k].id) # {}

(* on_callback, perhaps long after the press; room: the queue of the link  *)
(* takes the verdict.                                                      *)
OnCallback(k, b, room) ==
  /\ tg[k].shows # "none" /\ ~Stray(k)
  /\ Fault(IF room THEN 0 ELSE 1)
  /\ \/ /\ Pressed(k) = {} /\ room
        /\ Step(book) /\ UNCHANGED <<links, first>>
     \/ \E j \in Pressed(k) :
          LET hooked == book[j].hook /\ book[j].state = "Open"
              c == [book EXCEPT ![j] = IF hooked THEN HookPressed(j, b) ELSE Selected(@, b)]
              ks == IF room THEN {j} ELSE {}
          IN  /\ ~room => c[j].state = "Selected"
              /\ links' = Queued(c, links, ks)
              /\ Step(Pushed(c, links, ks))
              /\ first' = [first EXCEPT ![k] =
                              IF @ = "none" /\ book[j].state = "Open" THEN b ELSE @]
  /\ UNCHANGED <<others, tg>>

(* The hub crashes and starts again: what it knew of prompts is gone.      *)
Crash ==
  /\ Fault(1)
  /\ book' = [k \in Key |-> NoPrompt]
  /\ asks' = {} /\ relayed' = {} /\ waiter' = [d \in Dialog |-> 0] /\ clearing' = {}
  /\ hook' = [d \in Dialog |-> IF hook[d] \in {"posting", "waiting"} THEN "undecided" ELSE hook[d]]
  /\ links' = [c \in Conn |-> IF links[c].state = "none" THEN NoLink
                              ELSE [NoLink EXCEPT !.state = "gone"]]
  /\ UNCHANGED <<plan, claude, dialog, outbox, passed, hub, next, telegram>>

----------------------------------------------------------------------------

ClaudeStep ==
  \/ (\E d \in Dialog, id \in Id \cup {None} : Ask(d, id)) \/ (\E d \in Dialog : Terminal(d))
  \/ Clear \/ Exit \/ (\E s \in 1 .. plan.sessions : Start(s))
  \/ (\E c \in Conn, d \in Dialog : Relay(c, d)) \/ (\E c \in Conn : AgentTakes(c))

HubStep ==
  \/ Learn \/ Connect
  \/ (\E c \in Conn : Lose(c) \/ Disconnected(c) \/ OnRequest(c) \/ OnAck(c))
  \/ (\E d \in Dialog : OnAsk(d) \/ TwinForgotten(d) \/ HookOver(d))
  \/ (\E d \in Dialog, id \in plan.ids : WindowOver(d, id))
  \/ Tick \/ Crash

TelegramStep ==
  \/ (\E k \in Key : Shows(k) \/ OnCleared(k))
  \/ (\E k \in Key, ok \in BOOLEAN : OnSent(k, ok) \/ OnEdited(k, ok))
  \/ (\E k \in Key, b \in Behavior, room \in BOOLEAN : OnCallback(k, b, room))

Next == ClaudeStep \/ HubStep \/ TelegramStep

Spec == Init /\ [][Next]_vars

----------------------------------------------------------------------------
(* Properties.                                                             *)

TypeOK ==
  /\ book \in [Key -> Prompt] /\ next \in 1 .. Keys + 1
  /\ asks \cup relayed \subseteq Dialog /\ waiter \in [Dialog -> 0 .. Keys]
  /\ Cardinality(InBook(book)) <= plan.max
  /\ hook \in [Dialog -> {"none", "posting", "waiting", "left", "decided", "undecided"}]

(* A dialog answered from Telegram got the first press on a message of its *)
(* own, whatever other prompt has its id, and however often the verdict    *)
(* went.                                                                   *)
AnswerIsPressed ==
  \A d \in Dialog : dialog[d].answer \in Behavior =>
    \E k \in Key : tg[k].dialog = d /\ first[k] = dialog[d].answer

(* A message that shows a decision: the answer was handed to the hook, or  *)
(* passed on by the agent (one that acknowledges).                         *)
ShownIsTaken ==
  \A k \in Key : plan.acks /\ book[k].state = "Decided" /\ ~book[k].hook =>
    k \in passed \/ book[k].proc # claude.proc

(* Buttons that show belong to a prompt that waits for them, or their last *)
(* edit is still owed.                                                     *)
ButtonsOwned ==
  \A k \in Key : tg[k].shows = "buttons" /\ book[k].state # "none" =>
    Active(book[k]) \/ Sending(book[k]) \/ book[k].edit \in {"Due", "InFlight", "Failed"}
    \/ book[k].failures = MaxEdits

(* A hook that waits is an ask, or waits for a prompt that is shown.       *)
HookHeld ==
  \A d \in Dialog : hook[d] = "waiting" =>
    d \in asks \/ (waiter[d] # 0 /\ Active(book[waiter[d]]) /\ book[waiter[d]].dialog = d)

(* "The first press fixes the answer; the verdict goes only to an agent of *)
(* the requesting session, and again after a link drop until that agent    *)
(* acknowledges it" (slots.rs:26): it is not forgotten before.             *)
FixedAnswerStays ==
  [][\A k \in Key : book[k].state = "Selected" /\ book'[k] # book[k] =>
       \/ book'[k].state \in {"Selected", "Decided"} /\ book'[k].behavior = book[k].behavior
       \/ book[k].session \in hub'.ended
       \/ Crash]_vars
=============================================================================
