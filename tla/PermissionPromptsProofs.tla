---------------------- MODULE PermissionPromptsProofs ----------------------
(* Proofs about PermissionPrompts, for every number of dialogs, prompts,   *)
(* links and processes, and for every plan.                                *)
EXTENDS PermissionPrompts, FiniteSetTheorems, WellFoundedInduction, TLAPS

Shown == [shows : Kinds \cup {"buttons"}, dialog : Dialog \cup {None},
          id : Id \cup HookId \cup {None}]

(* Buttons that show are waited for, or their last edit is still owed.     *)
OwnsButtons(p) ==
  \/ Active(p) \/ Sending(p) \/ p.edit \in {"Due", "InFlight", "Failed"}
  \/ p.failures = MaxEdits

(* A prompt, the message Telegram shows of it, and the press that counted  *)
(* for it: what is known of it is on the screen and says the same, and an  *)
(* answer is the one that was pressed.                                     *)
PromptOK(p, t, f) ==
  /\ p \in Prompt
  /\ p.state = "none" => p = NoPrompt
  /\ t.shows # "none" /\ p.state # "none" => p.sent /\ t.id = p.id /\ t.dialog = p.dialog
  /\ p.known => p.sent /\ t.shows # "none"
  /\ p.behavior # "none" => t.shows # "none" /\ f = p.behavior
  /\ p.state = "Open" => p.behavior = "none" /\ f = "none"
  /\ p.state = "Selected" => p.behavior \in Behavior /\ ~p.hook
  /\ Active(p) \/ ~p.known => p.edit = "None" /\ p.failures = 0
  /\ p.edit # "Done" => p.failures < MaxEdits
  /\ t.shows = "buttons" /\ p.state # "none" => OwnsButtons(p)

(* A prompt that became another one still asks the same, or is forgotten.  *)
Asks(p) == <<p.dialog, p.conn, p.proc, p.session, p.id, p.hook>>

Becomes(p, q) ==
  /\ q.state # "none" => p.state # "none" /\ Asks(q) = Asks(p)
  /\ Active(q) => Active(p)

LEMMA NoPromptOK ==
  ASSUME PromptsAssumption, NEW t, NEW f
  PROVE  PromptOK(NoPrompt, t, f)
BY DEF PromptsAssumption, NoPrompt, Prompt, Kinds, Edits, PromptOK, Active

LEMMA FinishOK ==
  ASSUME PromptsAssumption, NEW p, NEW t, NEW f, PromptOK(p, t, f),
         NEW state \in {"Decided", "Closed", "Expired"}
  PROVE  PromptOK(Finish(p, state), t, f) /\ Becomes(p, Finish(p, state))
<1>1. CASE ~Active(p) BY <1>1 DEF Finish, Becomes
<1>2. CASE Active(p) /\ p.known
  <2> DEFINE q == [p EXCEPT !.state = state, !.edit = "Due"]
  <2>1. Finish(p, state) = q BY <1>2 DEF Finish
  <2>2. p \in Prompt BY DEF PromptOK, OwnsButtons
  <2>3. /\ q \in Prompt /\ q.state = state /\ q.edit = "Due" /\ q.failures = p.failures
        /\ q.known = p.known /\ q.sent = p.sent /\ q.id = p.id /\ q.dialog = p.dialog
        /\ q.behavior = p.behavior /\ Asks(q) = Asks(p)
    BY <2>2 DEF Prompt, Kinds, Edits, Asks
  <2> HIDE DEF q
  <2>. QED BY <1>2, <2>1, <2>3 DEF PromptOK, Active, Becomes, OwnsButtons, Sending
<1>3. CASE Active(p) /\ ~p.known /\ p.sent
  <2> DEFINE q == [p EXCEPT !.state = state]
  <2>1. Finish(p, state) = q BY <1>3 DEF Finish
  <2>2. p \in Prompt BY DEF PromptOK, OwnsButtons
  <2>3. /\ q \in Prompt /\ q.state = state /\ q.edit = p.edit /\ q.failures = p.failures
        /\ q.known = p.known /\ q.sent = p.sent /\ q.id = p.id /\ q.dialog = p.dialog
        /\ q.behavior = p.behavior /\ Asks(q) = Asks(p)
    BY <2>2 DEF Prompt, Kinds, Asks
  <2> HIDE DEF q
  <2>. QED BY <1>3, <2>1, <2>3 DEF PromptOK, Active, Becomes, OwnsButtons, Sending
<1>4. CASE Active(p) /\ ~p.known /\ ~p.sent
  BY <1>4, NoPromptOK DEF Finish, Becomes, NoPrompt
<1>. QED BY <1>1, <1>2, <1>3, <1>4

LEMMA SentOK ==
  ASSUME PromptsAssumption, NEW p, NEW t, NEW f, PromptOK(p, t, f), NEW h
  PROVE  PromptOK(Sent(p, h), t, f) /\ Becomes(p, Sent(p, h))
<1>1. CASE Sent(p, h) = p BY <1>1 DEF Becomes
<1>2. CASE Sent(p, h) = Finish(p, "Closed") BY <1>2, FinishOK
<1>3. CASE Active(p) /\ Sent(p, h) = [p EXCEPT !.sent = TRUE]
  <2> DEFINE q == [p EXCEPT !.sent = TRUE]
  <2>1. p \in Prompt BY DEF PromptOK, OwnsButtons
  <2>2. /\ q \in Prompt /\ q.state = p.state /\ q.edit = p.edit /\ q.failures = p.failures
        /\ q.known = p.known /\ q.sent /\ q.id = p.id /\ q.dialog = p.dialog /\ q.hook = p.hook
        /\ q.behavior = p.behavior /\ Asks(q) = Asks(p)
    BY <2>1 DEF Prompt, Asks
  <2>3. Sent(p, h) = q BY <1>3
  <2> HIDE DEF q
  <2>. QED BY <1>3, <2>2, <2>3 DEF PromptOK, Active, Becomes, OwnsButtons, Sending
<1>. QED BY <1>1, <1>2, <1>3 DEF Sent

LEMMA EditSentOK ==
  ASSUME PromptsAssumption, NEW p, NEW t, NEW f, PromptOK(p, t, f)
  PROVE  PromptOK(EditSent(p), t, f) /\ Becomes(p, EditSent(p))
<1>1. CASE EditSent(p) = p BY <1>1 DEF Becomes
<1>2. CASE p.edit = "Due" /\ EditSent(p) = [p EXCEPT !.edit = "InFlight"]
  <2> DEFINE q == [p EXCEPT !.edit = "InFlight"]
  <2>1. p \in Prompt BY DEF PromptOK, OwnsButtons
  <2>2. /\ q \in Prompt /\ q.state = p.state /\ q.edit = "InFlight" /\ q.failures = p.failures
        /\ q.known = p.known /\ q.sent = p.sent /\ q.id = p.id /\ q.dialog = p.dialog
        /\ q.hook = p.hook /\ q.behavior = p.behavior /\ Asks(q) = Asks(p)
    BY <2>1 DEF Prompt, Asks, Edits
  <2>3. p.state # "none" /\ ~Active(p) BY <1>2 DEF PromptOK, NoPrompt
  <2>4. EditSent(p) = q BY <1>2
  <2> HIDE DEF q
  <2>. QED BY <1>2, <2>2, <2>3, <2>4 DEF PromptOK, Active, Becomes, OwnsButtons, Sending
<1>. QED BY <1>1, <1>2 DEF EditSent

LEMMA BecomesTransitive ==
  ASSUME NEW p, NEW q, NEW r, Becomes(p, q), Becomes(q, r)
  PROVE  Becomes(p, r)
BY DEF Becomes

(* What the pump makes of a prompt.                                        *)
LEMMA PumpedOK ==
  ASSUME PromptsAssumption, NEW x, NEW k \in Key, NEW t, NEW f, PromptOK(x.book[k], t, f)
  PROVE  PromptOK(Pumped(x)[k], t, f) /\ Becomes(x.book[k], Pumped(x)[k])
<1> DEFINE p == x.book[k]
           q == HookChecked(x, k)
           r == Sent(q, x.hub)
<1>1. PromptOK(q, t, f) /\ Becomes(p, q) BY FinishOK DEF HookChecked, Becomes
<1> HIDE DEF q
<1>2. PromptOK(r, t, f) /\ Becomes(p, r) BY <1>1, SentOK, BecomesTransitive
<1> HIDE DEF r
<1>3. PromptOK(EditSent(r), t, f) /\ Becomes(p, EditSent(r))
  BY <1>2, EditSentOK, BecomesTransitive
<1>. QED BY <1>3 DEF Pumped, q, r

(* The send came back; the last edit came back.                            *)
LEMMA DeliveredOK ==
  ASSUME PromptsAssumption, NEW p, NEW t, NEW f, PromptOK(p, t, f), Sending(p), t.shows # "none"
  PROVE  PromptOK(Delivered(p), t, f) /\ Becomes(p, Delivered(p))
<1> DEFINE q == Delivered(p)
<1>1. p \in Prompt /\ p.state # "none" BY DEF PromptOK, Sending, NoPrompt
<1>2. /\ q \in Prompt /\ q.state = p.state /\ q.failures = p.failures
      /\ q.edit = IF Active(p) THEN p.edit ELSE "Due"
      /\ q.known /\ q.sent = p.sent /\ q.id = p.id /\ q.dialog = p.dialog
      /\ q.hook = p.hook /\ q.behavior = p.behavior /\ Asks(q) = Asks(p)
  BY <1>1 DEF Delivered, Prompt, Asks, Edits
<1>3. Delivered(p) = q OBVIOUS
<1> HIDE DEF q
<1>. QED BY <1>1, <1>2, <1>3 DEF PromptOK, Active, Becomes, OwnsButtons, Sending

----------------------------------------------------------------------------
(* What the state keeps.                                                   *)

HubState == [session : Nat, proc : Nat, ended : SUBSET Nat]

Process == [proc : 0 .. MaxProcs, session : Nat, env : Nat, live : BOOLEAN]

HookState == {"none", "posting", "waiting", "left", "decided", "undecided"}

DialogState == [state : {"new", "open", "closed"}, id : Id \cup {None}, proc : 0 .. MaxProcs,
                session : Nat, answer : Behavior \cup {"none", "terminal"}]

Sender == [key : Key, id : Id \cup HookId \cup {None}, behavior : Behavior]

Frames == [kind : {"request"}, of : Dialog, session : Nat]
            \cup [kind : {"ack"}, of : Key, session : Nat]

Link == [state : {"none", "open", "dead", "gone"}, proc : 0 .. MaxProcs, session : Nat,
         down : SUBSET Sender, up : Seq(Frames)]

StateTypes ==
  /\ plan \in Plans
  /\ claude \in Process
  /\ hub \in HubState
  /\ hook \in [Dialog -> HookState]
  /\ asks \subseteq Dialog /\ relayed \subseteq Dialog
  /\ waiter \in [Dialog -> 0 .. Keys] /\ clearing \subseteq Key
  /\ tg \in [Key -> Shown] /\ first \in [Key -> Behavior \cup {"none"}]
  /\ next \in 1 .. Keys + 1
  /\ links \in [Conn -> Link]

(* A prompt that a link brought asks of a dialog of the link's process.    *)
AskOK(p, ls, dl) ==
  p.state # "none" /\ ~p.hook =>
    /\ p.dialog \in Dialog /\ p.conn \in Conn
    /\ p.id = dl[p.dialog].id /\ p.id # None /\ p.proc = dl[p.dialog].proc
    /\ ls[p.conn].state # "none"
    /\ ls[p.conn].state \in {"open", "dead"} => ls[p.conn].proc = p.proc

BookOK(b, ls, dl, t, f, n) ==
  /\ b = [k \in Key |-> b[k]]
  /\ \A k \in Key : PromptOK(b[k], t[k], f[k]) /\ AskOK(b[k], ls, dl)
  /\ \A k \in Key : k >= n => b[k] = NoPrompt

(* A hook waits for a prompt of its own dialog.                            *)
WaitersOK(w, b, n) ==
  \A d \in Dialog : w[d] # 0 =>
    /\ w[d] \in Key /\ w[d] < n
    /\ b[w[d]].state # "none" => b[w[d]].hook /\ b[w[d]].dialog = d

(* No two dialogs of a process have one id.                                *)
DialogsOK(dl) ==
  /\ dl \in [Dialog -> DialogState]
  /\ \A d \in Dialog : dl[d].state = "new" => dl[d].id = None
  /\ \A d, e \in Dialog : d # e /\ dl[d].proc = dl[e].proc /\ dl[d].id # None =>
       dl[d].id # dl[e].id

(* AnswerIsPressed, on a message that shows.                               *)
PressedFor(d, a, t, f) ==
  \E k \in Key : t[k].shows # "none" /\ t[k].dialog = d /\ f[k] = a

AnswersOK(dl, t, f) ==
  \A d \in Dialog : dl[d].answer \in Behavior => PressedFor(d, dl[d].answer, t, f)

(* A verdict on its way names the dialog of its message, of the process    *)
(* its link is of, and says what was pressed there.                        *)
VerdictOK(v, q, dl, t, f) ==
  /\ v \in Sender /\ f[v.key] = v.behavior
  /\ t[v.key].shows # "none" /\ t[v.key].dialog \in Dialog
  /\ v.id # None /\ dl[t[v.key].dialog].id = v.id /\ dl[t[v.key].dialog].proc = q

RequestOK(m, q, dl) == m.kind = "request" => dl[m.of].id # None /\ dl[m.of].proc = q

(* An acknowledgement is of a verdict for a dialog of the link's process.  *)
AckOK(m, q, dl, t) ==
  m.kind = "ack" => /\ t[m.of].shows # "none" /\ t[m.of].dialog \in Dialog
                    /\ dl[t[m.of].dialog].id # None /\ dl[t[m.of].dialog].proc = q

LinkOK(l, dl, t, f) ==
  /\ l \in Link /\ (l.up # <<>> => l.state # "none")
  /\ \A v \in l.down : VerdictOK(v, l.proc, dl, t, f)
  /\ \A i \in DOMAIN l.up : RequestOK(l.up[i], l.proc, dl) /\ AckOK(l.up[i], l.proc, dl, t)

(* Links that are open, and requests not sent yet, are of the process that *)
(* lives.                                                                  *)
AgentOK(cl, ls, dl, ob) ==
  /\ \A c \in Conn : ls[c].state = "open" => cl.live /\ ls[c].proc = cl.proc
  /\ ob \subseteq Dialog
  /\ \A d \in ob : cl.live /\ dl[d].id # None /\ dl[d].proc = cl.proc

(* A key not used yet has no message; a prompt being cleared is forgotten. *)
FreshOK(t, f, n) == \A k \in Key : k >= n => t[k] = NotShown /\ f[k] = "none"

ClearingOK(cs, b, n) == \A k \in cs : k < n /\ b[k].state = "none"

(* No prompt that waits, and no ask, is of a session that ended.           *)
EndedOK(b, h) == \A k \in Key : Active(b[k]) => b[k].session \notin h.ended

AsksOK(h, a, dl) == \A d \in Dialog : dl[d].state = "new" => h[d] = "none" /\ d \notin a

HooksOK(h, a, w, b, dl, hb) ==
  /\ \A d \in Dialog : h[d] = "waiting" =>
       d \in a \/ (w[d] # 0 /\ Active(b[w[d]]) /\ b[w[d]].dialog = d)
  /\ EndedOK(b, hb) /\ AsksOK(h, a, dl)
  /\ \A d \in a : dl[d].session \notin hb.ended

PromptsInv ==
  /\ StateTypes
  /\ BookOK(book, links, dialog, tg, first, next)
  /\ Cardinality(InBook(book)) <= plan.max
  /\ WaitersOK(waiter, book, next)
  /\ DialogsOK(dialog) /\ AnswersOK(dialog, tg, first)
  /\ \A c \in Conn : LinkOK(links[c], dialog, tg, first)
  /\ AgentOK(claude, links, dialog, outbox)
  /\ FreshOK(tg, first, next) /\ ClearingOK(clearing, book, next)
  /\ HooksOK(hook, asks, waiter, book, dialog, hub)

LEMMA InitHolds ==
  ASSUME PromptsAssumption, Init
  PROVE  PromptsInv
<1>1. /\ MaxEdits \in Nat \ {0} /\ MaxConns \in Nat /\ MaxProcs \in Nat \ {0}
      /\ Keys \in Nat \ {0} /\ {"none", "terminal"} \cap Behavior = {}
      /\ plan \in Plans /\ plan.max \in Nat
  BY DEF PromptsAssumption, Init
<1>2. NoLink \in Link BY <1>1 DEF NoLink, Link
<1>3. NotShown \in Shown BY DEF NotShown, Shown, Kinds
<1>4. StateTypes BY <1>1, <1>2, <1>3 DEF Init, StateTypes, HookState, HubState, Process
<1>5. BookOK(book, links, dialog, tg, first, next)
  BY NoPromptOK DEF Init, BookOK, AskOK, NoPrompt
<1>6. Cardinality(InBook(book)) <= plan.max
  <2>1. InBook(book) = {} BY DEF Init, InBook, NoPrompt
  <2>. QED BY <1>1, <2>1, FS_EmptySet
<1>7. WaitersOK(waiter, book, next) BY DEF Init, WaitersOK
<1>8. DialogsOK(dialog) /\ AnswersOK(dialog, tg, first)
  BY <1>1 DEF Init, DialogState, DialogsOK, AnswersOK
<1>9. \A c \in Conn : LinkOK(links[c], dialog, tg, first)
  BY <1>2 DEF Init, LinkOK, NoLink
<1>10. AgentOK(claude, links, dialog, outbox) BY DEF Init, AgentOK, NoLink
<1>11. FreshOK(tg, first, next) /\ ClearingOK(clearing, book, next)
  BY DEF Init, FreshOK, ClearingOK
<1>12. HooksOK(hook, asks, waiter, book, dialog, hub)
  BY DEF Init, HooksOK, EndedOK, AsksOK, Active, NoPrompt
<1>. QED BY <1>4, <1>5, <1>6, <1>7, <1>8, <1>9, <1>10, <1>11, <1>12 DEF PromptsInv

----------------------------------------------------------------------------
(* What every step keeps.                                                  *)

(* A dialog keeps its id.                                                  *)
SameIds(dl, m) ==
  \A d \in Dialog : dl[d].id # None => m[d].id = dl[d].id /\ m[d].proc = dl[d].proc

(* Links that go on, or go.                                                *)
SameLinks(ls, m) ==
  \A c \in Conn : ls[c].state # "none" =>
    /\ m[c].state # "none"
    /\ m[c].state \in {"open", "dead"} =>
         ls[c].state \in {"open", "dead"} /\ m[c].proc = ls[c].proc

(* Messages stay, and presses count once.                                  *)
Grows(t, f, u, g) ==
  \A k \in Key :
    /\ t[k].shows # "none" => u[k].shows # "none" /\ u[k].dialog = t[k].dialog
    /\ f[k] # "none" => g[k] = f[k]

LEMMA AskKept ==
  ASSUME NEW p, NEW q, Becomes(p, q), NEW ls, NEW m, SameLinks(ls, m),
         NEW dl, NEW e, SameIds(dl, e), AskOK(p, ls, dl)
  PROVE  AskOK(q, m, e)
<1> SUFFICES ASSUME q.state # "none", ~q.hook
             PROVE  /\ q.dialog \in Dialog /\ q.conn \in Conn
                    /\ q.id = e[q.dialog].id /\ q.id # None /\ q.proc = e[q.dialog].proc
                    /\ m[q.conn].state # "none"
                    /\ m[q.conn].state \in {"open", "dead"} => m[q.conn].proc = q.proc
  BY DEF AskOK
<1>1. /\ p.state # "none" /\ p.dialog = q.dialog /\ p.conn = q.conn /\ p.proc = q.proc
      /\ p.id = q.id /\ p.hook = q.hook
  BY DEF Becomes, Asks
<1>2. /\ q.dialog \in Dialog /\ q.conn \in Conn
      /\ q.id = dl[q.dialog].id /\ q.id # None /\ q.proc = dl[q.dialog].proc
      /\ ls[q.conn].state # "none"
      /\ ls[q.conn].state \in {"open", "dead"} => ls[q.conn].proc = q.proc
  BY <1>1 DEF AskOK
<1>. QED BY <1>2 DEF SameIds, SameLinks

LEMMA BookKept ==
  ASSUME NEW b, NEW a, NEW ls, NEW dl, NEW t, NEW f, NEW n, BookOK(b, ls, dl, t, f, n),
         NEW u, NEW g, NEW m, NEW e, SameLinks(ls, m), SameIds(dl, e),
         a = [k \in Key |-> a[k]],
         \A k \in Key : PromptOK(a[k], u[k], g[k]) /\ Becomes(b[k], a[k])
  PROVE  BookOK(a, m, e, u, g, n)
<1>1. \A k \in Key : AskOK(a[k], m, e) BY AskKept DEF BookOK
<1>2. ASSUME NEW k \in Key, k >= n
      PROVE  a[k] = NoPrompt
  BY <1>2 DEF BookOK, NoPrompt, Becomes, PromptOK
<1>. QED BY <1>1, <1>2 DEF BookOK

LEMMA InBookKept ==
  ASSUME NEW a, NEW b, \A k \in Key : Becomes(b[k], a[k])
  PROVE  InBook(a) \subseteq InBook(b)
BY DEF InBook, Becomes

LEMMA WaitersKept ==
  ASSUME NEW w, NEW b, NEW a, NEW n, WaitersOK(w, b, n),
         \A k \in Key : Becomes(b[k], a[k])
  PROVE  WaitersOK(w, a, n)
BY DEF WaitersOK, Becomes, Asks

LEMMA VerdictKept ==
  ASSUME NEW v, NEW q, NEW dl, NEW e, NEW t, NEW f, NEW u, NEW g, PromptsAssumption,
         VerdictOK(v, q, dl, t, f), SameIds(dl, e), Grows(t, f, u, g)
  PROVE  VerdictOK(v, q, e, u, g)
BY DEF VerdictOK, Sender, PromptsAssumption, SameIds, Grows

LEMMA LinkKept ==
  ASSUME NEW l, NEW dl, NEW e, NEW t, NEW f, NEW u, NEW g, PromptsAssumption,
         LinkOK(l, dl, t, f), SameIds(dl, e), Grows(t, f, u, g)
  PROVE  LinkOK(l, e, u, g)
<1>1. \A v \in l.down : VerdictOK(v, l.proc, e, u, g) BY VerdictKept DEF LinkOK
<1>2. ASSUME NEW i \in DOMAIN l.up, l.up[i].kind = "request"
      PROVE  e[l.up[i].of].id # None /\ e[l.up[i].of].proc = l.proc
  BY <1>2 DEF LinkOK, Link, Frames, RequestOK, SameIds
<1>3. ASSUME NEW i \in DOMAIN l.up PROVE AckOK(l.up[i], l.proc, e, u)
  <2> SUFFICES ASSUME l.up[i].kind = "ack"
               PROVE  /\ u[l.up[i].of].shows # "none" /\ u[l.up[i].of].dialog \in Dialog
                      /\ e[u[l.up[i].of].dialog].id # None /\ e[u[l.up[i].of].dialog].proc = l.proc
    BY DEF AckOK
  <2>1. l.up[i] \in Frames BY DEF LinkOK, Link
  <2>2. l.up[i].of \in Key BY <2>1 DEF Frames
  <2>3. AckOK(l.up[i], l.proc, dl, t) BY DEF LinkOK
  <2>. QED BY <2>2, <2>3 DEF AckOK, SameIds, Grows
<1>. QED BY <1>1, <1>2, <1>3 DEF LinkOK, RequestOK

LEMMA AnswersKept ==
  ASSUME NEW dl, NEW t, NEW f, NEW u, NEW g, PromptsAssumption,
         AnswersOK(dl, t, f), Grows(t, f, u, g)
  PROVE  AnswersOK(dl, u, g)
<1> SUFFICES ASSUME NEW d \in Dialog, dl[d].answer \in Behavior
             PROVE  \E k \in Key : u[k].shows # "none" /\ u[k].dialog = d /\ g[k] = dl[d].answer
  BY DEF AnswersOK, PressedFor
<1>1. PICK k \in Key : t[k].shows # "none" /\ t[k].dialog = d /\ f[k] = dl[d].answer
  BY DEF AnswersOK, PressedFor
<1>2. dl[d].answer # "none" BY DEF PromptsAssumption
<1>. QED BY <1>1, <1>2 DEF Grows

LEMMA GrowsByNothing ==
  ASSUME NEW t, NEW f
  PROVE  Grows(t, f, t, f)
BY DEF Grows

LEMMA SameAll ==
  ASSUME NEW dl, NEW ls
  PROVE  SameIds(dl, dl) /\ SameLinks(ls, ls)
BY DEF SameIds, SameLinks

LEMMA FewerPrompts ==
  ASSUME PromptsAssumption, NEW a, NEW b, InBook(a) \subseteq InBook(b)
  PROVE  Cardinality(InBook(a)) <= Cardinality(InBook(b))
<1>1. IsFiniteSet(Key) BY FS_Interval DEF Key, PromptsAssumption
<1>2. IsFiniteSet(InBook(b)) BY <1>1, FS_Subset DEF InBook
<1>. QED BY <1>2, FS_Subset

----------------------------------------------------------------------------
(* The pump.                                                               *)

(* A hook is told what was pressed on the message of its dialog.           *)
LEMMA HookAnswerPressed ==
  ASSUME PromptsAssumption, NEW x, NEW ls, NEW t, NEW f, NEW n, NEW dl,
         BookOK(x.book, ls, dl, t, f, n), WaitersOK(x.waiter, x.book, n),
         NEW d \in Dialog, HookAnswer(x, d) # "none"
  PROVE  /\ HookAnswer(x, d) \in Behavior
         /\ PressedFor(d, HookAnswer(x, d), t, f)
<1> DEFINE k == x.waiter[d]
           p == x.book[k]
<1>1. k # 0 /\ p.state = "Decided" /\ HookAnswer(x, d) = p.behavior BY DEF HookAnswer
<1>2. k \in Key /\ p.dialog = d BY <1>1 DEF WaitersOK
<1>3. PromptOK(p, t[k], f[k]) BY <1>2 DEF BookOK
<1> HIDE DEF k, p
<1>4. p.behavior # "none" /\ t[k].shows # "none" /\ f[k] = p.behavior /\ t[k].dialog = p.dialog
  BY <1>1, <1>3 DEF PromptOK, OwnsButtons
<1>5. p.behavior \in Behavior BY <1>3, <1>4 DEF PromptOK, Prompt
<1>. QED BY <1>1, <1>2, <1>4, <1>5 DEF PressedFor

LEMMA PumpKeeps ==
  ASSUME PromptsAssumption, NEW x, NEW ls, NEW t, NEW f, NEW n,
         x.waiter \in [Dialog -> 0 .. Keys], x.hook \in [Dialog -> HookState],
         x.asks \subseteq Dialog,
         BookOK(x.book, ls, dialog, t, f, n), WaitersOK(x.waiter, x.book, n),
         DialogsOK(dialog), AnswersOK(dialog, t, f), Pump(x)
  PROVE  /\ BookOK(book', ls, dialog', t, f, n) /\ InBook(book') \subseteq InBook(x.book)
         /\ \A k \in Key : Becomes(x.book[k], book'[k])
         /\ WaitersOK(waiter', book', n) /\ waiter' \in [Dialog -> 0 .. Keys]
         /\ DialogsOK(dialog') /\ AnswersOK(dialog', t, f) /\ SameIds(dialog, dialog')
         /\ hook' \in [Dialog -> HookState] /\ asks' \subseteq Dialog
<1>1. /\ book' = Pumped(x)
      /\ asks' = { d \in x.asks : ~AskDropped(x, d) }
      /\ waiter' = [d \in Dialog |-> IF HookEnds(x, d) THEN 0 ELSE x.waiter[d]]
      /\ hook' = [d \in Dialog |-> IF ~HookFree(x, d) THEN x.hook[d]
                                   ELSE IF HookAnswer(x, d) = "none" THEN "undecided"
                                   ELSE "decided"]
      /\ dialog' = [d \in Dialog |->
           IF HookFree(x, d) /\ HookAnswer(x, d) # "none" /\ dialog[d].state = "open"
           THEN [dialog[d] EXCEPT !.state = "closed", !.answer = HookAnswer(x, d)]
           ELSE dialog[d]]
  BY DEF Pump
<1>2. ASSUME NEW d \in Dialog
      PROVE  /\ dialog'[d] \in DialogState
             /\ dialog'[d].id = dialog[d].id /\ dialog'[d].proc = dialog[d].proc
             /\ dialog'[d].state = "new" => dialog[d].state = "new"
             /\ \/ dialog'[d].answer = dialog[d].answer
                \/ HookAnswer(x, d) # "none" /\ dialog'[d].answer = HookAnswer(x, d)
  <2>1. dialog[d] \in DialogState BY DEF DialogsOK
  <2>2. CASE dialog'[d] = dialog[d] BY <2>1, <2>2
  <2>3. CASE /\ HookAnswer(x, d) # "none"
             /\ dialog'[d] = [dialog[d] EXCEPT !.state = "closed", !.answer = HookAnswer(x, d)]
    <3>1. HookAnswer(x, d) \in Behavior BY <2>3, HookAnswerPressed
    <3>. QED BY <2>1, <2>3, <3>1 DEF DialogState
  <2>. QED BY <1>1, <2>2, <2>3
<1>3. SameIds(dialog, dialog') BY <1>2 DEF SameIds
<1>4. DialogsOK(dialog')
  <2>1. dialog' \in [Dialog -> DialogState] BY <1>1, <1>2
  <2>. QED BY <1>2, <2>1 DEF DialogsOK
<1>5. AnswersOK(dialog', t, f)
  <2> SUFFICES ASSUME NEW d \in Dialog, dialog'[d].answer \in Behavior
               PROVE  PressedFor(d, dialog'[d].answer, t, f)
    BY DEF AnswersOK
  <2>1. CASE dialog'[d].answer = dialog[d].answer BY <2>1 DEF AnswersOK
  <2>2. CASE HookAnswer(x, d) # "none" /\ dialog'[d].answer = HookAnswer(x, d)
    <3>1. PressedFor(d, HookAnswer(x, d), t, f) BY <2>2, HookAnswerPressed
    <3>. QED BY <2>2, <3>1
  <2>. QED BY <1>2, <2>1, <2>2
<1>6. \A k \in Key : PromptOK(book'[k], t[k], f[k]) /\ Becomes(x.book[k], book'[k])
  BY <1>1, PumpedOK DEF BookOK
<1>7. book' = [k \in Key |-> book'[k]] BY <1>1 DEF Pumped
<1>8. BookOK(book', ls, dialog', t, f, n) /\ InBook(book') \subseteq InBook(x.book)
  BY SameAll, <1>3, <1>6, <1>7, BookKept, InBookKept
<1>9. waiter' \in [Dialog -> 0 .. Keys]
  <2>1. 0 \in 0 .. Keys BY DEF PromptsAssumption
  <2>. QED BY <1>1, <2>1
<1>10. WaitersOK(waiter', book', n)
  <2>1. WaitersOK(x.waiter, book', n) BY <1>6, WaitersKept
  <2>. QED BY <1>1, <2>1 DEF WaitersOK
<1>11. hook' \in [Dialog -> HookState] /\ asks' \subseteq Dialog BY <1>1 DEF HookState
<1>. QED BY <1>3, <1>4, <1>5, <1>6, <1>8, <1>9, <1>10, <1>11

(* A prompt a hook waits for still waits after the pump: only its own hook *)
(* or the end of its session ends it there.                                *)
LEMMA PumpedWaits ==
  ASSUME NEW x, NEW n, NEW d \in Dialog, WaitersOK(x.waiter, x.book, n), EndedOK(x.book, x.hub),
         x.waiter[d] # 0, Active(x.book[x.waiter[d]]), ~HookEnds(x, d),
         x.book[x.waiter[d]] \in Prompt
  PROVE  /\ Active(Pumped(x)[x.waiter[d]]) /\ Pumped(x)[x.waiter[d]].dialog = d
<1> DEFINE k == x.waiter[d]
           p == x.book[k]
<1>1. k \in Key /\ p.dialog = d /\ p.session \notin x.hub.ended
  BY DEF WaitersOK, EndedOK, Active
<1>2. HookChecked(x, k) = p
  <2> SUFFICES ASSUME NEW e \in Dialog, x.waiter[e] = k, HookEnds(x, e) PROVE FALSE
    BY DEF HookChecked
  <2>1. p.dialog = e BY DEF WaitersOK, Active, HookEnds
  <2>. QED BY <1>1, <2>1
<1> DEFINE q == Sent(p, x.hub)
<1> HIDE DEF p
<1>3. q = p \/ q = [p EXCEPT !.sent = TRUE] BY <1>1 DEF Sent
<1>4. Active(p) /\ p \in Prompt BY DEF p
<1>5. Active(q) /\ q.dialog = d /\ q \in Prompt BY <1>1, <1>3, <1>4 DEF Active, Prompt
<1> HIDE DEF q
<1>6. EditSent(q) = q \/ EditSent(q) = [q EXCEPT !.edit = "InFlight"] BY DEF EditSent
<1>7. Active(EditSent(q)) /\ EditSent(q).dialog = d BY <1>5, <1>6 DEF Active, Prompt
<1>. QED BY <1>1, <1>2, <1>7 DEF Pumped, q

LEMMA PumpHolds ==
  ASSUME PromptsAssumption, NEW x, NEW n, WaitersOK(x.waiter, x.book, n),
         EndedOK(x.book, x.hub), AsksOK(x.hook, x.asks, dialog), x.asks \subseteq Dialog,
         \A k \in Key : x.book[k] \in Prompt /\ Becomes(x.book[k], book'[k]), Pump(x)
  PROVE  HooksOK(hook', asks', waiter', book', dialog', hub')
<1>1. /\ book' = Pumped(x) /\ hub' = x.hub
      /\ asks' = { d \in x.asks : ~AskDropped(x, d) }
      /\ waiter' = [d \in Dialog |-> IF HookEnds(x, d) THEN 0 ELSE x.waiter[d]]
      /\ hook' = [d \in Dialog |-> IF ~HookFree(x, d) THEN x.hook[d]
                                   ELSE IF HookAnswer(x, d) = "none" THEN "undecided"
                                   ELSE "decided"]
      /\ dialog' = [d \in Dialog |->
           IF HookFree(x, d) /\ HookAnswer(x, d) # "none" /\ dialog[d].state = "open"
           THEN [dialog[d] EXCEPT !.state = "closed", !.answer = HookAnswer(x, d)]
           ELSE dialog[d]]
  BY DEF Pump
<1>2. ASSUME NEW d \in Dialog, hook'[d] = "waiting"
      PROVE  d \in asks' \/ (waiter'[d] # 0 /\ Active(book'[waiter'[d]])
                               /\ book'[waiter'[d]].dialog = d)
  <2>1. ~HookFree(x, d) /\ x.hook[d] = "waiting" BY <1>1, <1>2
  <2>2. CASE d \in x.asks BY <1>1, <2>1, <2>2 DEF HookFree
  <2>3. CASE d \notin x.asks
    <3>1. x.waiter[d] # 0 /\ ~HookEnds(x, d) BY <2>1, <2>3 DEF HookFree
    <3>2. Active(x.book[x.waiter[d]]) /\ waiter'[d] = x.waiter[d]
      BY <1>1, <3>1, <2>1 DEF HookEnds
    <3>3. x.book[x.waiter[d]] \in Prompt BY <3>1 DEF WaitersOK
    <3>. QED BY <1>1, <3>1, <3>2, <3>3, PumpedWaits
  <2>. QED BY <2>2, <2>3
<1>3. EndedOK(book', hub') BY <1>1 DEF EndedOK, Becomes, Asks, Active
<1>4. ASSUME NEW d \in Dialog
      PROVE  dialog'[d].session = dialog[d].session
             /\ (dialog'[d].state = "new" => dialog'[d] = dialog[d])
  <2>1. CASE dialog'[d] = dialog[d] BY <2>1
  <2>2. CASE dialog'[d] = [dialog[d] EXCEPT !.state = "closed", !.answer = HookAnswer(x, d)]
             /\ dialog[d].state = "open"
    BY <2>2
  <2>. QED BY <1>1, <2>1, <2>2
<1>5. AsksOK(hook', asks', dialog')
  <2> SUFFICES ASSUME NEW d \in Dialog, dialog'[d].state = "new"
               PROVE  hook'[d] = "none" /\ d \notin asks'
    BY DEF AsksOK
  <2>1. x.hook[d] = "none" /\ d \notin x.asks BY <1>4 DEF AsksOK
  <2>. QED BY <1>1, <2>1 DEF HookFree
<1>6. \A d \in asks' : dialog'[d].session \notin hub'.ended
  <2> SUFFICES ASSUME NEW d \in asks' PROVE dialog'[d].session \notin hub'.ended
    OBVIOUS
  <2>1. ~AskDropped(x, d) /\ d \in x.asks BY <1>1
  <2>. QED BY <1>1, <1>4, <2>1 DEF AskDropped, Live
<1>. QED BY <1>2, <1>3, <1>5, <1>6 DEF HooksOK

(* A step that ends with the pump, from what its handler left.             *)
LEMMA PumpStep ==
  ASSUME PromptsAssumption, PromptsInv, NEW x, Pump(x),
         x.waiter \in [Dialog -> 0 .. Keys], x.hook \in [Dialog -> HookState],
         x.asks \subseteq Dialog, x.hub \in HubState,
         UNCHANGED <<plan, claude, outbox>>, relayed' \subseteq Dialog,
         tg' \in [Key -> Shown], first' \in [Key -> Behavior \cup {"none"}],
         next' \in 1 .. Keys + 1, FreshOK(tg', first', next'), Grows(tg, first, tg', first'),
         clearing' \subseteq Key, ClearingOK(clearing', x.book, next'),
         links' \in [Conn -> Link], AgentOK(claude, links', dialog, outbox),
         \A c \in Conn : LinkOK(links'[c], dialog, tg', first'),
         BookOK(x.book, links', dialog, tg', first', next'),
         Cardinality(InBook(x.book)) <= plan.max, WaitersOK(x.waiter, x.book, next'),
         EndedOK(x.book, x.hub), AsksOK(x.hook, x.asks, dialog)
  PROVE  PromptsInv'
<1>1. DialogsOK(dialog) /\ AnswersOK(dialog, tg', first') /\ plan \in Plans
  BY AnswersKept DEF PromptsInv, StateTypes
<1>2. /\ BookOK(book', links', dialog', tg', first', next')
      /\ InBook(book') \subseteq InBook(x.book)
      /\ \A k \in Key : Becomes(x.book[k], book'[k])
      /\ WaitersOK(waiter', book', next') /\ waiter' \in [Dialog -> 0 .. Keys]
      /\ DialogsOK(dialog') /\ AnswersOK(dialog', tg', first') /\ SameIds(dialog, dialog')
      /\ hook' \in [Dialog -> HookState] /\ asks' \subseteq Dialog
  BY <1>1, PumpKeeps
<1>3. hub' = x.hub BY DEF Pump
<1>4. StateTypes' BY <1>2, <1>3 DEF StateTypes, PromptsInv, HubState
<1>5. Cardinality(InBook(book')) <= plan'.max
  <2>1. Cardinality(InBook(book')) <= Cardinality(InBook(x.book)) BY <1>2, FewerPrompts
  <2>2. /\ Cardinality(InBook(book')) \in Nat /\ Cardinality(InBook(x.book)) \in Nat
        /\ plan.max \in Nat
    <3>1. IsFiniteSet(Key) BY FS_Interval DEF Key, PromptsAssumption
    <3>2. IsFiniteSet(InBook(book')) /\ IsFiniteSet(InBook(x.book))
      BY <3>1, FS_Subset DEF InBook
    <3>. QED BY <3>2, <1>1, FS_CardinalityType DEF PromptsAssumption
  <2>. QED BY <2>1, <2>2
<1>6. \A c \in Conn : LinkOK(links'[c], dialog', tg', first')
  BY GrowsByNothing, <1>2, LinkKept
<1>7. AgentOK(claude', links', dialog', outbox') BY <1>2 DEF AgentOK, SameIds
<1>8. ClearingOK(clearing', book', next') BY <1>2 DEF ClearingOK, Becomes
<1>9. HooksOK(hook', asks', waiter', book', dialog', hub')
  BY <1>2, PumpHolds DEF BookOK, PromptOK
<1>. QED BY <1>2, <1>4, <1>5, <1>6, <1>7, <1>8, <1>9 DEF PromptsInv

(* A step that opens no prompt.                                            *)
LEMMA BookStep ==
  ASSUME PromptsAssumption, PromptsInv, NEW x, Pump(x),
         x.waiter = waiter, x.hook \in [Dialog -> HookState],
         x.asks \subseteq Dialog, x.hub \in HubState,
         UNCHANGED <<plan, claude, outbox, next>>, relayed' \subseteq Dialog,
         tg' \in [Key -> Shown], first' \in [Key -> Behavior \cup {"none"}],
         FreshOK(tg', first', next), Grows(tg, first, tg', first'),
         clearing' \subseteq clearing,
         links' \in [Conn -> Link], AgentOK(claude, links', dialog, outbox),
         \A c \in Conn : LinkOK(links'[c], dialog, tg', first'), SameLinks(links, links'),
         x.book = [k \in Key |-> x.book[k]],
         \A k \in Key : PromptOK(x.book[k], tg'[k], first'[k]) /\ Becomes(book[k], x.book[k]),
         x.hub = hub \/ EndedOK(x.book, x.hub), AsksOK(x.hook, x.asks, dialog)
  PROVE  PromptsInv'
<1>1. /\ BookOK(book, links, dialog, tg, first, next) /\ WaitersOK(waiter, book, next)
      /\ waiter \in [Dialog -> 0 .. Keys] /\ clearing \subseteq Key
      /\ ClearingOK(clearing, book, next) /\ next \in 1 .. Keys + 1
      /\ Cardinality(InBook(book)) <= plan.max /\ plan \in Plans
  BY DEF PromptsInv, StateTypes
<1>2. SameIds(dialog, dialog) BY SameAll
<1>3. BookOK(x.book, links', dialog, tg', first', next) BY <1>1, <1>2, BookKept
<1>4. WaitersOK(x.waiter, x.book, next) BY <1>1, WaitersKept
<1>5. Cardinality(InBook(x.book)) <= plan.max
  <2>1. Cardinality(InBook(x.book)) <= Cardinality(InBook(book))
    BY InBookKept, FewerPrompts
  <2>2. /\ Cardinality(InBook(book)) \in Nat /\ Cardinality(InBook(x.book)) \in Nat
        /\ plan.max \in Nat
    <3>1. IsFiniteSet(Key) BY FS_Interval DEF Key, PromptsAssumption
    <3>2. IsFiniteSet(InBook(book)) /\ IsFiniteSet(InBook(x.book))
      BY <3>1, FS_Subset DEF InBook
    <3>. QED BY <3>2, <1>1, FS_CardinalityType DEF PromptsAssumption
  <2>. QED BY <1>1, <2>1, <2>2
<1>6. clearing' \subseteq Key /\ ClearingOK(clearing', x.book, next)
  BY <1>1 DEF ClearingOK, Becomes
<1>7. EndedOK(x.book, x.hub) BY DEF PromptsInv, HooksOK, EndedOK, Becomes, Asks, Active
<1>. QED BY <1>1, <1>3, <1>4, <1>5, <1>6, <1>7, PumpStep

----------------------------------------------------------------------------
(* Verdicts.                                                               *)

LEMMA LeastKey ==
  ASSUME NEW n \in Nat, NEW S \in SUBSET (1 .. n), S # {}
  PROVE  \E k \in S : \A m \in S : k <= m
<1> DEFINE R == StrictSubsetOrdering(1 .. n)
           F == FiniteSubsetsOf(1 .. n)
           T == { 1 .. k : k \in S }
<1>1. IsWellFoundedOn(R, F) BY FS_Interval, FS_StrictSubsetOrderingWellFounded
<1>2. T \in SUBSET F /\ T # {}
  <2>1. ASSUME NEW k \in S PROVE (1 .. k) \in F BY FS_Interval DEF FiniteSubsetsOf
  <2>. QED BY <2>1
<1>3. PICK x \in T : \A y \in T : ~(<<y, x>> \in R)
  <2> HIDE DEF R, F, T
  <2>. QED BY <1>1, <1>2, WFMin
<1>4. PICK k \in S : x = 1 .. k OBVIOUS
<1>5. ASSUME NEW m \in S, m < k PROVE FALSE
  <2>1. (1 .. m) \subseteq (1 .. k) /\ k \in 1 .. k /\ k \notin 1 .. m BY <1>5
  <2>2. <<1 .. m, 1 .. k>> \in R BY <2>1 DEF StrictSubsetOrdering
  <2>. QED BY <2>2, <1>3, <1>4
<1>. QED BY <1>5

LEMMA GreatestLink ==
  ASSUME PromptsAssumption, NEW S \in SUBSET (0 .. MaxConns), S # {}
  PROVE  Max(S) \in S /\ \A c \in S : Max(S) >= c
<1> DEFINE n == MaxConns
           T == { n + 1 - c : c \in S }
<1>1. n \in Nat BY DEF PromptsAssumption
<1>2. T \in SUBSET (1 .. n + 1) /\ T # {} /\ n + 1 \in Nat
  <2>1. \A c \in S : n + 1 - c \in 1 .. n + 1 BY <1>1
  <2>2. T \subseteq 1 .. n + 1 BY <2>1
  <2>3. T # {}
    <3>1. PICK c \in S : TRUE OBVIOUS
    <3>2. n + 1 - c \in T OBVIOUS
    <3>. QED BY <3>2
  <2>. QED BY <1>1, <2>2, <2>3
<1>3. PICK k \in T : \A m \in T : k <= m
  <2> HIDE DEF T, n
  <2>. QED BY <1>2, LeastKey
<1>4. PICK c \in S : k = n + 1 - c BY <1>3
<1>5. \A d \in S : c >= d
  <2> SUFFICES ASSUME NEW d \in S PROVE c >= d
    OBVIOUS
  <2>1. n + 1 - d \in T OBVIOUS
  <2>2. n + 1 - c <= n + 1 - d BY <1>3, <1>4, <2>1
  <2>. QED BY <1>1, <2>2
<1>. QED BY <1>4, <1>5 DEF Max

(* The link a verdict goes to is of the process that asked.                *)
LEMMA VerdictLink ==
  ASSUME PromptsAssumption, NEW ls, NEW p, NEW dl, AskOK(p, ls, dl),
         p.state # "none", ~p.hook, NEW c \in Conn, VerdictConn(ls, p) = c
  PROVE  ls[c].proc = p.proc
<1>1. c # 0 BY DEF Conn, PromptsAssumption
<1>2. c \in Candidates(ls, p)
  BY <1>1, GreatestLink DEF VerdictConn, Candidates, Conn, PromptsAssumption
<1>. QED BY <1>2 DEF Candidates, Serves, AskOK

LEMMA PushedOK ==
  ASSUME PromptsAssumption, NEW b, NEW ls, NEW ks, NEW k \in Key, NEW t, NEW f,
         PromptOK(b[k], t, f)
  PROVE  PromptOK(Pushed(b, ls, ks)[k], t, f) /\ Becomes(b[k], Pushed(b, ls, ks)[k])
BY FinishOK DEF Pushed, Becomes

(* A verdict that is queued says what was pressed for its dialog.          *)
LEMMA QueuedOK ==
  ASSUME PromptsAssumption, NEW b, NEW ls, NEW dl, NEW t, NEW f, NEW n,
         BookOK(b, ls, dl, t, f, n), NEW ks \in SUBSET Key,
         NEW c \in Conn, LinkOK(ls[c], dl, t, f)
  PROVE  /\ LinkOK(Queued(b, ls, ks)[c], dl, t, f)
         /\ Queued(b, ls, ks)[c].state = ls[c].state /\ Queued(b, ls, ks)[c].proc = ls[c].proc
<1> DEFINE new == { Verdict(k, b[k]) : k \in { j \in ks : /\ b[j].state = "Selected"
                                                         /\ VerdictConn(ls, b[j]) = c } }
           l == [ls[c] EXCEPT !.down = @ \cup new]
<1>1. Queued(b, ls, ks)[c] = l BY DEF Queued
<1>2. ls[c] \in Link BY DEF LinkOK
<1>3. ASSUME NEW v \in new
      PROVE  VerdictOK(v, ls[c].proc, dl, t, f)
  <2>1. PICK k \in ks : /\ b[k].state = "Selected" /\ VerdictConn(ls, b[k]) = c
                        /\ v = Verdict(k, b[k])
    BY <1>3
  <2> DEFINE p == b[k]
  <2>2. PromptOK(p, t[k], f[k]) /\ AskOK(p, ls, dl) /\ k \in Key BY DEF BookOK
  <2>3. /\ v.key = k /\ v.id = p.id /\ v.behavior = p.behavior
        /\ p.state = "Selected" /\ VerdictConn(ls, p) = c
    BY <2>1 DEF Verdict
  <2>4. v = [key |-> k, id |-> p.id, behavior |-> p.behavior] BY <2>1 DEF Verdict
  <2> HIDE DEF p
  <2>5. /\ p.behavior \in Behavior /\ ~p.hook /\ p.behavior # "none"
        /\ p.id \in Id \cup HookId \cup {None}
    BY <2>2, <2>3 DEF PromptOK, Prompt, PromptsAssumption
  <2>6. t[k].shows # "none" /\ f[k] = p.behavior /\ t[k].id = p.id /\ t[k].dialog = p.dialog
    BY <2>2, <2>3, <2>5 DEF PromptOK, OwnsButtons
  <2>7. /\ p.dialog \in Dialog /\ p.id = dl[p.dialog].id /\ p.id # None
        /\ p.proc = dl[p.dialog].proc
    BY <2>2, <2>3, <2>5 DEF AskOK
  <2>8. ls[c].proc = p.proc BY <2>2, <2>3, <2>5, VerdictLink
  <2>9. v \in Sender BY <2>2, <2>4, <2>5 DEF Sender
  <2>. QED BY <2>2, <2>3, <2>6, <2>7, <2>8, <2>9 DEF VerdictOK
<1> HIDE DEF new
<1>4. new \in SUBSET Sender BY <1>3 DEF VerdictOK
<1>5. /\ l \in Link /\ l.down = ls[c].down \cup new /\ l.up = ls[c].up
      /\ l.state = ls[c].state /\ l.proc = ls[c].proc
  BY <1>2, <1>4 DEF Link
<1> HIDE DEF l
<1>. QED BY <1>1, <1>3, <1>5 DEF LinkOK

----------------------------------------------------------------------------
(* Claude Code and its agent.                                              *)

(* A step of the process: the hub and the messages stay.                   *)
LEMMA AgentStep ==
  ASSUME PromptsAssumption, PromptsInv,
         UNCHANGED <<plan, hub, book, next, asks, relayed, waiter, clearing, tg, first>>,
         claude' \in Process, hook' \in [Dialog -> HookState], links' \in [Conn -> Link],
         SameLinks(links, links'), SameIds(dialog, dialog'),
         DialogsOK(dialog'), AnswersOK(dialog', tg, first),
         \A c \in Conn : LinkOK(links'[c], dialog', tg, first),
         AgentOK(claude', links', dialog', outbox'), HooksOK(hook', asks, waiter, book, dialog', hub)
  PROVE  PromptsInv'
<1>1. StateTypes' BY DEF PromptsInv, StateTypes
<1>2. BookOK(book', links', dialog', tg', first', next')
  <2>1. \A k \in Key : PromptOK(book[k], tg[k], first[k]) /\ Becomes(book[k], book[k])
    BY DEF PromptsInv, BookOK, Becomes
  <2>2. BookOK(book, links, dialog, tg, first, next) /\ book = [k \in Key |-> book[k]]
    BY DEF PromptsInv, BookOK
  <2>3. BookOK(book, links', dialog', tg, first, next) BY <2>1, <2>2, BookKept
  <2>. QED BY <2>3
<1>3. /\ Cardinality(InBook(book')) <= plan'.max /\ WaitersOK(waiter', book', next')
      /\ FreshOK(tg', first', next') /\ ClearingOK(clearing', book', next')
  BY DEF PromptsInv
<1>. QED BY <1>1, <1>2, <1>3 DEF PromptsInv

(* The links whose frames and process stay.                                *)
LEMMA LinksStay ==
  ASSUME PromptsAssumption, PromptsInv, NEW e, SameIds(dialog, e), NEW m \in [Conn -> Link],
         SameLinks(links, m),
         \A c \in Conn : m[c].down = links[c].down /\ m[c].up = links[c].up
                         /\ m[c].proc = links[c].proc
  PROVE  \A c \in Conn : LinkOK(m[c], e, tg, first)
<1> SUFFICES ASSUME NEW c \in Conn PROVE LinkOK(m[c], e, tg, first)
  OBVIOUS
<1>1. LinkOK(links[c], dialog, tg, first) /\ Grows(tg, first, tg, first)
  BY GrowsByNothing DEF PromptsInv
<1>2. LinkOK(links[c], e, tg, first) BY <1>1, LinkKept
<1>. QED BY <1>2 DEF LinkOK, SameLinks

LEMMA LeftOK ==
  ASSUME PromptsInv, NEW ds, Left(ds)
  PROVE  /\ hook' \in [Dialog -> HookState]
         /\ \A d \in Dialog : hook'[d] \in {hook[d], "left"} /\ (hook[d] = "none" => hook'[d] = "none")
BY DEF PromptsInv, StateTypes, Left, HookState

LEMMA HooksStay ==
  ASSUME PromptsInv,
         \A d \in Dialog : /\ hook'[d] \in {hook[d], "left"} /\ (hook[d] = "none" => hook'[d] = "none")
                           /\ dialog'[d].session = dialog[d].session
                           /\ dialog'[d].state = "new" => dialog[d].state = "new"
  PROVE  HooksOK(hook', asks, waiter, book, dialog', hub)
BY DEF PromptsInv, StateTypes, HooksOK, AsksOK

LEMMA AskKeeps ==
  ASSUME PromptsAssumption, PromptsInv, NEW d \in Dialog, NEW id \in Id \cup {None}, Ask(d, id)
  PROVE  PromptsInv'
<1>1. /\ claude \in Process /\ claude.live /\ dialog \in [Dialog -> DialogState]
      /\ dialog[d].state = "new" /\ dialog[d].id = None /\ links \in [Conn -> Link]
      /\ hook \in [Dialog -> HookState] /\ asks \subseteq Dialog
  BY DEF Ask, PromptsInv, StateTypes, DialogsOK
<1>2. /\ dialog' \in [Dialog -> DialogState]
      /\ dialog'[d].id = id /\ dialog'[d].proc = claude.proc /\ dialog'[d].state = "open"
      /\ dialog'[d].answer = dialog[d].answer
      /\ \A e \in Dialog : e # d => dialog'[e] = dialog[e]
  <2> DEFINE q == [dialog[d] EXCEPT !.state = "open", !.id = id, !.proc = claude.proc,
                                    !.session = claude.session]
  <2>1. dialog' = [dialog EXCEPT ![d] = q] BY DEF Ask
  <2>2. dialog[d] \in DialogState /\ claude.proc \in 0 .. MaxProcs /\ claude.session \in Nat
    BY <1>1 DEF Process
  <2>3. /\ q \in DialogState /\ q.id = id /\ q.proc = claude.proc /\ q.state = "open"
        /\ q.answer = dialog[d].answer
    BY <2>2 DEF DialogState
  <2> HIDE DEF q
  <2>. QED BY <1>1, <2>1, <2>3
<1>3. SameIds(dialog, dialog') BY <1>1, <1>2 DEF SameIds
<1>4. DialogsOK(dialog') BY <1>2 DEF Ask, PromptsInv, DialogsOK
<1>5. AnswersOK(dialog', tg, first) BY <1>2 DEF PromptsInv, AnswersOK
<1>6. UNCHANGED <<claude, links, plan, hub, book, next, asks, relayed, waiter, clearing, tg, first>>
  BY DEF Ask, actor, telegram
<1>7. hook' \in [Dialog -> HookState] BY DEF Ask, PromptsInv, StateTypes, HookState
<1>8. AgentOK(claude', links', dialog', outbox')
  BY <1>1, <1>2, <1>6 DEF PromptsInv, Ask, AgentOK
<1>9. \A c \in Conn : LinkOK(links'[c], dialog', tg, first)
  BY <1>1, <1>3, <1>6, LinksStay, SameAll
<1>10. HooksOK(hook', asks, waiter, book, dialog', hub)
  BY <1>1, <1>2 DEF PromptsInv, HooksOK, AsksOK, Ask
<1>. QED BY <1>1, <1>3, <1>4, <1>5, <1>6, <1>7, <1>8, <1>9, <1>10, AgentStep, SameAll

(* Dialogs that close without a press.                                     *)
LEMMA ClosedOK ==
  ASSUME PromptsAssumption, PromptsInv, dialog' \in [Dialog -> DialogState],
         \A d \in Dialog : /\ dialog'[d].id = dialog[d].id /\ dialog'[d].proc = dialog[d].proc
                           /\ dialog'[d].state = "new" => dialog[d].state = "new"
                           /\ dialog'[d].answer \in {dialog[d].answer, "terminal"}
  PROVE  DialogsOK(dialog') /\ AnswersOK(dialog', tg, first) /\ SameIds(dialog, dialog')
BY DEF PromptsInv, DialogsOK, PromptsAssumption, AnswersOK, SameIds

LEMMA TerminalKeeps ==
  ASSUME PromptsAssumption, PromptsInv, NEW d \in Dialog, Terminal(d)
  PROVE  PromptsInv'
<1>1. dialog \in [Dialog -> DialogState] /\ dialog[d].state = "open"
  BY DEF PromptsInv, DialogsOK, Terminal
<1>2. /\ dialog' \in [Dialog -> DialogState]
      /\ \A e \in Dialog : /\ dialog'[e].id = dialog[e].id /\ dialog'[e].proc = dialog[e].proc
                           /\ dialog'[e].state = "new" => dialog[e].state = "new"
                           /\ dialog'[e].answer \in {dialog[e].answer, "terminal"}
                           /\ dialog'[e].session = dialog[e].session
  BY <1>1, ZenonT(60) DEF Terminal, DialogState
<1>3. DialogsOK(dialog') /\ AnswersOK(dialog', tg, first) /\ SameIds(dialog, dialog')
  BY <1>2, ClosedOK
<1>4. UNCHANGED <<claude, outbox, links, plan, hub, book, next, asks, relayed, waiter, clearing,
                  tg, first>>
  BY DEF Terminal, actor, telegram
<1>5. hook' \in [Dialog -> HookState] BY LeftOK DEF Terminal
<1>6. links \in [Conn -> Link] /\ claude \in Process BY DEF PromptsInv, StateTypes
<1>7. AgentOK(claude', links', dialog', outbox') BY <1>2, <1>4 DEF PromptsInv, AgentOK
<1>8. \A c \in Conn : LinkOK(links'[c], dialog', tg, first)
  BY <1>3, <1>4, <1>6, LinksStay, SameAll
<1>9. HooksOK(hook', asks, waiter, book, dialog', hub)
  BY <1>2, LeftOK, HooksStay DEF Terminal
<1>. QED BY <1>3, <1>4, <1>5, <1>6, <1>7, <1>8, <1>9, AgentStep, SameAll

LEMMA DroppedOK ==
  ASSUME PromptsAssumption, PromptsInv, dialog' = Dropped
  PROVE  /\ DialogsOK(dialog') /\ AnswersOK(dialog', tg, first) /\ SameIds(dialog, dialog')
         /\ \A d \in Dialog : /\ dialog'[d].id = dialog[d].id /\ dialog'[d].proc = dialog[d].proc
                              /\ dialog'[d].state = "new" => dialog[d].state = "new"
                              /\ dialog'[d].session = dialog[d].session
BY ClosedOK DEF PromptsInv, DialogsOK, Dropped, Gone, DialogState

LEMMA ClearKeeps ==
  ASSUME PromptsAssumption, PromptsInv, Clear
  PROVE  PromptsInv'
<1>1. /\ UNCHANGED <<outbox, links, plan, hub, book, next, asks, relayed, waiter, clearing, tg,
                     first>>
      /\ dialog' = Dropped /\ Left(Gone)
      /\ claude' = [claude EXCEPT !.session = @ + 1]
  BY DEF Clear, actor, telegram
<1>2. links \in [Conn -> Link] /\ claude \in Process BY DEF PromptsInv, StateTypes
<1>3. claude' \in Process /\ claude'.live = claude.live /\ claude'.proc = claude.proc
  BY <1>1, <1>2 DEF Process
<1>4. /\ DialogsOK(dialog') /\ AnswersOK(dialog', tg, first) /\ SameIds(dialog, dialog')
      /\ \A d \in Dialog : dialog'[d].id = dialog[d].id /\ dialog'[d].proc = dialog[d].proc
  BY <1>1, DroppedOK
<1>5. hook' \in [Dialog -> HookState] BY <1>1, LeftOK
<1>6. AgentOK(claude', links', dialog', outbox')
  BY <1>1, <1>3, <1>4 DEF PromptsInv, AgentOK
<1>7. \A c \in Conn : LinkOK(links'[c], dialog', tg, first)
  BY <1>1, <1>2, <1>4, LinksStay, SameAll
<1>8. HooksOK(hook', asks, waiter, book, dialog', hub)
  BY <1>1, DroppedOK, LeftOK, HooksStay
<1>. QED BY <1>1, <1>2, <1>3, <1>4, <1>5, <1>6, <1>7, <1>8, AgentStep, SameAll

(* Links of which only the state changes.                                  *)
LEMMA LinksOnly ==
  ASSUME PromptsAssumption, PromptsInv, NEW m, m = [c \in Conn |-> m[c]],
         \A c \in Conn : \/ m[c] = links[c]
                         \/ links[c].state = "open" /\ m[c] = [links[c] EXCEPT !.state = "dead"]
  PROVE  /\ m \in [Conn -> Link] /\ SameLinks(links, m)
         /\ \A c \in Conn : m[c].down = links[c].down /\ m[c].up = links[c].up
                            /\ m[c].proc = links[c].proc
<1>1. ASSUME NEW c \in Conn
      PROVE  /\ m[c] \in Link /\ m[c].down = links[c].down /\ m[c].up = links[c].up
             /\ m[c].proc = links[c].proc
             /\ m[c].state = links[c].state \/ (links[c].state = "open" /\ m[c].state = "dead")
  <2>1. links[c] \in Link BY DEF PromptsInv, StateTypes
  <2>. QED BY <2>1, SMTT(30) DEF Link
<1>2. m \in [Conn -> Link] BY <1>1
<1>3. SameLinks(links, m) BY <1>1 DEF SameLinks
<1>. QED BY <1>1, <1>2, <1>3

LEMMA ExitKeeps ==
  ASSUME PromptsAssumption, PromptsInv, Exit
  PROVE  PromptsInv'
<1>1. /\ UNCHANGED <<plan, hub, book, next, asks, relayed, waiter, clearing, tg, first>>
      /\ dialog' = Dropped /\ Left(Gone) /\ outbox' = {}
      /\ claude' = [claude EXCEPT !.live = FALSE]
      /\ links' = [c \in Conn |-> IF links[c].state = "open"
                                  THEN [links[c] EXCEPT !.state = "dead"] ELSE links[c]]
  BY DEF Exit, actor, telegram
<1>2. links \in [Conn -> Link] /\ claude \in Process BY DEF PromptsInv, StateTypes
<1>3. claude' \in Process BY <1>1, <1>2 DEF Process
<1>4. /\ DialogsOK(dialog') /\ AnswersOK(dialog', tg, first) /\ SameIds(dialog, dialog')
  BY <1>1, DroppedOK
<1>5. hook' \in [Dialog -> HookState] BY <1>1, LeftOK
<1>6. /\ links' \in [Conn -> Link] /\ SameLinks(links, links')
      /\ \A c \in Conn : links'[c].down = links[c].down /\ links'[c].up = links[c].up
                         /\ links'[c].proc = links[c].proc
  BY <1>1, LinksOnly, ZenonT(60)
<1>7. AgentOK(claude', links', dialog', outbox') BY <1>1, <1>2 DEF Link, AgentOK
<1>8. \A c \in Conn : LinkOK(links'[c], dialog', tg, first) BY <1>4, <1>6, LinksStay
<1>9. HooksOK(hook', asks, waiter, book, dialog', hub)
  BY <1>1, DroppedOK, LeftOK, HooksStay
<1>. QED BY <1>1, <1>3, <1>4, <1>5, <1>6, <1>7, <1>8, <1>9, AgentStep

LEMMA StartKeeps ==
  ASSUME PromptsAssumption, PromptsInv, NEW s \in 1 .. plan.sessions, Start(s)
  PROVE  PromptsInv'
BY HooksStay, AgentStep, SameAll DEF Start, actor, telegram, PromptsInv, StateTypes,
   PromptsAssumption, Process, AgentOK

LEMMA RelayKeeps ==
  ASSUME PromptsAssumption, PromptsInv, NEW c \in Conn, NEW d \in Dialog, Relay(c, d)
  PROVE  PromptsInv'
<1> DEFINE m == Frame("request", d, links[c].session)
           l == [links[c] EXCEPT !.up = Append(@, m)]
<1>1. /\ UNCHANGED <<claude, dialog, hook, plan, hub, book, next, asks, relayed, waiter,
                     clearing, tg, first>>
      /\ links[c].state = "open" /\ d \in outbox /\ outbox' = outbox \ {d}
      /\ links' = [links EXCEPT ![c] = l]
  BY DEF Relay, actor, telegram
<1>2. links \in [Conn -> Link] /\ links[c] \in Link /\ claude \in Process
  BY DEF PromptsInv, StateTypes
<1>3. /\ AgentOK(claude, links, dialog, outbox) /\ DialogsOK(dialog)
      /\ AnswersOK(dialog, tg, first) /\ hook \in [Dialog -> HookState]
      /\ \A e \in Conn : LinkOK(links[e], dialog, tg, first)
  BY DEF PromptsInv, StateTypes
<1>4. /\ m \in Frames /\ RequestOK(m, links[c].proc, dialog)
      /\ AckOK(m, links[c].proc, dialog, tg)
  <2>1. m = [kind |-> "request", of |-> d, session |-> links[c].session] BY DEF Frame
  <2>2. links[c].session \in Nat BY <1>2 DEF Link
  <2>3. dialog[d].id # None /\ dialog[d].proc = links[c].proc BY <1>1, <1>3 DEF AgentOK
  <2> HIDE DEF m
  <2>. QED BY <2>1, <2>2, <2>3 DEF Frames, RequestOK, AckOK
<1> HIDE DEF m
<1>5. /\ l \in Link /\ l.state = links[c].state /\ l.proc = links[c].proc
      /\ l.down = links[c].down /\ l.up = Append(links[c].up, m)
  <2>1. links[c].up \in Seq(Frames) BY <1>2 DEF Link
  <2>2. Append(links[c].up, m) \in Seq(Frames) BY <1>4, <2>1
  <2>. QED BY <1>2, <2>2 DEF Link
<1> HIDE DEF l
<1>6. LinkOK(l, dialog, tg, first)
  <2>1. links[c].up \in Seq(Frames) BY <1>2 DEF Link
  <2>2. ASSUME NEW i \in DOMAIN l.up 
        PROVE  RequestOK(l.up[i], l.proc, dialog) /\ AckOK(l.up[i], l.proc, dialog, tg)
    BY <1>4, <1>5, <2>1, <1>3 DEF LinkOK
  <2>. QED BY <1>1, <1>3, <1>5, <2>2 DEF LinkOK
<1>7. links' \in [Conn -> Link] /\ SameLinks(links, links')
  BY <1>1, <1>2, <1>5 DEF SameLinks
<1>8. AgentOK(claude', links', dialog', outbox') BY <1>1, <1>2, <1>3, <1>5 DEF AgentOK
<1>9. \A e \in Conn : LinkOK(links'[e], dialog', tg, first) BY <1>1, <1>2, <1>3, <1>6
<1>10. HooksOK(hook', asks, waiter, book, dialog', hub) BY <1>1, HooksStay
<1>. QED BY <1>1, <1>2, <1>3, <1>7, <1>8, <1>9, <1>10, AgentStep, SameAll

(* The agent answers the dialog whose message was pressed: ids of a        *)
(* process do not repeat.                                                  *)
LEMMA AgentTakesKeeps ==
  ASSUME PromptsAssumption, PromptsInv, NEW c \in Conn, AgentTakes(c)
  PROVE  PromptsInv'
<1>1. PICK v \in links[c].down :
        LET answered == { d \in Dialog : /\ ~Repeated(v) /\ dialog[d].state = "open"
                                         /\ dialog[d].proc = claude.proc /\ dialog[d].id = v.id }
            ack == Frame("ack", v.key, links[c].session)
        IN  /\ dialog' = [d \in Dialog |-> IF d \in answered
                           THEN [dialog[d] EXCEPT !.state = "closed", !.answer = v.behavior]
                           ELSE dialog[d]]
            /\ Left(answered)
            /\ links' = [links EXCEPT ![c].down = @ \ {v},
                                      ![c].up = IF plan.acks THEN Append(@, ack) ELSE @]
  BY DEF AgentTakes
<1> DEFINE ack == Frame("ack", v.key, links[c].session)
           l == [links[c] EXCEPT !.down = @ \ {v}, !.up = IF plan.acks THEN Append(@, ack) ELSE @]
           answered == { d \in Dialog : /\ ~Repeated(v) /\ dialog[d].state = "open"
                                        /\ dialog[d].proc = claude.proc /\ dialog[d].id = v.id }
<1>2. /\ UNCHANGED <<claude, outbox, plan, hub, book, next, asks, relayed, waiter, clearing, tg,
                     first>>
      /\ links[c].state = "open"
  BY DEF AgentTakes, actor, telegram
<1>3. /\ links \in [Conn -> Link] /\ links[c] \in Link /\ claude \in Process
      /\ AgentOK(claude, links, dialog, outbox) /\ DialogsOK(dialog)
      /\ AnswersOK(dialog, tg, first) /\ dialog \in [Dialog -> DialogState]
      /\ \A e \in Conn : LinkOK(links[e], dialog, tg, first)
  BY DEF PromptsInv, StateTypes, DialogsOK
<1>4. VerdictOK(v, claude.proc, dialog, tg, first) /\ v \in Sender
  BY <1>2, <1>3 DEF AgentOK, LinkOK, VerdictOK
<1>5. ack \in Frames /\ ack.kind = "ack" BY <1>3, <1>4 DEF Sender, Link, Frame, Frames
<1>6. /\ l \in Link /\ l.state = links[c].state /\ l.proc = links[c].proc
      /\ l.down \subseteq links[c].down
      /\ l.up = links[c].up \/ l.up = Append(links[c].up, ack)
  <2>1. links[c].up \in Seq(Frames) BY <1>3 DEF Link
  <2>2. Append(links[c].up, ack) \in Seq(Frames) BY <1>5, <2>1
  <2> HIDE DEF ack
  <2>. QED BY <1>3, <2>2 DEF Link
<1>7. links' = [links EXCEPT ![c] = l] BY <1>1, <1>3
<1>8. hook' \in [Dialog -> HookState] BY <1>1, LeftOK
<1>9. dialog' = [d \in Dialog |-> IF d \in answered
                  THEN [dialog[d] EXCEPT !.state = "closed", !.answer = v.behavior]
                  ELSE dialog[d]]
  BY <1>1
<1> HIDE DEF l, ack
<1>10. ASSUME NEW d \in Dialog
       PROVE  /\ dialog'[d] \in DialogState
              /\ dialog'[d].id = dialog[d].id /\ dialog'[d].proc = dialog[d].proc
              /\ dialog'[d].state = "new" => dialog[d].state = "new"
              /\ dialog'[d].session = dialog[d].session
              /\ dialog'[d].answer # dialog[d].answer =>
                   dialog'[d].answer = v.behavior /\ PressedFor(d, v.behavior, tg, first)
  <2>1. CASE d \notin answered BY <1>3, <1>9, <2>1
  <2>2. CASE d \in answered
    <3> DEFINE q == [dialog[d] EXCEPT !.state = "closed", !.answer = v.behavior]
               e == tg[v.key].dialog
    <3>1. dialog[d] \in DialogState /\ v.behavior \in Behavior /\ v.key \in Key
      BY <1>3, <1>4 DEF Sender
    <3>2. /\ q \in DialogState /\ q.id = dialog[d].id /\ q.proc = dialog[d].proc
          /\ q.state = "closed" /\ q.answer = v.behavior /\ q.session = dialog[d].session
      BY <3>1 DEF DialogState
    <3>3. dialog'[d] = q BY <1>9, <2>2
    <3>4. /\ e \in Dialog /\ dialog[e].id = v.id /\ dialog[e].proc = claude.proc /\ v.id # None
          /\ tg[v.key].shows # "none" /\ first[v.key] = v.behavior
      BY <1>4 DEF VerdictOK
    <3>5. dialog[d].id = v.id /\ dialog[d].proc = claude.proc BY <2>2
    <3>6. d = e BY <1>3, <3>4, <3>5 DEF DialogsOK
    <3>7. PressedFor(d, v.behavior, tg, first) BY <3>1, <3>4, <3>6 DEF PressedFor
    <3>. QED BY <3>2, <3>3, <3>7
  <2>. QED BY <2>1, <2>2
<1>11. DialogsOK(dialog')
  <2>1. dialog' \in [Dialog -> DialogState] BY <1>9, <1>10
  <2>. QED BY <1>3, <1>10, <2>1 DEF DialogsOK
<1>12. AnswersOK(dialog', tg, first)
  <2> SUFFICES ASSUME NEW d \in Dialog, dialog'[d].answer \in Behavior
               PROVE  PressedFor(d, dialog'[d].answer, tg, first)
    BY DEF AnswersOK
  <2>1. CASE dialog'[d].answer = dialog[d].answer BY <1>3, <2>1 DEF AnswersOK
  <2>2. CASE dialog'[d].answer # dialog[d].answer BY <1>10, <2>2
  <2>. QED BY <2>1, <2>2
<1>13. SameIds(dialog, dialog') BY <1>10 DEF SameIds
<1>14. links' \in [Conn -> Link] /\ SameLinks(links, links')
  BY <1>3, <1>6, <1>7 DEF SameLinks
<1>15. AgentOK(claude', links', dialog', outbox')
  BY <1>2, <1>3, <1>6, <1>7, <1>10 DEF AgentOK
<1>16. \A e \in Conn : LinkOK(links'[e], dialog', tg, first)
  <2>1. ASSUME NEW e \in Conn PROVE LinkOK(links[e], dialog', tg, first)
    BY <1>3, <1>13, LinkKept, GrowsByNothing
  <2>2. LinkOK(l, dialog', tg, first)
    <3>1. links[c].up \in Seq(Frames) BY <1>3 DEF Link
    <3>2. ASSUME NEW i \in DOMAIN l.up
          PROVE  RequestOK(l.up[i], l.proc, dialog') /\ AckOK(l.up[i], l.proc, dialog', tg)
      <4>1. CASE i \in DOMAIN links[c].up /\ l.up[i] = links[c].up[i]
        BY <1>6, <2>1, <4>1 DEF LinkOK
      <4>2. CASE l.up[i] = ack
        <5>1. ack.of = v.key /\ ack.kind = "ack" BY DEF ack, Frame
        <5>2. VerdictOK(v, l.proc, dialog', tg, first)
          BY <1>3, <1>4, <1>6, <1>13, <2>1, VerdictKept, GrowsByNothing DEF LinkOK
        <5>. QED BY <4>2, <5>1, <5>2 DEF RequestOK, AckOK, VerdictOK
      <4>3. \/ i \in DOMAIN links[c].up /\ l.up[i] = links[c].up[i]
            \/ l.up[i] = ack
        <5>1. CASE l.up = links[c].up BY <5>1
        <5>2. CASE l.up = Append(links[c].up, ack) BY <1>5, <3>1, <5>2
        <5>. QED BY <1>6, <5>1, <5>2
      <4>. QED BY <4>1, <4>2, <4>3
    <3>. QED BY <1>2, <1>6, <2>1, <3>2 DEF LinkOK
  <2>. QED BY <1>3, <1>7, <2>1, <2>2
<1>17. HooksOK(hook', asks, waiter, book, dialog', hub) BY <1>1, <1>10, LeftOK, HooksStay
<1>. QED BY <1>2, <1>3, <1>8, <1>11, <1>12, <1>13, <1>14, <1>15, <1>16, <1>17, AgentStep

----------------------------------------------------------------------------
(* The hub's steps that open no prompt.                                    *)

LEMMA NowFields ==
  ASSUME PromptsInv, NEW b
  PROVE  /\ [Now EXCEPT !.book = b].book = b /\ [Now EXCEPT !.book = b].waiter = waiter
         /\ [Now EXCEPT !.book = b].hook \in [Dialog -> HookState]
         /\ [Now EXCEPT !.book = b].asks \subseteq Dialog
         /\ [Now EXCEPT !.book = b].hub \in HubState /\ [Now EXCEPT !.book = b].hub = hub
         /\ AsksOK([Now EXCEPT !.book = b].hook, [Now EXCEPT !.book = b].asks, dialog)
BY DEF Now, PromptsInv, StateTypes, HooksOK

(* A handler that pushes and queues verdicts.                              *)
LEMMA QueueStep ==
  ASSUME PromptsAssumption, PromptsInv, NEW b, NEW ls, NEW ks \in SUBSET Key,
         links' = Queued(b, ls, ks), Step(Pushed(b, ls, ks)),
         UNCHANGED <<plan, claude, outbox, next, relayed, clearing>>,
         tg' \in [Key -> Shown], first' \in [Key -> Behavior \cup {"none"}],
         FreshOK(tg', first', next), Grows(tg, first, tg', first'),
         AgentOK(claude, ls, dialog, outbox), SameLinks(links, ls),
         \A c \in Conn : LinkOK(ls[c], dialog, tg', first'),
         b = [k \in Key |-> b[k]],
         \A k \in Key : PromptOK(b[k], tg'[k], first'[k]) /\ Becomes(book[k], b[k])
  PROVE  PromptsInv'
<1> DEFINE a == Pushed(b, ls, ks)
           x == [Now EXCEPT !.book = a]
<1>1. BookOK(b, ls, dialog, tg', first', next) BY BookKept, SameAll DEF PromptsInv
<1>2. \A c \in Conn : /\ LinkOK(links'[c], dialog, tg', first')
                      /\ links'[c].state = ls[c].state /\ links'[c].proc = ls[c].proc
  BY <1>1, QueuedOK
<1>3. links' \in [Conn -> Link] BY <1>2 DEF Queued, LinkOK
<1>4. SameLinks(links, links') /\ AgentOK(claude, links', dialog, outbox)
  BY <1>2 DEF SameLinks, AgentOK
<1>5. a = [k \in Key |-> a[k]] BY DEF Pushed
<1>6. ASSUME NEW k \in Key
      PROVE  PromptOK(a[k], tg'[k], first'[k]) /\ Becomes(book[k], a[k])
  <2>1. PromptOK(a[k], tg'[k], first'[k]) /\ Becomes(b[k], a[k]) BY PushedOK
  <2> HIDE DEF a
  <2>. QED BY <2>1, BecomesTransitive
<1>7. Pump(x) BY DEF Step
<1> HIDE DEF a
<1>8. x.book = a /\ x.waiter = waiter /\ x.hook \in [Dialog -> HookState]
      /\ x.asks \subseteq Dialog /\ x.hub \in HubState /\ x.hub = hub
      /\ AsksOK(x.hook, x.asks, dialog)
  BY NowFields
<1>9. relayed' \subseteq Dialog /\ clearing' \subseteq clearing
  BY DEF PromptsInv, StateTypes
<1> HIDE DEF x
<1>. QED BY <1>2, <1>3, <1>4, <1>5, <1>6, <1>7, <1>8, <1>9, BookStep

(* The messages stay.                                                      *)
LEMMA MessagesStay ==
  ASSUME PromptsInv, UNCHANGED <<tg, first>>
  PROVE  /\ tg' \in [Key -> Shown] /\ first' \in [Key -> Behavior \cup {"none"}]
         /\ FreshOK(tg', first', next) /\ Grows(tg, first, tg', first')
BY GrowsByNothing DEF PromptsInv, StateTypes

LEMMA BookStays ==
  ASSUME PromptsInv
  PROVE  /\ book = [k \in Key |-> book[k]]
         /\ \A k \in Key : PromptOK(book[k], tg[k], first[k]) /\ Becomes(book[k], book[k])
BY DEF PromptsInv, BookOK, Becomes

LEMMA TickKeeps ==
  ASSUME PromptsAssumption, PromptsInv, Tick
  PROVE  PromptsInv'
<1> DEFINE b == [k \in Key |-> IF book[k].edit = "Failed" THEN [book[k] EXCEPT !.edit = "Due"]
                               ELSE book[k]]
<1>1. /\ links' = Queued(b, links, Key) /\ Step(Pushed(b, links, Key))
      /\ UNCHANGED <<plan, claude, outbox, next, relayed, clearing, tg, first>>
  BY DEF Tick, others, telegram
<1>2. ASSUME NEW k \in Key
      PROVE  PromptOK(b[k], tg[k], first[k]) /\ Becomes(book[k], b[k])
  <2>1. PromptOK(book[k], tg[k], first[k]) /\ Becomes(book[k], book[k]) BY BookStays
  <2>2. CASE book[k].edit # "Failed" BY <2>1, <2>2
  <2>3. CASE book[k].edit = "Failed"
    <3> DEFINE p == book[k]
               q == [p EXCEPT !.edit = "Due"]
    <3>1. p \in Prompt BY <2>1 DEF PromptOK, OwnsButtons
    <3>2. /\ q \in Prompt /\ q.state = p.state /\ q.edit = "Due" /\ q.failures = p.failures
          /\ q.known = p.known /\ q.sent = p.sent /\ q.id = p.id /\ q.dialog = p.dialog
          /\ q.hook = p.hook /\ q.behavior = p.behavior /\ Asks(q) = Asks(p)
      BY <3>1 DEF Prompt, Asks, Edits
    <3>3. b[k] = q /\ PromptOK(p, tg[k], first[k]) /\ p.edit = "Failed" BY <2>1, <2>3
    <3> HIDE DEF p, q, b
    <3>4. p.state # "none" /\ ~Active(p) BY <3>3 DEF PromptOK, NoPrompt
    <3>5. PromptOK(b[k], tg[k], first[k]) /\ Becomes(p, b[k])
      BY <3>2, <3>3, <3>4 DEF PromptOK, Active, Becomes, OwnsButtons, Sending
    <3>. QED BY <3>5 DEF p
  <2>. QED BY <2>2, <2>3
<1>3. b = [k \in Key |-> b[k]] OBVIOUS
<1> HIDE DEF b
<1>4. AgentOK(claude, links, dialog, outbox) /\ SameLinks(links, links)
      /\ \A c \in Conn : LinkOK(links[c], dialog, tg', first')
  BY <1>1, SameAll DEF PromptsInv
<1>. QED BY <1>1, <1>2, <1>3, <1>4, MessagesStay, QueueStep

LEMMA LoseKeeps ==
  ASSUME PromptsAssumption, PromptsInv, NEW c \in Conn, Lose(c)
  PROVE  PromptsInv'
<1>1. /\ UNCHANGED <<claude, dialog, hook, outbox, plan, hub, book, next, asks, relayed, waiter,
                     clearing, tg, first>>
      /\ links[c].state = "open"
      /\ links' = [links EXCEPT ![c] = [links[c] EXCEPT !.state = "dead"]]
  BY DEF Lose, asker, actor, telegram
<1>2. /\ links \in [Conn -> Link] /\ claude \in Process /\ hook \in [Dialog -> HookState]
      /\ AgentOK(claude, links, dialog, outbox) /\ DialogsOK(dialog)
      /\ AnswersOK(dialog, tg, first)
  BY DEF PromptsInv, StateTypes
<1>3. /\ links' \in [Conn -> Link] /\ SameLinks(links, links')
      /\ \A e \in Conn : links'[e].down = links[e].down /\ links'[e].up = links[e].up
                         /\ links'[e].proc = links[e].proc
  <2>1. links' = [e \in Conn |-> links'[e]] BY <1>1, <1>2
  <2>2. \A e \in Conn : \/ links'[e] = links[e]
                        \/ links[e].state = "open" /\ links'[e] = [links[e] EXCEPT !.state = "dead"]
    BY <1>1, <1>2
  <2>. QED BY <2>1, <2>2, LinksOnly
<1>4. AgentOK(claude', links', dialog', outbox') BY <1>1, <1>2, <1>3 DEF AgentOK
<1>5. \A e \in Conn : LinkOK(links'[e], dialog', tg, first)
  BY <1>1, <1>3, LinksStay, SameAll
<1>6. HooksOK(hook', asks, waiter, book, dialog', hub) BY <1>1, HooksStay
<1>. QED BY <1>1, <1>2, <1>3, <1>4, <1>5, <1>6, AgentStep, SameAll

LEMMA TwinForgottenKeeps ==
  ASSUME PromptsAssumption, PromptsInv, NEW d \in Dialog, TwinForgotten(d)
  PROVE  PromptsInv'
BY DEF TwinForgotten, asker, telegram, PromptsInv, StateTypes

LEMMA ConnectKeeps ==
  ASSUME PromptsAssumption, PromptsInv, Connect
  PROVE  PromptsInv'
<1> DEFINE c == Newest + 1
           session == IF hub.proc = claude.proc THEN hub.session ELSE claude.env
           new == [NoLink EXCEPT !.state = "open", !.proc = claude.proc, !.session = session]
           ls == [i \in Conn |-> IF i = c THEN new
                                 ELSE IF links[i].state = "open"
                                 THEN [links[i] EXCEPT !.state = "dead"] ELSE links[i]]
           ks == OfSession(book, session)
<1>1. /\ claude.live /\ c \in Conn /\ links' = Queued(book, ls, ks)
      /\ Step(Pushed(book, ls, ks))
      /\ UNCHANGED <<plan, claude, outbox, next, relayed, clearing, tg, first>>
  BY DEF Connect, telegram
<1>2. /\ links \in [Conn -> Link] /\ claude \in Process /\ hub \in HubState
      /\ AgentOK(claude, links, dialog, outbox)
      /\ \A i \in Conn : LinkOK(links[i], dialog, tg, first)
  BY DEF PromptsInv, StateTypes
<1>3. links[c].state = "none"
  <2> DEFINE S == {0} \cup { i \in Conn : links[i].state # "none" }
  <2>1. S \in SUBSET (0 .. MaxConns) /\ S # {} BY DEF Conn, PromptsAssumption
  <2>2. Max(S) \in S /\ \A i \in S : Max(S) >= i
    <3> HIDE DEF S
    <3>. QED BY <2>1, GreatestLink
  <2>3. c = Max(S) + 1 BY DEF Newest
  <2>4. c \notin S
    <3> HIDE DEF S, c
    <3>1. PICK m \in 0 .. MaxConns : m = Max(S) BY <2>1, <2>2
    <3>. QED BY <2>2, <2>3, <3>1
  <2>. QED BY <1>1, <2>4
<1>4. new \in Link /\ new.state = "open" /\ new.proc = claude.proc /\ new.down = {} /\ new.up = <<>>
  <2>1. session \in Nat /\ claude.proc \in 0 .. MaxProcs BY <1>2 DEF HubState, Process
  <2> HIDE DEF session
  <2>2. {} \in SUBSET Sender /\ <<>> \in Seq(Frames) OBVIOUS
  <2>. QED BY <2>1, <2>2 DEF NoLink, Link
<1> HIDE DEF c, new, session
<1>5. ASSUME NEW i \in Conn, i # c
      PROVE  /\ ls[i] \in Link /\ ls[i].state # "open" /\ ls[i].proc = links[i].proc
             /\ ls[i].down = links[i].down /\ ls[i].up = links[i].up
             /\ ls[i].state = links[i].state
                \/ (links[i].state = "open" /\ ls[i].state = "dead")
  <2>1. links[i] \in Link BY <1>2
  <2>2. ls[i] = IF links[i].state = "open" THEN [links[i] EXCEPT !.state = "dead"] ELSE links[i]
    BY <1>5
  <2> HIDE DEF ls
  <2>. QED BY <2>1, <2>2 DEF Link
<1>6. ls[c] = new BY <1>1
<1>7. ls = [i \in Conn |-> ls[i]] OBVIOUS
<1> HIDE DEF ls
<1>8. SameLinks(links, ls) BY <1>3, <1>5 DEF SameLinks
<1>9. AgentOK(claude, ls, dialog, outbox) BY <1>1, <1>2, <1>4, <1>5, <1>6 DEF AgentOK
<1>10. ASSUME NEW i \in Conn PROVE LinkOK(ls[i], dialog, tg', first')
  BY <1>4, <1>6, <1>2, <1>1, <1>5 DEF LinkOK
<1>11. ks \in SUBSET Key BY DEF OfSession
<1> HIDE DEF ks
<1>12. \A k \in Key : PromptOK(book[k], tg'[k], first'[k]) /\ Becomes(book[k], book[k])
  BY <1>1, BookStays
<1>. QED BY <1>1, <1>8, <1>9, <1>10, <1>11, <1>12, BookStays, MessagesStay, QueueStep

LEMMA DisconnectedKeeps ==
  ASSUME PromptsAssumption, PromptsInv, NEW c \in Conn, Disconnected(c)
  PROVE  PromptsInv'
<1> DEFINE new == [NoLink EXCEPT !.state = "gone"]
           ls == [links EXCEPT ![c] = new]
           ks == OfSession(book, links[c].session)
<1>1. /\ links[c].state = "dead" /\ links' = Queued(book, ls, ks)
      /\ Step(Pushed(book, ls, ks))
      /\ UNCHANGED <<plan, claude, outbox, next, relayed, clearing, tg, first>>
  BY DEF Disconnected, telegram
<1>2. /\ links \in [Conn -> Link] /\ AgentOK(claude, links, dialog, outbox)
      /\ \A i \in Conn : LinkOK(links[i], dialog, tg, first)
  BY DEF PromptsInv, StateTypes
<1>3. new \in Link /\ new.state = "gone" /\ new.down = {} /\ new.up = <<>>
  <2>1. {} \in SUBSET Sender /\ <<>> \in Seq(Frames) /\ 0 \in 0 .. MaxProcs
    BY DEF PromptsAssumption
  <2>. QED BY <2>1 DEF NoLink, Link
<1> HIDE DEF new
<1>4. ls[c] = new /\ \A i \in Conn : i # c => ls[i] = links[i] BY <1>2
<1> HIDE DEF ls
<1>5. SameLinks(links, ls) BY <1>3, <1>4 DEF SameLinks
<1>6. AgentOK(claude, ls, dialog, outbox) BY <1>2, <1>3, <1>4 DEF AgentOK
<1>7. ASSUME NEW i \in Conn PROVE LinkOK(ls[i], dialog, tg', first')
  BY <1>3, <1>4, <1>1, <1>2 DEF LinkOK
<1>8. ks \in SUBSET Key BY DEF OfSession
<1> HIDE DEF ks
<1>9. \A k \in Key : PromptOK(book[k], tg'[k], first'[k]) /\ Becomes(book[k], book[k])
  BY <1>1, BookStays
<1>. QED BY <1>1, <1>5, <1>6, <1>7, <1>8, <1>9, BookStays, MessagesStay, QueueStep

LEMMA LearnKeeps ==
  ASSUME PromptsAssumption, PromptsInv, Learn
  PROVE  PromptsInv'
<1> DEFINE over == IF claude.live THEN {hub.session} \ {0, claude.session} ELSE {claude.session}
           h == [hub EXCEPT !.session = claude.session, !.proc = claude.proc,
                    !.ended = (@ \cup over) \ (IF claude.live THEN {claude.session} ELSE {})]
           a == Closes(book, h)
           x == [Now EXCEPT !.book = a, !.hub = h]
<1>1. /\ links' = [c \in Conn |->
           IF claude.live /\ links[c].state # "none" /\ links[c].proc = claude.proc
           THEN [links[c] EXCEPT !.session = claude.session] ELSE links[c]]
      /\ Pump(x)
      /\ UNCHANGED <<plan, claude, outbox, next, relayed, clearing, tg, first>>
  BY DEF Learn, telegram
<1>2. /\ links \in [Conn -> Link] /\ claude \in Process /\ hub \in HubState
      /\ AgentOK(claude, links, dialog, outbox)
      /\ relayed \subseteq Dialog
  BY DEF PromptsInv, StateTypes
<1>3. h \in HubState
  <2>1. over \subseteq Nat BY <1>2 DEF HubState, Process
  <2> DEFINE e == (hub.ended \cup over) \ (IF claude.live THEN {claude.session} ELSE {})
  <2>2. e \in SUBSET Nat BY <1>2, <2>1 DEF HubState
  <2>3. h = [hub EXCEPT !.session = claude.session, !.proc = claude.proc, !.ended = e]
    OBVIOUS
  <2> HIDE DEF over, e, h
  <2>4. claude.session \in Nat /\ claude.proc \in Nat BY <1>2 DEF Process
  <2>. QED BY <1>2, <2>2, <2>3, <2>4 DEF HubState
<1> HIDE DEF h
<1>4. /\ x.book = a /\ x.hub = h /\ x.waiter = waiter /\ x.hook \in [Dialog -> HookState]
      /\ x.asks \subseteq Dialog /\ AsksOK(x.hook, x.asks, dialog)
  BY DEF Now, PromptsInv, StateTypes, HooksOK
<1>5. ASSUME NEW c \in Conn
      PROVE  /\ links'[c] \in Link /\ links'[c].down = links[c].down
             /\ links'[c].up = links[c].up /\ links'[c].proc = links[c].proc
             /\ links'[c].state = links[c].state
  <2>1. links[c] \in Link /\ claude.session \in Nat BY <1>2 DEF Process
  <2>2. links'[c] \in {links[c], [links[c] EXCEPT !.session = claude.session]} BY <1>1
  <2>. QED BY <2>1, <2>2 DEF Link
<1>6. links' \in [Conn -> Link] BY <1>1, <1>5
<1>7. SameLinks(links, links') /\ AgentOK(claude, links', dialog, outbox)
  BY <1>2, <1>5 DEF SameLinks, AgentOK
<1>8. \A c \in Conn : LinkOK(links'[c], dialog, tg', first')
  <2>1. \A c \in Conn : LinkOK(links'[c], dialog, tg, first)
    BY <1>5, <1>6, <1>7, LinksStay, SameAll
  <2>. QED BY <1>1, <2>1
<1>9. ASSUME NEW k \in Key
      PROVE  PromptOK(a[k], tg'[k], first'[k]) /\ Becomes(book[k], a[k])
  <2>1. PromptOK(book[k], tg[k], first[k]) /\ Becomes(book[k], book[k]) BY BookStays
  <2>2. a[k] \in {book[k], Finish(book[k], "Closed")} BY DEF Closes
  <2> HIDE DEF a
  <2>3. PromptOK(a[k], tg[k], first[k]) /\ Becomes(book[k], a[k]) BY <2>1, <2>2, FinishOK
  <2>. QED BY <1>1, <2>3
<1>10. a = [k \in Key |-> a[k]] BY DEF Closes
<1>11. EndedOK(a, h)
  <2> SUFFICES ASSUME NEW k \in Key, Active(a[k]) PROVE a[k].session \notin h.ended
    BY DEF EndedOK
  <2>1. CASE book[k].session \in h.ended
    BY <2>1, BookStays DEF Closes, PromptOK, Finish, Active, Prompt, NoPrompt
  <2>2. CASE book[k].session \notin h.ended BY <2>2 DEF Closes
  <2>. QED BY <2>1, <2>2
<1> HIDE DEF a, x
<1>. QED BY <1>1, <1>2, <1>3, <1>4, <1>6, <1>7, <1>8, <1>9, <1>10, <1>11, MessagesStay, BookStep

(* A link whose first frame is read.                                       *)
LEMMA FrameRead ==
  ASSUME PromptsAssumption, PromptsInv, NEW c \in Conn, links[c].up # <<>>,
         links' = [links EXCEPT ![c].up = Tail(@)]
  PROVE  /\ links' \in [Conn -> Link] /\ SameLinks(links, links')
         /\ AgentOK(claude, links', dialog, outbox)
         /\ \A i \in Conn : LinkOK(links'[i], dialog, tg, first)
         /\ Head(links[c].up) \in Frames
         /\ RequestOK(Head(links[c].up), links[c].proc, dialog)
         /\ AckOK(Head(links[c].up), links[c].proc, dialog, tg)
         /\ \A i \in Conn : /\ links'[i].proc = links[i].proc
                            /\ \A j \in DOMAIN links'[i].up : \E h \in DOMAIN links[i].up :
                                 links'[i].up[j] = links[i].up[h]
         /\ links'[c].state = links[c].state /\ links'[c].proc = links[c].proc
<1> DEFINE up == links[c].up
           l == [links[c] EXCEPT !.up = Tail(up)]
<1>1. /\ links \in [Conn -> Link] /\ links[c] \in Link
      /\ AgentOK(claude, links, dialog, outbox)
      /\ \A i \in Conn : LinkOK(links[i], dialog, tg, first)
  BY DEF PromptsInv, StateTypes
<1>2. up \in Seq(Frames) /\ up # <<>> BY <1>1 DEF Link
<1>3. links' = [links EXCEPT ![c] = l] BY <1>1
<1>4. \A i \in DOMAIN up : /\ RequestOK(up[i], links[c].proc, dialog)
                           /\ AckOK(up[i], links[c].proc, dialog, tg)
  BY <1>1 DEF LinkOK
<1> HIDE DEF up
<1>5. /\ Tail(up) \in Seq(Frames) /\ Head(up) \in Frames /\ Head(up) = up[1] /\ 1 \in DOMAIN up
      /\ \A i \in DOMAIN Tail(up) : i + 1 \in DOMAIN up /\ Tail(up)[i] = up[i + 1]
  BY <1>2
<1>6. /\ l \in Link /\ l.state = links[c].state /\ l.proc = links[c].proc
      /\ l.down = links[c].down /\ l.up = Tail(up)
  BY <1>1, <1>5 DEF Link
<1> HIDE DEF l
<1>7. LinkOK(l, dialog, tg, first) BY <1>1, <1>4, <1>5, <1>6 DEF LinkOK
<1>8. links' \in [Conn -> Link] /\ SameLinks(links, links')
  BY <1>1, <1>3, <1>6 DEF SameLinks
<1>9. AgentOK(claude, links', dialog, outbox) BY <1>1, <1>3, <1>6 DEF AgentOK
<1>10. \A i \in Conn : LinkOK(links'[i], dialog, tg, first) BY <1>1, <1>3, <1>7
<1>11. /\ Head(up) \in Frames /\ RequestOK(Head(up), links[c].proc, dialog)
       /\ AckOK(Head(up), links[c].proc, dialog, tg)
  BY <1>4, <1>5
<1>12. ASSUME NEW i \in Conn
       PROVE  /\ links'[i].proc = links[i].proc
              /\ \A j \in DOMAIN links'[i].up : \E h \in DOMAIN links[i].up :
                   links'[i].up[j] = links[i].up[h]
  BY <1>1, <1>3, <1>5, <1>6 DEF up
<1>13. links'[c] = l BY <1>1, <1>3
<1>. QED BY <1>6, <1>8, <1>9, <1>10, <1>11, <1>12, <1>13 DEF up

(* A handler that changes prompts; the messages may change with it.        *)
LEMMA HandlerStep ==
  ASSUME PromptsAssumption, PromptsInv, NEW b, Step(b),
         UNCHANGED <<plan, claude, outbox, next, relayed, clearing, first>>,
         tg' \in [Key -> Shown], FreshOK(tg', first, next), Grows(tg, first, tg', first),
         links' \in [Conn -> Link], SameLinks(links, links'),
         AgentOK(claude, links', dialog, outbox),
         \A c \in Conn : LinkOK(links'[c], dialog, tg, first),
         b = [k \in Key |-> b[k]],
         \A k \in Key : PromptOK(b[k], tg'[k], first[k]) /\ Becomes(book[k], b[k])
  PROVE  PromptsInv'
<1> DEFINE x == [Now EXCEPT !.book = b]
<1>1. Pump(x) BY DEF Step
<1>2. /\ x.book = b /\ x.waiter = waiter /\ x.hook \in [Dialog -> HookState]
      /\ x.asks \subseteq Dialog /\ x.hub \in HubState /\ x.hub = hub
      /\ AsksOK(x.hook, x.asks, dialog)
  BY NowFields
<1>3. relayed' \subseteq Dialog /\ clearing' \subseteq clearing
      /\ first' \in [Key -> Behavior \cup {"none"}]
  BY DEF PromptsInv, StateTypes
<1>4. \A c \in Conn : LinkOK(links'[c], dialog, tg', first') BY LinkKept, SameAll
<1> HIDE DEF x
<1>. QED BY <1>1, <1>2, <1>3, <1>4, BookStep

LEMMA OnAckKeeps ==
  ASSUME PromptsAssumption, PromptsInv, NEW c \in Conn, OnAck(c)
  PROVE  PromptsInv'
<1> DEFINE m == Head(links[c].up)
           p == book[m.of]
           q == IF p.state = "Selected" /\ m.session = p.session THEN Finish(p, "Decided") ELSE p
           b == [book EXCEPT ![m.of] = q]
<1>1. /\ links[c].up # <<>> /\ m.kind = "ack" /\ Step(b)
      /\ links' = [links EXCEPT ![c].up = Tail(@)]
      /\ UNCHANGED <<plan, claude, outbox, next, relayed, clearing, tg, first>>
  BY DEF OnAck, telegram
<1>2. /\ links' \in [Conn -> Link] /\ SameLinks(links, links')
      /\ AgentOK(claude, links', dialog, outbox)
      /\ \A i \in Conn : LinkOK(links'[i], dialog, tg, first)
      /\ m \in Frames
  BY <1>1, FrameRead
<1>3. m.of \in Key
  <2> HIDE DEF m
  <2>. QED BY <1>1, <1>2 DEF Frames
<1> HIDE DEF m
<1>4. PromptOK(q, tg[m.of], first[m.of]) /\ Becomes(p, q)
  <2>1. PromptOK(p, tg[m.of], first[m.of]) /\ Becomes(p, p) BY <1>3, BookStays
  <2> HIDE DEF p
  <2>. QED BY <2>1, FinishOK
<1> HIDE DEF q
<1>5. b = [k \in Key |-> IF k = m.of THEN q ELSE book[k]] BY BookStays
<1> HIDE DEF b
<1>6. \A k \in Key : PromptOK(b[k], tg'[k], first[k]) /\ Becomes(book[k], b[k])
  BY <1>1, <1>3, <1>4, <1>5, BookStays
<1>7. b = [k \in Key |-> b[k]] BY <1>5
<1>. QED BY <1>1, <1>2, <1>6, <1>7, MessagesStay, HandlerStep

(* The links and the messages stay.                                        *)
LEMMA LinksKept ==
  ASSUME PromptsInv, UNCHANGED <<links, tg, first>>
  PROVE  /\ links' \in [Conn -> Link] /\ SameLinks(links, links')
         /\ AgentOK(claude, links', dialog, outbox)
         /\ \A c \in Conn : LinkOK(links'[c], dialog, tg', first')
BY SameAll DEF PromptsInv, StateTypes

LEMMA OnAskKeeps ==
  ASSUME PromptsAssumption, PromptsInv, NEW d \in Dialog, OnAsk(d)
  PROVE  PromptsInv'
<1> DEFINE twins == Twins(relayed, d, dialog[d].session)
           live == Live(hub, dialog[d].session)
           x == [Now EXCEPT !.hook[d] = "waiting",
                            !.asks = IF live /\ twins = {} THEN @ \cup {d} ELSE @]
<1>1. /\ relayed' = IF live THEN relayed \ OneOf(twins) ELSE relayed
      /\ Pump(x)
      /\ UNCHANGED <<plan, claude, outbox, next, clearing, links, tg, first>>
  BY DEF OnAsk, telegram
<1>2. relayed' \subseteq Dialog /\ clearing' \subseteq clearing
  BY <1>1 DEF PromptsInv, StateTypes
<1>3. /\ x.book = book /\ x.hub = hub /\ x.waiter = waiter
      /\ x.hook = [hook EXCEPT ![d] = "waiting"] /\ x.asks \subseteq asks \cup {d}
  BY DEF Now
<1>4. x.hook \in [Dialog -> HookState] /\ x.asks \subseteq Dialog /\ x.hub \in HubState
  BY <1>3 DEF PromptsInv, StateTypes, HookState
<1>5. \A k \in Key : PromptOK(book[k], tg'[k], first'[k]) /\ Becomes(book[k], book[k])
  BY <1>1, BookStays
<1>6. AsksOK(x.hook, x.asks, dialog)
  <2>1. AsksOK(hook, asks, dialog) /\ hook \in [Dialog -> HookState]
    BY DEF PromptsInv, HooksOK, StateTypes
  <2>2. hook[d] = "posting" BY DEF OnAsk
  <2> HIDE DEF x
  <2>. QED BY <1>3, <2>1, <2>2 DEF AsksOK
<1> HIDE DEF x
<1>. QED BY <1>1, <1>2, <1>3, <1>4, <1>5, <1>6, BookStays, LinksKept, MessagesStay, BookStep, ZenonT(60)

LEMMA HookOverKeeps ==
  ASSUME PromptsAssumption, PromptsInv, NEW d \in Dialog, HookOver(d)
  PROVE  PromptsInv'
<1> DEFINE x == [Now EXCEPT !.late = {d}]
<1>1. /\ Pump(x)
      /\ UNCHANGED <<plan, claude, outbox, next, relayed, clearing, links, tg, first>>
  BY DEF HookOver, telegram
<1>2. relayed' \subseteq Dialog /\ clearing' \subseteq clearing
  BY <1>1 DEF PromptsInv, StateTypes
<1>3. /\ x.book = book /\ x.hub \in HubState /\ x.waiter = waiter
      /\ x.hook \in [Dialog -> HookState] /\ x.asks \subseteq Dialog
      /\ x.hub = hub /\ AsksOK(x.hook, x.asks, dialog)
  BY DEF Now, PromptsInv, StateTypes, HooksOK
<1>4. \A k \in Key : PromptOK(book[k], tg'[k], first'[k]) /\ Becomes(book[k], book[k])
  BY <1>1, BookStays
<1> HIDE DEF x
<1>. QED BY <1>1, <1>2, <1>3, <1>4, BookStays, LinksKept, MessagesStay, BookStep

LEMMA CrashKeeps ==
  ASSUME PromptsAssumption, PromptsInv, Crash
  PROVE  PromptsInv'
<1>1. /\ UNCHANGED <<plan, claude, dialog, outbox, hub, next, tg, first>>
      /\ book' = [k \in Key |-> NoPrompt]
      /\ asks' = {} /\ relayed' = {} /\ waiter' = [d \in Dialog |-> 0] /\ clearing' = {}
      /\ hook' = [d \in Dialog |-> IF hook[d] \in {"posting", "waiting"} THEN "undecided"
                                   ELSE hook[d]]
      /\ links' = [c \in Conn |-> IF links[c].state = "none" THEN NoLink
                                  ELSE [NoLink EXCEPT !.state = "gone"]]
  BY DEF Crash, telegram
<1>2. ASSUME NEW c \in Conn
      PROVE  /\ links'[c] \in Link /\ links'[c].down = {} /\ links'[c].up = <<>>
             /\ links'[c].state \in {"none", "gone"}
  <2>1. {} \in SUBSET Sender /\ <<>> \in Seq(Frames) /\ 0 \in 0 .. MaxProcs
    BY DEF PromptsAssumption
  <2>. QED BY <1>1, <2>1 DEF NoLink, Link
<1>3. StateTypes'
  <2>1. links' \in [Conn -> Link] BY <1>1, <1>2
  <2>2. hook' \in [Dialog -> HookState] BY <1>1 DEF PromptsInv, StateTypes, HookState
  <2>3. waiter' \in [Dialog -> 0 .. Keys] BY <1>1 DEF PromptsAssumption
  <2>. QED BY <1>1, <2>1, <2>2, <2>3 DEF PromptsInv, StateTypes
<1>4. BookOK(book', links', dialog', tg', first', next')
  BY <1>1, NoPromptOK DEF BookOK, AskOK, NoPrompt
<1>5. Cardinality(InBook(book')) <= plan'.max
  <2>1. InBook(book') = {} BY <1>1 DEF InBook, NoPrompt
  <2>2. plan.max \in Nat BY DEF PromptsInv, StateTypes, PromptsAssumption
  <2>3. Cardinality(InBook(book')) = 0 BY <2>1, FS_EmptySet
  <2>4. plan'.max = plan.max BY <1>1
  <2>. QED BY <2>2, <2>3, <2>4
<1>6. WaitersOK(waiter', book', next') /\ ClearingOK(clearing', book', next')
  BY <1>1 DEF WaitersOK, ClearingOK
<1>7. DialogsOK(dialog') /\ AnswersOK(dialog', tg', first') /\ FreshOK(tg', first', next')
  BY <1>1 DEF PromptsInv
<1>8. \A c \in Conn : LinkOK(links'[c], dialog', tg', first') BY <1>2 DEF LinkOK
<1>9. AgentOK(claude', links', dialog', outbox') BY <1>1, <1>2 DEF PromptsInv, AgentOK
<1>10. HooksOK(hook', asks', waiter', book', dialog', hub')
  BY <1>1 DEF PromptsInv, StateTypes, HooksOK, AsksOK, EndedOK, Active, NoPrompt
<1>. QED BY <1>3, <1>4, <1>5, <1>6, <1>7, <1>8, <1>9, <1>10 DEF PromptsInv

----------------------------------------------------------------------------
(* Telegram.                                                               *)

(* A message shows what it did not, or something else.                     *)
LEMMA MessageShown ==
  ASSUME PromptsAssumption, PromptsInv, NEW k \in Key, k < next, NEW m \in Shown,
         m.shows # "none", tg' = [tg EXCEPT ![k] = m],
         tg[k].shows # "none" => m.dialog = tg[k].dialog
  PROVE  /\ tg' \in [Key -> Shown] /\ FreshOK(tg', first, next) /\ Grows(tg, first, tg', first)
BY DEF PromptsInv, StateTypes, FreshOK, Key, Grows

(* A key in use.                                                           *)
LEMMA KeyUsed ==
  ASSUME PromptsAssumption, PromptsInv, NEW k \in Key,
         book[k].state # "none" \/ tg[k].shows # "none"
  PROVE  k < next
BY DEF PromptsInv, BookOK, FreshOK, StateTypes, Key, PromptsAssumption, NoPrompt, NotShown

(* A step of Telegram alone.                                               *)
LEMMA ScreenStep ==
  ASSUME PromptsAssumption, PromptsInv,
         UNCHANGED <<plan, claude, dialog, hook, outbox, links, hub, book, next, asks, relayed,
                     waiter, first>>,
         clearing' \subseteq clearing,
         tg' \in [Key -> Shown], FreshOK(tg', first, next), Grows(tg, first, tg', first),
         \A k \in Key : PromptOK(book[k], tg'[k], first[k])
  PROVE  PromptsInv'
<1>1. /\ AnswersOK(dialog, tg, first) /\ DialogsOK(dialog) /\ ClearingOK(clearing, book, next)
      /\ BookOK(book, links, dialog, tg, first, next)
  BY DEF PromptsInv
<1>2. AnswersOK(dialog', tg', first') BY <1>1, AnswersKept
<1>3. \A c \in Conn : LinkOK(links'[c], dialog', tg', first')
  <2> SUFFICES ASSUME NEW c \in Conn PROVE LinkOK(links'[c], dialog', tg', first')
    OBVIOUS
  <2>1. LinkOK(links[c], dialog, tg, first) BY DEF PromptsInv
  <2>2. LinkOK(links[c], dialog, tg', first) BY <2>1, LinkKept, SameAll
  <2>. QED BY <2>2
<1>4. BookOK(book', links', dialog', tg', first', next') BY <1>1 DEF BookOK
<1>5. StateTypes' /\ ClearingOK(clearing', book', next')
  BY <1>1 DEF PromptsInv, StateTypes, ClearingOK
<1>. QED BY <1>1, <1>2, <1>3, <1>4, <1>5 DEF PromptsInv

LEMMA ShowsKeeps ==
  ASSUME PromptsAssumption, PromptsInv, NEW k \in Key, Shows(k)
  PROVE  PromptsInv'
<1> DEFINE p == book[k]
           m == [shows |-> "buttons", dialog |-> p.dialog, id |-> p.id]
<1>1. /\ UNCHANGED <<plan, claude, dialog, hook, outbox, links, hub, book, next, asks, relayed,
                     waiter, clearing, first>>
      /\ Sending(p) /\ tg[k].shows = "none" /\ tg' = [tg EXCEPT ![k] = m]
  BY DEF Shows, asker, actor
<1>2. PromptOK(p, tg[k], first[k]) /\ p \in Prompt BY BookStays DEF PromptOK, OwnsButtons
<1>3. m \in Shown /\ m.shows # "none" /\ m.dialog = p.dialog /\ m.id = p.id
  <2> HIDE DEF p
  <2>. QED BY <1>2 DEF Shown, Prompt
<1> HIDE DEF m
<1>4. p.state # "none" /\ p.sent /\ ~p.known
  <2> HIDE DEF p
  <2>. QED BY <1>1, <1>2 DEF PromptOK, Sending, NoPrompt
<1>5. k < next BY <1>4, KeyUsed
<1>6. tg' \in [Key -> Shown] /\ FreshOK(tg', first, next) /\ Grows(tg, first, tg', first)
  BY <1>1, <1>3, <1>5, MessageShown
<1>7. PromptOK(p, m, first[k])
  <2> HIDE DEF p
  <2>. QED BY <1>1, <1>2, <1>3, <1>4 DEF PromptOK, OwnsButtons
<1>8. ASSUME NEW j \in Key PROVE PromptOK(book[j], tg'[j], first[j])
  BY <1>1, <1>7, BookStays DEF PromptsInv, StateTypes
<1>. QED BY <1>1, <1>6, <1>8, ScreenStep

LEMMA OnClearedKeeps ==
  ASSUME PromptsAssumption, PromptsInv, NEW k \in Key, OnCleared(k)
  PROVE  PromptsInv'
<1> DEFINE m == [tg[k] EXCEPT !.shows = "Expired"]
<1>1. /\ UNCHANGED <<plan, claude, dialog, hook, outbox, links, hub, book, next, asks, relayed,
                     waiter, first>>
      /\ k \in clearing /\ clearing' \subseteq clearing
      /\ tg' = [tg EXCEPT ![k] = m]
  BY DEF OnCleared, asker
<1>2. k < next /\ book[k].state = "none" /\ tg[k] \in Shown
  BY <1>1 DEF PromptsInv, ClearingOK, StateTypes
<1>3. m \in Shown /\ m.shows # "none" /\ m.dialog = tg[k].dialog BY <1>2 DEF Shown, Kinds
<1> HIDE DEF m
<1>4. tg' \in [Key -> Shown] /\ FreshOK(tg', first, next) /\ Grows(tg, first, tg', first)
  BY <1>1, <1>2, <1>3, MessageShown
<1>5. ASSUME NEW j \in Key PROVE PromptOK(book[j], tg'[j], first[j])
  <2>1. tg'[j] = IF j = k THEN m ELSE tg[j] BY <1>1 DEF PromptsInv, StateTypes
  <2>2. book[k] = NoPrompt BY <1>2, BookStays DEF PromptOK, OwnsButtons
  <2>. QED BY <2>1, <2>2, BookStays, NoPromptOK
<1>. QED BY <1>1, <1>4, <1>5, ScreenStep

LEMMA OnSentKeeps ==
  ASSUME PromptsAssumption, PromptsInv, NEW k \in Key, NEW ok \in BOOLEAN, OnSent(k, ok)
  PROVE  PromptsInv'
<1> DEFINE p == book[k]
           q == IF ok THEN Delivered(p) ELSE NoPrompt
           b == [book EXCEPT ![k] = IF ok THEN Delivered(@) ELSE NoPrompt]
<1>1. /\ UNCHANGED <<plan, claude, outbox, next, relayed, clearing, links, tg, first>>
      /\ Step(b) /\ Sending(p)
  BY DEF OnSent, others, telegram
<1>2. b = [j \in Key |-> IF j = k THEN q ELSE book[j]] BY BookStays
<1>3. PromptOK(q, tg[k], first[k]) /\ Becomes(p, q)
  <2>1. PromptOK(p, tg[k], first[k]) BY BookStays
  <2>2. CASE ok
    <3>1. tg[k].shows # "none" BY <2>2 DEF OnSent
    <3>2. q = Delivered(p) BY <2>2
    <3> HIDE DEF p, q
    <3>. QED BY <1>1, <2>1, <3>1, <3>2, DeliveredOK
  <2>3. CASE ~ok
    <3>1. q = NoPrompt BY <2>3
    <3> HIDE DEF p, q
    <3>. QED BY <3>1, NoPromptOK DEF Becomes, NoPrompt, Active
  <2>. QED BY <2>2, <2>3
<1> HIDE DEF b, q
<1>4. b = [j \in Key |-> b[j]] BY <1>2
<1>5. \A j \in Key : PromptOK(b[j], tg'[j], first[j]) /\ Becomes(book[j], b[j])
  BY <1>1, <1>2, <1>3, BookStays
<1>6. /\ links' \in [Conn -> Link] /\ SameLinks(links, links')
      /\ AgentOK(claude, links', dialog, outbox)
      /\ \A c \in Conn : LinkOK(links'[c], dialog, tg, first)
  BY <1>1, LinksKept
<1>7. tg' \in [Key -> Shown] /\ FreshOK(tg', first, next) /\ Grows(tg, first, tg', first)
  BY <1>1, MessagesStay
<1>. QED BY <1>1, <1>4, <1>5, <1>6, <1>7, HandlerStep

LEMMA EditFailedOK ==
  ASSUME PromptsAssumption, NEW p, NEW t, NEW f, PromptOK(p, t, f), p.edit = "InFlight"
  PROVE  PromptOK(EditFailed(p), t, f) /\ Becomes(p, EditFailed(p))
<1> DEFINE q == EditFailed(p)
<1>1. p \in Prompt /\ p.state # "none" /\ ~Active(p) /\ p.known /\ p.failures < MaxEdits
  BY DEF PromptOK, NoPrompt
<1>2. MaxEdits \in Nat \ {0} /\ p.failures \in 0 .. MaxEdits
  BY <1>1 DEF Prompt, PromptsAssumption
<1>3. /\ q \in Prompt /\ q.state = p.state /\ q.failures = p.failures + 1
      /\ q.edit = IF p.failures + 1 >= MaxEdits THEN "Done" ELSE "Failed"
      /\ q.known = p.known /\ q.sent = p.sent /\ q.id = p.id /\ q.dialog = p.dialog
      /\ q.hook = p.hook /\ q.behavior = p.behavior /\ Asks(q) = Asks(p)
  <2> DEFINE e == IF p.failures + 1 >= MaxEdits THEN "Done" ELSE "Failed"
             n == p.failures + 1
  <2>1. q = [p EXCEPT !.failures = n, !.edit = e] BY DEF EditFailed
  <2>2. n \in 0 .. MaxEdits /\ e \in Edits BY <1>1, <1>2 DEF Edits
  <2> HIDE DEF q, n, e
  <2>3. /\ q \in Prompt /\ q.state = p.state /\ q.failures = n /\ q.edit = e
        /\ q.known = p.known /\ q.sent = p.sent /\ q.id = p.id /\ q.dialog = p.dialog
        /\ q.hook = p.hook /\ q.behavior = p.behavior /\ Asks(q) = Asks(p)
    BY <1>1, <2>1, <2>2 DEF Prompt, Asks
  <2>. QED BY <2>3 DEF n, e
<1>4. EditFailed(p) = q OBVIOUS
<1> HIDE DEF q
<1>5. q.edit # "Done" => q.failures < MaxEdits BY <1>2, <1>3
<1>6. /\ t.shows # "none" => t.id = p.id /\ t.dialog = p.dialog
      /\ p.sent /\ t.shows # "none"
      /\ p.behavior # "none" => f = p.behavior
      /\ p.state # "Open" /\ p.state # "Selected"
  BY <1>1 DEF PromptOK, Active, OwnsButtons, Sending
<1>7. OwnsButtons(q) BY <1>3, <1>2 DEF Prompt, PromptsAssumption, OwnsButtons
<1>8. PromptOK(q, t, f) BY <1>1, <1>3, <1>5, <1>6, <1>7 DEF PromptOK, Active
<1>. QED BY <1>1, <1>3, <1>4, <1>8 DEF Becomes, Active

(* The last edit takes the buttons, or fails.                              *)
LEMMA EditedOK ==
  ASSUME PromptsAssumption, PromptsInv, NEW k \in Key, NEW ok \in BOOLEAN, OnEdited(k, ok)
  PROVE  LET b == [book EXCEPT ![k] = IF ok THEN [@ EXCEPT !.edit = "Done"] ELSE EditFailed(@)]
         IN  /\ b = [j \in Key |-> b[j]]
             /\ \A j \in Key : PromptOK(b[j], tg'[j], first[j]) /\ Becomes(book[j], b[j])
             /\ tg' \in [Key -> Shown] /\ FreshOK(tg', first, next) /\ Grows(tg, first, tg', first)
<1> DEFINE p == book[k]
           q == IF ok THEN [p EXCEPT !.edit = "Done"] ELSE EditFailed(p)
           b == [book EXCEPT ![k] = IF ok THEN [@ EXCEPT !.edit = "Done"] ELSE EditFailed(@)]
           m == [tg[k] EXCEPT !.shows = IF ok THEN p.state ELSE @]
<1>1. p.edit = "InFlight" BY DEF OnEdited
<1>2. tg' = [tg EXCEPT ![k] = m] BY DEF OnEdited
<1>3. b = [j \in Key |-> IF j = k THEN q ELSE book[j]] BY BookStays
<1>4. PromptOK(p, tg[k], first[k]) BY BookStays
<1>5. p \in Prompt /\ p.state # "none" /\ ~Active(p) /\ p.known /\ tg[k].shows # "none" /\ p.sent
      /\ tg[k].id = p.id /\ tg[k].dialog = p.dialog
  <2> HIDE DEF p
  <2>. QED BY <1>1, <1>4 DEF PromptOK, NoPrompt
<1>6. tg[k] \in Shown /\ k < next BY <1>5, KeyUsed DEF PromptsInv, StateTypes
<1>7. /\ m \in Shown /\ m.shows # "none" /\ m.dialog = tg[k].dialog /\ m.id = tg[k].id
      /\ ok => m.shows # "buttons"
  BY <1>5, <1>6 DEF Shown, Prompt, Kinds
<1> HIDE DEF m
<1>8. tg' \in [Key -> Shown] /\ FreshOK(tg', first, next) /\ Grows(tg, first, tg', first)
  BY <1>2, <1>6, <1>7, MessageShown
<1>9. PromptOK(p, m, first[k])
  <2>1. OwnsButtons(p) BY <1>1 DEF OwnsButtons
  <2> HIDE DEF p
  <2>. QED BY <1>4, <1>5, <1>7, <2>1 DEF PromptOK
<1>10. PromptOK(q, m, first[k]) /\ Becomes(p, q)
  <2>1. CASE ~ok
    <3>1. q = EditFailed(p) BY <2>1
    <3> HIDE DEF p, q
    <3>. QED BY <1>1, <1>9, <3>1, EditFailedOK
  <2>2. CASE ok
    <3>1. q = [p EXCEPT !.edit = "Done"] BY <2>2
    <3> HIDE DEF p, q
    <3>2. /\ q \in Prompt /\ q.state = p.state /\ q.edit = "Done" /\ q.failures = p.failures
          /\ q.known = p.known /\ q.sent = p.sent /\ q.id = p.id /\ q.dialog = p.dialog
          /\ q.hook = p.hook /\ q.behavior = p.behavior /\ Asks(q) = Asks(p)
      BY <1>5, <3>1 DEF Prompt, Asks, Edits
    <3>3. m.shows # "buttons" BY <1>7, <2>2
    <3>. QED BY <1>5, <1>9, <3>2, <3>3 DEF PromptOK, Active, Becomes
  <2>. QED BY <2>1, <2>2
<1> HIDE DEF b, q
<1>11. b = [j \in Key |-> b[j]] BY <1>3
<1>12. ASSUME NEW j \in Key
       PROVE  PromptOK(b[j], tg'[j], first[j]) /\ Becomes(book[j], b[j])
  BY <1>2, <1>3, <1>10, BookStays DEF PromptsInv, StateTypes
<1>. QED BY <1>8, <1>11, <1>12 DEF b

LEMMA OnEditedKeeps ==
  ASSUME PromptsAssumption, PromptsInv, NEW k \in Key, NEW ok \in BOOLEAN, OnEdited(k, ok)
  PROVE  PromptsInv'
<1> DEFINE b == [book EXCEPT ![k] = IF ok THEN [@ EXCEPT !.edit = "Done"] ELSE EditFailed(@)]
<1>1. /\ UNCHANGED <<plan, claude, outbox, next, relayed, clearing, links, first>> /\ Step(b)
  BY DEF OnEdited, others
<1>2. /\ b = [j \in Key |-> b[j]]
      /\ \A j \in Key : PromptOK(b[j], tg'[j], first[j]) /\ Becomes(book[j], b[j])
      /\ tg' \in [Key -> Shown] /\ FreshOK(tg', first, next) /\ Grows(tg, first, tg', first)
  BY EditedOK
<1> HIDE DEF b
<1>3. /\ links' \in [Conn -> Link] /\ SameLinks(links, links')
      /\ AgentOK(claude, links', dialog, outbox)
      /\ \A c \in Conn : LinkOK(links'[c], dialog, tg, first)
  BY <1>1, SameAll DEF PromptsInv, StateTypes
<1>. QED BY <1>1, <1>2, <1>3, HandlerStep

(* A pressed message is found under its own key.                           *)
LEMMA PressedOwn ==
  ASSUME PromptsAssumption, PromptsInv, NEW k \in Key, tg[k].shows # "none", ~Stray(k),
         NEW j \in Pressed(k)
  PROVE  j = k
<1> DEFINE out == InFlight(tg[k].id)
<1>1. CASE book[k].known BY <1>1 DEF Pressed
<1>2. CASE ~book[k].known
  <2>1. Cardinality(out) = 1 /\ j \in out BY <1>2 DEF Pressed
  <2>2. book[k].state # "none" BY <2>1 DEF Stray
  <2>3. book[k].sent /\ tg[k].id = book[k].id
    BY <2>2, BookStays DEF PromptOK, OwnsButtons
  <2>4. k \in out BY <1>2, <2>3 DEF InFlight, Sending
  <2>5. IsFiniteSet(Key) BY FS_Interval, SMTT(30) DEF Key, PromptsAssumption
  <2>6. IsFiniteSet(out) BY <2>5, FS_Subset DEF InFlight
  <2> HIDE DEF out
  <2>7. \E x : out = {x} BY <2>1, <2>6, FS_Singleton
  <2>. QED BY <2>1, <2>4, <2>7
<1>. QED BY <1>1, <1>2

(* An open prompt ends with the press, or for want of its hook.            *)
LEMMA FinishPressedOK ==
  ASSUME PromptsAssumption, NEW p \in Prompt, NEW t, NEW f, p.state = "Open",
         p.edit = "None", p.failures = 0, t.shows # "none", p.sent,
         t.id = p.id, t.dialog = p.dialog, p.behavior # "none" => f = p.behavior,
         NEW state \in {"Decided", "Expired"}
  PROVE  PromptOK(Finish(p, state), t, f) /\ Becomes(p, Finish(p, state))
<1>1. Active(p) /\ 0 < MaxEdits BY DEF Active, PromptsAssumption
<1>2. CASE p.known
  <2> DEFINE q == [p EXCEPT !.state = state, !.edit = "Due"]
  <2>1. Finish(p, state) = q BY <1>1, <1>2 DEF Finish
  <2>2. /\ q \in Prompt /\ q.state = state /\ q.edit = "Due" /\ q.failures = p.failures
        /\ q.known = p.known /\ q.sent = p.sent /\ q.id = p.id /\ q.dialog = p.dialog
        /\ q.behavior = p.behavior /\ Asks(q) = Asks(p)
    BY DEF Prompt, Kinds, Edits, Asks
  <2> HIDE DEF q
  <2>. QED BY <1>1, <1>2, <2>1, <2>2 DEF PromptOK, Active, Becomes, OwnsButtons, Sending
<1>3. CASE ~p.known
  <2> DEFINE q == [p EXCEPT !.state = state]
  <2>1. Finish(p, state) = q BY <1>1, <1>3 DEF Finish
  <2>2. /\ q \in Prompt /\ q.state = state /\ q.edit = p.edit /\ q.failures = p.failures
        /\ q.known = p.known /\ q.sent = p.sent /\ q.id = p.id /\ q.dialog = p.dialog
        /\ q.behavior = p.behavior /\ Asks(q) = Asks(p)
    BY DEF Prompt, Kinds, Edits, Asks
  <2> HIDE DEF q
  <2>. QED BY <1>1, <1>3, <2>1, <2>2 DEF PromptOK, Active, Becomes, OwnsButtons, Sending
<1>. QED BY <1>2, <1>3

(* What a press makes of the prompt, and of the press that counted.        *)
LEMMA PressOK ==
  ASSUME PromptsAssumption, PromptsInv, NEW k \in Key, NEW b \in Behavior, tg[k].shows # "none",
         NEW q, NEW g,
         q = IF book[k].hook /\ book[k].state = "Open" THEN HookPressed(k, b)
             ELSE Selected(book[k], b),
         g = IF first[k] = "none" /\ book[k].state = "Open" THEN b ELSE first[k]
  PROVE  PromptOK(q, tg[k], g) /\ Becomes(book[k], q)
<1> DEFINE p == book[k]
<1>1. PromptOK(p, tg[k], first[k]) /\ p \in Prompt /\ b # "none"
  BY BookStays DEF PromptOK, PromptsAssumption
<1>2. CASE p.state # "Open" BY <1>2, <1>1 DEF Selected, Becomes
<1>3. CASE p.state = "Open"
  <2>1. /\ p.behavior = "none" /\ first[k] = "none" /\ p.edit = "None" /\ p.failures = 0
        /\ p.sent /\ tg[k].id = p.id /\ tg[k].dialog = p.dialog
    <3> HIDE DEF p
    <3>. QED BY <1>1, <1>3 DEF PromptOK, Active, OwnsButtons, Sending
  <2>2. g = b BY <1>3, <2>1
  <2> DEFINE r == [p EXCEPT !.behavior = b]
             s == [p EXCEPT !.state = "Selected", !.behavior = b]
  <2>3. /\ r \in Prompt /\ r.state = p.state /\ r.edit = p.edit /\ r.failures = p.failures
        /\ r.known = p.known /\ r.sent = p.sent /\ r.id = p.id /\ r.dialog = p.dialog
        /\ r.behavior = b /\ Asks(r) = Asks(p)
    <3> HIDE DEF p
    <3>. QED BY <1>1 DEF Prompt, Asks
  <2>4. CASE q = Finish(r, "Decided")
    <3> HIDE DEF r, p
    <3>1. /\ r.state = "Open" /\ r.edit = "None" /\ r.failures = 0 /\ r.sent
          /\ tg[k].id = r.id /\ tg[k].dialog = r.dialog /\ r.behavior = b /\ r \in Prompt
      BY <1>3, <2>1, <2>3
    <3>2. PromptOK(q, tg[k], b) /\ Becomes(r, q) BY <2>4, <3>1, FinishPressedOK
    <3>. QED BY <1>3, <2>2, <2>3, <3>2 DEF Becomes, Active, p
  <2>5. CASE q = Finish(p, "Expired")
    <3> HIDE DEF r, p
    <3>1. PromptOK(q, tg[k], b) /\ Becomes(p, q)
      BY <1>1, <1>3, <2>1, <2>5, FinishPressedOK
    <3>. QED BY <2>2, <3>1 DEF p
  <2>6. CASE ~p.hook /\ q = s
    <3>1. /\ s \in Prompt /\ s.state = "Selected" /\ s.edit = p.edit /\ s.failures = p.failures
          /\ s.known = p.known /\ s.sent = p.sent /\ s.id = p.id /\ s.dialog = p.dialog
          /\ s.behavior = b /\ Asks(s) = Asks(p) /\ s.hook = p.hook
      <4> HIDE DEF p
      <4>. QED BY <1>1 DEF Prompt, Kinds, Asks
    <3> HIDE DEF s, p
    <3>2. PromptOK(s, tg[k], b)
      BY <1>1, <1>3, <2>1, <2>6, <3>1 DEF PromptOK, Active, OwnsButtons, Sending
    <3>3. Becomes(p, s) BY <1>3, <3>1 DEF Becomes, Active
    <3>. QED BY <2>2, <2>6, <3>2, <3>3 DEF p
  <2>7. q \in {Finish(r, "Decided"), Finish(p, "Expired")} \/ (~p.hook /\ q = s)
    BY <1>3 DEF HookPressed, Selected
  <2>. QED BY <2>4, <2>5, <2>6, <2>7
<1>. QED BY <1>2, <1>3

LEMMA OnCallbackKeeps ==
  ASSUME PromptsAssumption, PromptsInv, NEW k \in Key, NEW b \in Behavior, NEW room \in BOOLEAN,
         OnCallback(k, b, room)
  PROVE  PromptsInv'
<1>1. /\ UNCHANGED <<plan, claude, outbox, next, relayed, clearing, tg>>
      /\ tg[k].shows # "none" /\ ~Stray(k)
  BY DEF OnCallback, others
<1>2. CASE Step(book) /\ UNCHANGED <<links, first>>
  BY <1>1, <1>2, LinksKept, BookStays, MessagesStay, HandlerStep
<1>3. ASSUME NEW j \in Pressed(k), NEW c, NEW ks,
             c = [book EXCEPT ![j] = IF book[j].hook /\ book[j].state = "Open"
                                     THEN HookPressed(j, b) ELSE Selected(@, b)],
             ks = IF room THEN {j} ELSE {},
             links' = Queued(c, links, ks), Step(Pushed(c, links, ks)),
             first' = [first EXCEPT ![k] =
                         IF @ = "none" /\ book[j].state = "Open" THEN b ELSE @]
      PROVE  PromptsInv'
  <2>1. j = k BY <1>1, PressedOwn
  <2> DEFINE q == IF book[k].hook /\ book[k].state = "Open" THEN HookPressed(k, b)
                  ELSE Selected(book[k], b)
             g == IF first[k] = "none" /\ book[k].state = "Open" THEN b ELSE first[k]
  <2>2. c = [i \in Key |-> IF i = k THEN q ELSE book[i]] BY <1>3, <2>1, BookStays
  <2>3. first' = [first EXCEPT ![k] = g] /\ first \in [Key -> Behavior \cup {"none"}]
    BY <1>3, <2>1 DEF PromptsInv, StateTypes
  <2>4. PromptOK(q, tg[k], g) /\ Becomes(book[k], q) BY <1>1, PressOK
  <2>5. g \in Behavior \cup {"none"} /\ (first[k] # "none" => g = first[k]) BY <2>3
  <2> HIDE DEF q, g
  <2>6. first' \in [Key -> Behavior \cup {"none"}] BY <2>3, <2>5
  <2>7. \A i \in Key : PromptOK(c[i], tg'[i], first'[i]) /\ Becomes(book[i], c[i])
    BY <1>1, <2>2, <2>3, <2>4, BookStays
  <2>8. c = [i \in Key |-> c[i]] BY <2>2
  <2>9. k < next BY <1>1, KeyUsed
  <2>10. FreshOK(tg', first', next)
    BY <1>1, <2>3, <2>9 DEF PromptsInv, StateTypes, PromptsAssumption, FreshOK, Key
  <2>11. Grows(tg, first, tg', first') BY <1>1, <2>3, <2>5 DEF Grows
  <2>12. \A i \in Conn : LinkOK(links[i], dialog, tg', first')
    BY <2>11, LinkKept, SameAll DEF PromptsInv
  <2>13. ks \in SUBSET Key /\ tg' \in [Key -> Shown]
    BY <1>1, <1>3, <2>1 DEF PromptsInv, StateTypes
  <2>14. AgentOK(claude, links, dialog, outbox) /\ SameLinks(links, links)
    BY SameAll DEF PromptsInv
  <2>15. links' = Queued(c, links, ks) /\ Step(Pushed(c, links, ks)) BY <1>3
  <2>. QED BY <1>1, <2>6, <2>7, <2>8, <2>10, <2>11, <2>12, <2>13, <2>14, <2>15, QueueStep
<1>. QED BY <1>2, <1>3 DEF OnCallback

----------------------------------------------------------------------------
(* A prompt opens.                                                         *)

LEMMA LeastVictim ==
  ASSUME PromptsAssumption, NEW S \in SUBSET Key, S # {}
  PROVE  Min(S) \in S
BY LeastKey DEF Key, PromptsAssumption, Min

LEMMA OpenedFits ==
  ASSUME PromptsAssumption, PromptsInv, NEW p, Opens(book, p), next \in Key
  PROVE  Cardinality(InBook(Opened(book, p))) <= plan.max
<1> DEFINE b == Opened(book, p)
           B == InBook(book)
<1>1. IsFiniteSet(B) /\ IsFiniteSet(InBook(b))
  <2>1. IsFiniteSet(Key) BY FS_Interval DEF Key, PromptsAssumption
  <2>. QED BY <2>1, FS_Subset DEF InBook
<1>2. Cardinality(B) \in Nat /\ plan.max \in Nat /\ Cardinality(B) <= plan.max
  BY <1>1, FS_CardinalityType DEF PromptsInv, StateTypes, PromptsAssumption
<1>3. next \notin B
  BY DEF PromptsInv, StateTypes, BookOK, NoPrompt, InBook, PromptsAssumption
<1>4. CASE ~Crowded(book)
  <2>1. InBook(b) \subseteq B \cup {next} BY <1>4 DEF Opened, InBook
  <2>2. Cardinality(B \cup {next}) = Cardinality(B) + 1 /\ IsFiniteSet(B \cup {next})
    <3> HIDE DEF B
    <3>. QED BY <1>1, <1>3, FS_AddElement
  <2>3. Cardinality(InBook(b)) <= Cardinality(B \cup {next}) /\ Cardinality(InBook(b)) \in Nat
    <3> HIDE DEF B, b
    <3>. QED BY <1>1, <2>1, <2>2, FS_Subset, FS_CardinalityType
  <2>4. Cardinality(B) < plan.max BY <1>2, <1>4 DEF Crowded
  <2> HIDE DEF B, b
  <2>5. Cardinality(InBook(b)) <= plan.max BY <1>2, <2>2, <2>3, <2>4
  <2>. QED BY <2>5 DEF b
<1>5. CASE Crowded(book)
  <2> DEFINE m == Min(Victims(book))
  <2>1. Victims(book) \in SUBSET B /\ Victims(book) # {}
    BY <1>5 DEF Opens, Victims, Finished, Expirable, InBook
  <2>2. m \in B
    <3>1. B \in SUBSET Key BY DEF InBook
    <3> HIDE DEF B
    <3>. QED BY <2>1, <3>1, LeastVictim
  <2>3. InBook(b) \subseteq (B \ {m}) \cup {next} BY <1>5 DEF Opened, InBook, NoPrompt
  <2> HIDE DEF B, b, m
  <2>4. Cardinality(B \ {m}) = Cardinality(B) - 1 /\ IsFiniteSet(B \ {m})
    BY <1>1, <2>2, FS_RemoveElement
  <2>5. /\ Cardinality((B \ {m}) \cup {next}) = Cardinality(B \ {m}) + 1
        /\ IsFiniteSet((B \ {m}) \cup {next})
    BY <1>3, <2>4, FS_AddElement
  <2>6. Cardinality(InBook(b)) <= Cardinality((B \ {m}) \cup {next})
    BY <1>1, <2>3, <2>5, FS_Subset
  <2>7. Cardinality(InBook(b)) \in Nat BY <1>1, FS_CardinalityType
  <2>8. Cardinality(InBook(b)) <= plan.max BY <1>2, <2>4, <2>5, <2>6, <2>7
  <2>. QED BY <2>8 DEF b
<1>. QED BY <1>4, <1>5

(* A prompt as it is asked for.                                            *)
NewOK(p) ==
  /\ p \in Prompt /\ p.state = "Open" /\ p.behavior = "none" /\ p.edit = "None" /\ p.failures = 0
  /\ ~p.known /\ ~p.sent

LEMMA OpenedOK ==
  ASSUME PromptsAssumption, PromptsInv, NEW p, NewOK(p), Opens(book, p), next \in Key,
         NEW m, SameLinks(links, m), AskOK(p, m, dialog)
  PROVE  /\ BookOK(Opened(book, p), m, dialog, tg, first, next + 1)
         /\ WaitersOK(waiter, Opened(book, p), next + 1)
         /\ ClearingOK(clearing \cup Cleared(book), Opened(book, p), next + 1)
         /\ clearing \cup Cleared(book) \subseteq Key
         /\ FreshOK(tg, first, next + 1) /\ next + 1 \in 1 .. Keys + 1
         /\ Opened(book, p)[next] = p
<1> DEFINE b == Opened(book, p)
<1>1. /\ BookOK(book, links, dialog, tg, first, next) /\ WaitersOK(waiter, book, next)
      /\ ClearingOK(clearing, book, next) /\ clearing \subseteq Key
      /\ FreshOK(tg, first, next) /\ Keys \in Nat
  BY DEF PromptsInv, StateTypes, PromptsAssumption
<1>2. \A k \in Key : k \in Nat BY DEF Key
<1>3. /\ b = [k \in Key |-> b[k]] /\ b[next] = p
      /\ \A k \in Key : k # next => b[k] = book[k] \/ b[k] = NoPrompt
      /\ \A k \in Cleared(book) : k \in Key /\ (k # next => b[k] = NoPrompt) /\ book[k] # NoPrompt
  BY DEF Opened, Cleared, Active, NoPrompt
<1> HIDE DEF b
<1>4. PromptOK(p, tg[next], first[next])
  BY <1>1, <1>2 DEF FreshOK, NotShown, PromptsAssumption, NewOK, PromptOK, Active
<1>5. ASSUME NEW k \in Key PROVE PromptOK(b[k], tg[k], first[k]) /\ AskOK(b[k], m, dialog)
  <2>1. CASE k = next BY <1>3, <1>4, <2>1
  <2>2. CASE b[k] = NoPrompt
    <3>1. PromptOK(NoPrompt, tg[k], first[k]) BY NoPromptOK
    <3>2. AskOK(NoPrompt, m, dialog) BY DEF AskOK, NoPrompt
    <3>. QED BY <2>2, <3>1, <3>2
  <2>3. CASE b[k] = book[k] BY <1>1, SameAll, AskKept, <2>3 DEF BookOK, Becomes
  <2>. QED BY <1>3, <2>1, <2>2, <2>3
<1>6. \A k \in Key : k >= next + 1 => b[k] = NoPrompt BY <1>1, <1>2, <1>3 DEF BookOK
<1>7. BookOK(b, m, dialog, tg, first, next + 1) BY <1>3, <1>5, <1>6 DEF BookOK
<1>8. WaitersOK(waiter, b, next + 1) BY <1>1, <1>2, <1>3 DEF WaitersOK, NoPrompt
<1>9. Cleared(book) \subseteq Key /\ \A k \in Cleared(book) : k < next /\ b[k].state = "none"
  <2> SUFFICES ASSUME NEW k \in Cleared(book) PROVE k \in Key /\ k < next /\ b[k].state = "none"
    OBVIOUS
  <2>1. k \in Key /\ book[k] # NoPrompt /\ (k # next => b[k] = NoPrompt) BY <1>3
  <2>2. k < next BY <1>1, <1>2, <2>1 DEF BookOK
  <2>. QED BY <1>2, <2>1, <2>2 DEF NoPrompt
<1>10. ClearingOK(clearing \cup Cleared(book), b, next + 1)
  BY <1>1, <1>2, <1>3, <1>9 DEF ClearingOK, NoPrompt
<1>11. FreshOK(tg, first, next + 1) BY <1>1, <1>2 DEF FreshOK
<1>12. next + 1 \in 1 .. Keys + 1 BY <1>1 DEF Key
<1>. QED BY <1>1, <1>3, <1>7, <1>8, <1>9, <1>10, <1>11, <1>12 DEF b

LEMMA OpenedLive ==
  ASSUME PromptsInv, NEW p, p.session \notin hub.ended
  PROVE  EndedOK(Opened(book, p), hub)
BY DEF PromptsInv, HooksOK, Opened, EndedOK, Active, NoPrompt

LEMMA FewerAsks ==
  ASSUME PromptsInv, NEW a, a \subseteq asks
  PROVE  AsksOK(hook, a, dialog)
BY DEF PromptsInv, HooksOK, AsksOK

(* A prompt that a link asks for.                                          *)
LEMMA RequestedOK ==
  ASSUME PromptsAssumption, PromptsInv, NEW c \in Conn, links[c].up # <<>>, NEW m \in Frames,
         m.kind = "request", RequestOK(m, links[c].proc, dialog), NEW ls,
         ls[c].state = links[c].state, ls[c].proc = links[c].proc
  PROVE  LET p == NewPrompt(m.of, c, m.session)
         IN  NewOK(p) /\ AskOK(p, ls, dialog) /\ p.session = m.session /\ m.of \in Dialog
<1> DEFINE p == NewPrompt(m.of, c, m.session)
<1>1. m.of \in Dialog /\ m.session \in Nat /\ dialog[m.of].id # None
      /\ dialog[m.of].proc = links[c].proc
  BY DEF Frames, RequestOK
<1>2. /\ links[c] \in Link /\ links[c].state # "none" /\ dialog[m.of] \in DialogState
      /\ c # 0 /\ MaxEdits \in Nat /\ c \in 0 .. MaxConns
  BY <1>1 DEF PromptsInv, DialogsOK, LinkOK, Conn, PromptsAssumption
<1>3. p = [NoPrompt EXCEPT !.dialog = m.of, !.conn = c, !.proc = links[c].proc,
                           !.session = m.session, !.id = dialog[m.of].id, !.hook = FALSE,
                           !.state = "Open"]
  BY <1>2 DEF NewPrompt
<1> HIDE DEF p
<1>4. p = [dialog |-> m.of, conn |-> c, proc |-> links[c].proc, session |-> m.session,
           id |-> dialog[m.of].id, hook |-> FALSE, sent |-> FALSE, known |-> FALSE,
           state |-> "Open", behavior |-> "none", edit |-> "None", failures |-> 0]
  BY <1>3 DEF NoPrompt
<1>5. NewOK(p) BY <1>2, <1>1, <1>4 DEF Link, DialogState, NewOK, Prompt, Kinds, Edits
<1>6. AskOK(p, ls, dialog) BY <1>1, <1>2, <1>4 DEF AskOK
<1>. QED BY <1>1, <1>4, <1>5, <1>6 DEF p

(* A prompt that a hook asks for.                                          *)
LEMMA WindowedOK ==
  ASSUME PromptsAssumption, PromptsInv, NEW d \in Dialog, NEW id \in HookId
  PROVE  LET p == [NewPrompt(d, 0, dialog[d].session) EXCEPT !.id = id]
         IN  NewOK(p) /\ p.hook /\ p.dialog = d /\ p.session = dialog[d].session
<1> DEFINE q == NewPrompt(d, 0, dialog[d].session)
           p == [q EXCEPT !.id = id]
<1>1. q = [NoPrompt EXCEPT !.dialog = d, !.conn = 0, !.proc = 0,
                           !.session = dialog[d].session, !.id = dialog[d].id,
                           !.hook = TRUE, !.state = "Open"]
  BY DEF NewPrompt
<1> HIDE DEF q
<1>2. q = [dialog |-> d, conn |-> 0, proc |-> 0, session |-> dialog[d].session,
           id |-> dialog[d].id, hook |-> TRUE, sent |-> FALSE, known |-> FALSE,
           state |-> "Open", behavior |-> "none", edit |-> "None", failures |-> 0]
  BY <1>1 DEF NoPrompt
<1>3. p = [dialog |-> d, conn |-> 0, proc |-> 0, session |-> dialog[d].session,
           id |-> id, hook |-> TRUE, sent |-> FALSE, known |-> FALSE,
           state |-> "Open", behavior |-> "none", edit |-> "None", failures |-> 0]
  <2>1. p = [q EXCEPT !.id = id] OBVIOUS
  <2> HIDE DEF p
  <2>. QED BY <1>2, <2>1
<1> HIDE DEF p
<1>4. /\ dialog[d].session \in Nat /\ 0 \in 0 .. MaxConns /\ 0 \in 0 .. MaxProcs
      /\ 0 \in 0 .. MaxEdits
  BY DEF PromptsInv, DialogsOK, DialogState, PromptsAssumption
<1>5. NewOK(p) /\ p.hook /\ p.dialog = d /\ p.session = dialog[d].session
  BY <1>3, <1>4 DEF NewOK, Prompt, Kinds, Edits
<1>. QED BY <1>5 DEF p, q

LEMMA OnRequestKeeps ==
  ASSUME PromptsAssumption, PromptsInv, NEW c \in Conn, OnRequest(c)
  PROVE  PromptsInv'
<1> DEFINE m == Head(links[c].up)
           p == NewPrompt(m.of, c, m.session)
           twins == Twins(asks, m.of, m.session)
           x == [Now EXCEPT !.book = Opened(book, p), !.asks = asks \ OneOf(twins)]
<1>1. /\ links[c].up # <<>> /\ m.kind = "request" /\ next \in Key
      /\ links' = [links EXCEPT ![c].up = Tail(@)]
      /\ UNCHANGED <<plan, claude, outbox, tg, first>>
  BY DEF OnRequest, telegram
<1>2. /\ links' \in [Conn -> Link] /\ SameLinks(links, links')
      /\ AgentOK(claude, links', dialog, outbox)
      /\ \A i \in Conn : LinkOK(links'[i], dialog, tg, first)
      /\ m \in Frames /\ RequestOK(m, links[c].proc, dialog)
      /\ links'[c].state = links[c].state /\ links'[c].proc = links[c].proc
  BY <1>1, FrameRead
<1>3. CASE Step(book) /\ UNCHANGED <<next, relayed, clearing>>
  <2>1. \A k \in Key : PromptOK(book[k], tg'[k], first[k]) /\ Becomes(book[k], book[k])
    BY <1>1, BookStays
  <2>2. tg' \in [Key -> Shown] /\ FreshOK(tg', first, next) /\ Grows(tg, first, tg', first)
    BY <1>1, MessagesStay
  <2> HIDE DEF m
  <2>. QED BY <1>1, <1>2, <1>3, <2>1, <2>2, BookStays, HandlerStep
<1>4. CASE /\ Opens(book, p) /\ next' = next + 1 /\ clearing' = clearing \cup Cleared(book)
           /\ relayed' = (IF twins = {} THEN relayed \cup {m.of} ELSE relayed) /\ Pump(x)
           /\ m.session \notin hub.ended
  <2>1. NewOK(p) /\ AskOK(p, links', dialog) /\ p.session = m.session /\ m.of \in Dialog
    BY <1>1, <1>2, RequestedOK
  <2> HIDE DEF m, p
  <2>7. /\ BookOK(Opened(book, p), links', dialog, tg, first, next + 1)
        /\ WaitersOK(waiter, Opened(book, p), next + 1)
        /\ ClearingOK(clearing \cup Cleared(book), Opened(book, p), next + 1)
        /\ clearing \cup Cleared(book) \subseteq Key
        /\ FreshOK(tg, first, next + 1) /\ next + 1 \in 1 .. Keys + 1
    BY <1>1, <1>2, <1>4, <2>1, OpenedOK
  <2>8. Cardinality(InBook(Opened(book, p))) <= plan.max BY <1>1, <1>4, OpenedFits
  <2>9. /\ x.book = Opened(book, p) /\ x.waiter = waiter /\ x.hook = hook /\ x.hub = hub
        /\ x.asks \subseteq asks
    BY DEF Now
  <2>10. /\ waiter \in [Dialog -> 0 .. Keys] /\ hook \in [Dialog -> HookState]
         /\ hub \in HubState /\ asks \subseteq Dialog /\ relayed' \subseteq Dialog
         /\ tg \in [Key -> Shown] /\ first \in [Key -> Behavior \cup {"none"}]
    BY <1>4, <2>1 DEF PromptsInv, StateTypes
  <2>11. Pump(x) /\ next' = next + 1 /\ clearing' = clearing \cup Cleared(book) BY <1>4
  <2> HIDE DEF x, twins
  <2>12. Grows(tg, first, tg', first') BY <1>1, GrowsByNothing
  <2>13. /\ FreshOK(tg', first', next') /\ clearing' \subseteq Key
         /\ ClearingOK(clearing', x.book, next') /\ next' \in 1 .. Keys + 1
         /\ BookOK(x.book, links', dialog, tg', first', next')
         /\ WaitersOK(x.waiter, x.book, next') /\ Cardinality(InBook(x.book)) <= plan.max
         /\ \A i \in Conn : LinkOK(links'[i], dialog, tg', first')
    BY <1>1, <1>2, <2>7, <2>8, <2>9, <2>11
  <2>14. /\ x.waiter \in [Dialog -> 0 .. Keys] /\ x.hook \in [Dialog -> HookState]
         /\ x.asks \subseteq Dialog /\ x.hub \in HubState
         /\ tg' \in [Key -> Shown] /\ first' \in [Key -> Behavior \cup {"none"}]
    BY <1>1, <2>9, <2>10
  <2>15. EndedOK(x.book, x.hub) /\ AsksOK(x.hook, x.asks, dialog)
    BY <1>4, <2>1, <2>9, OpenedLive, FewerAsks
  <2>. QED BY <1>1, <1>2, <2>10, <2>11, <2>12, <2>13, <2>14, <2>15, PumpStep
<1>. QED BY <1>3, <1>4 DEF OnRequest

LEMMA WindowOverKeeps ==
  ASSUME PromptsAssumption, PromptsInv, NEW d \in Dialog, NEW id \in plan.ids, WindowOver(d, id)
  PROVE  PromptsInv'
<1> DEFINE p == [NewPrompt(d, 0, dialog[d].session) EXCEPT !.id = id]
           x == [Now EXCEPT !.book = Opened(book, p), !.asks = @ \ {d}, !.waiter[d] = next]
           y == [Now EXCEPT !.asks = @ \ {d}]
<1>1. /\ next \in Key
      /\ UNCHANGED <<plan, claude, outbox, links, relayed, tg, first>>
  BY DEF WindowOver, telegram
<1>2. /\ links' \in [Conn -> Link] /\ SameLinks(links, links')
      /\ AgentOK(claude, links', dialog, outbox)
      /\ \A i \in Conn : LinkOK(links'[i], dialog, tg', first')
  BY <1>1, LinksKept
<1>3. /\ waiter \in [Dialog -> 0 .. Keys] /\ hook \in [Dialog -> HookState]
      /\ hub \in HubState /\ asks \subseteq Dialog /\ relayed' \subseteq Dialog
      /\ tg' \in [Key -> Shown] /\ first' \in [Key -> Behavior \cup {"none"}]
      /\ WaitersOK(waiter, book, next) /\ dialog[d] \in DialogState
      /\ id \in HookId /\ Keys \in Nat
  BY <1>1 DEF PromptsInv, StateTypes, DialogsOK, PromptsAssumption
<1>4. CASE Pump(y) /\ UNCHANGED <<next, clearing>>
  <2>1. /\ y.book = book /\ y.waiter = waiter /\ y.hook = hook /\ y.hub = hub
        /\ y.asks \subseteq asks
    BY DEF Now
  <2>2. \A k \in Key : PromptOK(book[k], tg'[k], first'[k]) /\ Becomes(book[k], book[k])
    BY <1>1, BookStays
  <2>3. FreshOK(tg', first', next) /\ Grows(tg, first, tg', first') BY <1>1, MessagesStay
  <2>4. y.asks \subseteq Dialog /\ y.hook \in [Dialog -> HookState] /\ y.hub \in HubState
    BY <1>3, <2>1
  <2>5. y.book = [k \in Key |-> y.book[k]] BY <2>1, BookStays
  <2>6. AsksOK(y.hook, y.asks, dialog) BY <2>1, FewerAsks
  <2> HIDE DEF y
  <2>. QED BY <1>1, <1>2, <1>3, <1>4, <2>1, <2>2, <2>3, <2>4, <2>5, <2>6, BookStep
<1>5. CASE /\ Opens(book, p) /\ next' = next + 1 /\ clearing' = clearing \cup Cleared(book)
           /\ Pump(x)
  <2>2. NewOK(p) /\ p.hook /\ p.dialog = d /\ p.session = dialog[d].session
    BY <1>3, WindowedOK
  <2> HIDE DEF p
  <2>3. AskOK(p, links', dialog) BY <2>2 DEF AskOK
  <2>4. /\ BookOK(Opened(book, p), links', dialog, tg, first, next + 1)
        /\ WaitersOK(waiter, Opened(book, p), next + 1)
        /\ ClearingOK(clearing \cup Cleared(book), Opened(book, p), next + 1)
        /\ clearing \cup Cleared(book) \subseteq Key
        /\ FreshOK(tg, first, next + 1) /\ next + 1 \in 1 .. Keys + 1
        /\ Opened(book, p)[next] = p
    BY <1>1, <1>2, <1>5, <2>2, <2>3, OpenedOK
  <2>5. Cardinality(InBook(Opened(book, p))) <= plan.max BY <1>1, <1>5, OpenedFits
  <2>6. /\ x.book = Opened(book, p) /\ x.waiter = [waiter EXCEPT ![d] = next] /\ x.hook = hook
        /\ x.hub = hub /\ x.asks \subseteq asks
    BY DEF Now
  <2>7. Pump(x) /\ next' = next + 1 /\ clearing' = clearing \cup Cleared(book) BY <1>5
  <2> HIDE DEF x
  <2>8. x.waiter \in [Dialog -> 0 .. Keys] BY <1>1, <1>3, <2>6 DEF Key
  <2>9. WaitersOK(x.waiter, x.book, next + 1)
    BY <1>1, <1>3, <2>2, <2>4, <2>6 DEF Key, WaitersOK
  <2>10. Grows(tg, first, tg', first') BY <1>1, GrowsByNothing
  <2>11. /\ FreshOK(tg', first', next') /\ clearing' \subseteq Key
         /\ ClearingOK(clearing', x.book, next') /\ next' \in 1 .. Keys + 1
         /\ BookOK(x.book, links', dialog, tg', first', next')
         /\ WaitersOK(x.waiter, x.book, next') /\ Cardinality(InBook(x.book)) <= plan.max
    BY <1>1, <2>4, <2>5, <2>6, <2>7, <2>9
  <2>12. x.hook \in [Dialog -> HookState] /\ x.asks \subseteq Dialog /\ x.hub \in HubState
    BY <1>3, <2>6
  <2>13. EndedOK(x.book, x.hub) /\ AsksOK(x.hook, x.asks, dialog)
    BY <2>2, <2>6, OpenedLive, FewerAsks DEF WindowOver, PromptsInv, HooksOK
  <2>. QED BY <1>1, <1>2, <1>3, <2>7, <2>8, <2>10, <2>11, <2>12, <2>13, PumpStep
<1>. QED BY <1>4, <1>5 DEF WindowOver

----------------------------------------------------------------------------
(* The theorems.                                                           *)

LEMMA NextKeeps ==
  ASSUME PromptsAssumption, PromptsInv, [Next]_vars
  PROVE  PromptsInv'
<1>1. CASE ClaudeStep
  BY <1>1, AskKeeps, TerminalKeeps, ClearKeeps, ExitKeeps, StartKeeps, RelayKeeps, AgentTakesKeeps
     DEF ClaudeStep
<1>2. CASE HubStep
  BY LearnKeeps, ConnectKeeps, TickKeeps, CrashKeeps, LoseKeeps, DisconnectedKeeps,
     OnRequestKeeps, OnAckKeeps, OnAskKeeps, TwinForgottenKeeps, HookOverKeeps, WindowOverKeeps,
     <1>2 DEF HubStep
<1>3. CASE TelegramStep
  BY ShowsKeeps, OnClearedKeeps, OnSentKeeps, OnEditedKeeps, OnCallbackKeeps, <1>3
     DEF TelegramStep
<1>4. CASE UNCHANGED vars BY <1>4 DEF vars, asker, telegram, PromptsInv, StateTypes
<1>. QED BY <1>1, <1>2, <1>3, <1>4 DEF Next

(* Every reachable state keeps what PromptsInv says.                       *)
THEOREM PromptsInvariance == Spec => []PromptsInv
<1>1. Init => PromptsInv BY InitHolds, PromptsAssumption
<1>2. PromptsInv /\ [Next]_vars => PromptsInv' BY NextKeeps, PromptsAssumption
<1>. QED BY <1>1, <1>2, PTL DEF Spec

(* The book never holds more prompts than MAX_PROMPTS, and every part of   *)
(* the hub's state has its type.                                           *)
THEOREM TypeCorrect == Spec => []TypeOK
<1>1. PromptsInv => TypeOK
  <2> SUFFICES ASSUME PromptsInv PROVE TypeOK
    OBVIOUS
  <2>1. book \in [Key -> Prompt] BY DEF PromptsInv, BookOK, PromptOK
  <2>. QED BY <2>1 DEF PromptsInv, StateTypes, TypeOK, HookState
<1>. QED BY <1>1, PromptsInvariance, PTL

(* A dialog answered from Telegram got the press that counted on a message *)
(* of its own: through the book, a link that may be a later one, and the   *)
(* agent, whatever the ids of other processes and however often it went.   *)
THEOREM AnswerPressed == Spec => []AnswerIsPressed
<1>1. PromptsInv => AnswerIsPressed
  BY DEF PromptsInv, AnswersOK, PressedFor, AnswerIsPressed
<1>. QED BY <1>1, PromptsInvariance, PTL

(* A hook that waits is an ask, or waits for a prompt of its own dialog    *)
(* that can still be answered: whatever ends a prompt, makes room in the   *)
(* book or ends a session lets go of the hook in the same step.            *)
THEOREM HookIsHeld == Spec => []HookHeld
<1>1. PromptsInv => HookHeld BY DEF PromptsInv, HooksOK, HookHeld
<1>. QED BY <1>1, PromptsInvariance, PTL

(* Buttons that show belong to a prompt that waits for them, or their last *)
(* edit is still owed: none is left behind by an end, a failed edit or a   *)
(* send that came back late.                                               *)
THEOREM ButtonsAreOwned == Spec => []ButtonsOwned
<1>1. PromptsInv => ButtonsOwned
  BY DEF PromptsInv, BookOK, PromptOK, ButtonsOwned, OwnsButtons
<1>. QED BY <1>1, PromptsInvariance, PTL

(* A fixed answer is of a prompt that is shown and waits for no hook.      *)
LEMMA FixedPrompt ==
  ASSUME PromptsAssumption, PromptsInv, NEW k \in Key, book[k].state = "Selected"
  PROVE  /\ PromptOK(book[k], tg[k], first[k]) /\ book[k] \in Prompt /\ book[k].sent
         /\ tg[k].shows # "none" /\ book[k].edit = "None" /\ k < next
         /\ \A d \in Dialog : waiter[d] # k
<1> DEFINE p == book[k]
<1>1. PromptOK(p, tg[k], first[k]) BY BookStays
<1>2. /\ p \in Prompt /\ p.behavior # "none" /\ ~p.hook /\ p.edit = "None"
      /\ tg[k].shows # "none" /\ p.sent
  <2>1. p.state = "Selected" /\ "none" \notin Behavior BY DEF PromptsAssumption
  <2> HIDE DEF p
  <2>. QED BY <1>1, <2>1 DEF PromptOK, Active, OwnsButtons, Sending
<1>3. k < next BY KeyUsed
<1>4. \A d \in Dialog : waiter[d] # k BY <1>2 DEF PromptsInv, WaitersOK, Key
<1>. QED BY <1>1, <1>2, <1>3, <1>4

(* The pump leaves a fixed answer, and one that was taken.                 *)
LEMMA PumpLeaves ==
  ASSUME NEW x, NEW k \in Key, NEW q, x.book[k] = q, q \in Prompt, q.sent,
         q.state \in {"Selected", "Decided"}, \A d \in Dialog : x.waiter[d] # k, Pump(x)
  PROVE  book'[k].state = q.state /\ book'[k].behavior = q.behavior
BY DEF HookChecked, Sent, Pump, Pumped, EditSent, Prompt

Kept(p, q) == q.state \in {"Selected", "Decided"} /\ q.behavior = p.behavior

LEMMA DecidedKept ==
  ASSUME NEW p \in Prompt, p.sent, p.state = "Selected"
  PROVE  /\ Finish(p, "Decided") \in Prompt /\ Finish(p, "Decided").sent
         /\ Finish(p, "Decided").state \in {"Selected", "Decided"}
         /\ Finish(p, "Decided").behavior = p.behavior
<1>1. CASE p.known
  <2> DEFINE q == [p EXCEPT !.state = "Decided", !.edit = "Due"]
  <2>1. Finish(p, "Decided") = q BY <1>1 DEF Finish, Active
  <2>2. q \in Prompt /\ q.sent /\ q.state = "Decided" /\ q.behavior = p.behavior
    BY DEF Prompt, Kinds, Edits
  <2> HIDE DEF q
  <2>. QED BY <2>1, <2>2
<1>2. CASE ~p.known
  <2> DEFINE q == [p EXCEPT !.state = "Decided"]
  <2>1. Finish(p, "Decided") = q BY <1>2 DEF Finish, Active
  <2>2. q \in Prompt /\ q.sent /\ q.state = "Decided" /\ q.behavior = p.behavior
    BY DEF Prompt, Kinds
  <2> HIDE DEF q
  <2>. QED BY <2>1, <2>2
<1>. QED BY <1>1, <1>2

(* A handler that leaves the answer, or takes it as given, then the pump.  *)
LEMMA KeptStep ==
  ASSUME PromptsAssumption, PromptsInv, NEW k \in Key, book[k].state = "Selected",
         NEW x, Pump(x), x.book[k] \in {book[k], Finish(book[k], "Decided")},
         \A d \in Dialog : x.waiter[d] # k
  PROVE  Kept(book[k], book'[k])
<1> DEFINE p == book[k]
           q == x.book[k]
<1>1. p \in Prompt /\ p.sent /\ p.state = "Selected" BY FixedPrompt
<1>2. q \in Prompt /\ q.sent /\ q.state \in {"Selected", "Decided"} /\ q.behavior = p.behavior
  <2>1. q \in {p, Finish(p, "Decided")} OBVIOUS
  <2> HIDE DEF p, q
  <2>. QED BY <1>1, <2>1, DecidedKept
<1>3. x.book[k] = q OBVIOUS
<1> HIDE DEF q
<1>4. book'[k].state = q.state /\ book'[k].behavior = q.behavior
  BY <1>2, <1>3, PumpLeaves
<1>. QED BY <1>2, <1>4 DEF Kept

LEMMA KeptByStep ==
  ASSUME PromptsAssumption, PromptsInv, NEW k \in Key, book[k].state = "Selected",
         NEW b, Step(b), b[k] \in {book[k], Finish(book[k], "Decided")}
  PROVE  Kept(book[k], book'[k])
<1> DEFINE x == [Now EXCEPT !.book = b]
<1>1. Pump(x) BY DEF Step
<1>2. x.book = b /\ x.waiter = waiter BY DEF Now
<1> HIDE DEF x
<1>. QED BY <1>1, <1>2, FixedPrompt, KeptStep

LEMMA KeptByPush ==
  ASSUME PromptsAssumption, PromptsInv, NEW k \in Key, book[k].state = "Selected",
         NEW b, NEW ls, NEW ks, Step(Pushed(b, ls, ks)), b[k] = book[k]
  PROVE  Kept(book[k], book'[k])
BY KeptByStep DEF Pushed

(* A prompt that makes room has no fixed answer.                           *)
LEMMA NoVictim ==
  ASSUME PromptsAssumption, PromptsInv, NEW k \in Key, book[k].state = "Selected",
         NEW p, Opens(book, p)
  PROVE  Opened(book, p)[k] = book[k]
<1>1. k # next BY FixedPrompt DEF PromptsInv, StateTypes, PromptsAssumption
<1>2. CASE ~Crowded(book) BY <1>1, <1>2 DEF Opened
<1>3. CASE Crowded(book)
  <2>1. Victims(book) \in SUBSET Key /\ Victims(book) # {} BY <1>3 DEF Opens, Victims
  <2>2. Min(Victims(book)) \in Victims(book)
    <3> DEFINE S == Victims(book)
    <3> HIDE DEF S
    <3>1. S \in SUBSET Key /\ S # {} => Min(S) \in S BY LeastVictim
    <3>. QED BY <2>1, <3>1 DEF S
  <2>3. k \notin Victims(book) BY DEF Victims, Finished, Expirable
  <2>. QED BY <1>1, <2>2, <2>3 DEF Opened
<1>. QED BY <1>2, <1>3

LEMMA HubKeepsFixed ==
  ASSUME PromptsAssumption, PromptsInv, HubStep, NEW k \in Key, book[k].state = "Selected",
         ~Crash, book[k].session \notin hub'.ended
  PROVE  Kept(book[k], book'[k])
<1> DEFINE p == book[k]
<1>1. /\ p \in Prompt /\ p.edit = "None" /\ k < next /\ \A d \in Dialog : waiter[d] # k
      /\ book = [j \in Key |-> book[j]]
  BY FixedPrompt, BookStays
<1>2. CASE Learn
  <2> DEFINE over == IF claude.live THEN {hub.session} \ {0, claude.session}
                     ELSE {claude.session}
             h == [hub EXCEPT !.session = claude.session, !.proc = claude.proc,
                      !.ended = (@ \cup over) \ (IF claude.live THEN {claude.session} ELSE {})]
             x == [Now EXCEPT !.book = Closes(book, h), !.hub = h]
  <2>1. Pump(x) BY <1>2 DEF Learn
  <2> HIDE DEF h
  <2>2. x.book = Closes(book, h) /\ x.hub = h /\ x.waiter = waiter BY DEF Now
  <2> HIDE DEF x
  <2>3. hub' = h BY <2>1, <2>2 DEF Pump
  <2>4. x.book[k] = p BY <2>2, <2>3 DEF Closes
  <2>. QED BY <1>1, <2>1, <2>2, <2>4, KeptStep
<1>3. CASE Connect
  <2>1. PICK ls, ks : Step(Pushed(book, ls, ks)) BY <1>3 DEF Connect
  <2>. QED BY <2>1, KeptByPush
<1>4. ASSUME NEW c \in Conn, Disconnected(c) PROVE Kept(p, book'[k])
  <2>1. PICK ls, ks : Step(Pushed(book, ls, ks)) BY <1>4 DEF Disconnected
  <2>. QED BY <2>1, KeptByPush
<1>5. CASE Tick
  <2> DEFINE b == [j \in Key |-> IF book[j].edit = "Failed" THEN [book[j] EXCEPT !.edit = "Due"]
                                 ELSE book[j]]
  <2>1. Step(Pushed(b, links, Key)) BY <1>5 DEF Tick
  <2>2. b[k] = p BY <1>1
  <2> HIDE DEF b
  <2>. QED BY <2>1, <2>2, KeptByPush
<1>6. ASSUME NEW c \in Conn, OnAck(c) PROVE Kept(p, book'[k])
  <2> DEFINE m == Head(links[c].up)
             q == IF book[m.of].state = "Selected" /\ m.session = book[m.of].session
                  THEN Finish(book[m.of], "Decided") ELSE book[m.of]
             b == [book EXCEPT ![m.of] = q]
  <2>1. Step(b) BY <1>6 DEF OnAck
  <2>2. b[k] \in {p, Finish(p, "Decided")}
    <3> HIDE DEF m
    <3>1. CASE k = m.of
      <4>1. b[k] = q
        <5> HIDE DEF q
        <5>. QED BY <1>1, <3>1
      <4> HIDE DEF b
      <4>. QED BY <3>1, <4>1
    <3>2. CASE k # m.of
      <4> HIDE DEF q
      <4>. QED BY <1>1, <3>2
    <3>. QED BY <3>1, <3>2
  <2> HIDE DEF b
  <2>. QED BY <2>1, <2>2, KeptByStep
<1>7. ASSUME NEW c \in Conn, OnRequest(c) PROVE Kept(p, book'[k])
  <2> DEFINE m == Head(links[c].up)
             n == NewPrompt(m.of, c, m.session)
             twins == Twins(asks, m.of, m.session)
             x == [Now EXCEPT !.book = Opened(book, n), !.asks = asks \ OneOf(twins)]
  <2>1. Step(book) \/ (Opens(book, n) /\ Pump(x)) BY <1>7 DEF OnRequest
  <2>2. CASE Step(book) BY <2>2, KeptByStep
  <2>3. CASE Opens(book, n) /\ Pump(x)
    <3> HIDE DEF n, twins
    <3>1. x.book = Opened(book, n) /\ x.waiter = waiter BY DEF Now
    <3> HIDE DEF x
    <3>. QED BY <1>1, <2>3, <3>1, NoVictim, KeptStep
  <2>. QED BY <2>1, <2>2, <2>3
<1>8. ASSUME NEW d \in Dialog, OnAsk(d) PROVE Kept(p, book'[k])
  <2>1. PICK a : Pump([Now EXCEPT !.hook[d] = "waiting", !.asks = a])
    BY <1>8 DEF OnAsk, Now
  <2> DEFINE x == [Now EXCEPT !.hook[d] = "waiting", !.asks = a]
  <2>2. x.book = book /\ x.waiter = waiter BY DEF Now
  <2>3. Pump(x) BY <2>1
  <2> HIDE DEF x
  <2>. QED BY <1>1, <2>2, <2>3, KeptStep
<1>9. ASSUME NEW d \in Dialog, HookOver(d) PROVE Kept(p, book'[k])
  <2> DEFINE x == [Now EXCEPT !.late = {d}]
  <2>1. Pump(x) BY <1>9 DEF HookOver
  <2>2. x.book = book /\ x.waiter = waiter BY DEF Now
  <2> HIDE DEF x
  <2>. QED BY <1>1, <2>1, <2>2, KeptStep
<1>10. ASSUME NEW d \in Dialog, NEW id \in plan.ids, WindowOver(d, id) PROVE Kept(p, book'[k])
  <2> DEFINE n == [NewPrompt(d, 0, dialog[d].session) EXCEPT !.id = id]
             x == [Now EXCEPT !.book = Opened(book, n), !.asks = @ \ {d}, !.waiter[d] = next]
             y == [Now EXCEPT !.asks = @ \ {d}]
  <2>1. Pump(y) \/ (Opens(book, n) /\ Pump(x)) BY <1>10 DEF WindowOver
  <2>2. CASE Pump(y)
    <3>1. y.book = book /\ y.waiter = waiter BY DEF Now
    <3> HIDE DEF y
    <3>. QED BY <1>1, <2>2, <3>1, KeptStep
  <2>3. CASE Opens(book, n) /\ Pump(x)
    <3> HIDE DEF n
    <3>1. x.book = Opened(book, n) /\ x.waiter = [waiter EXCEPT ![d] = next] BY DEF Now
    <3> HIDE DEF x
    <3>2. next # k BY <1>1 DEF Key, PromptsInv, StateTypes
    <3>3. \A e \in Dialog : x.waiter[e] # k
      BY <1>1, <3>1, <3>2 DEF PromptsInv, StateTypes
    <3>. QED BY <2>3, <3>1, <3>3, NoVictim, KeptStep, ZenonT(60)
  <2>. QED BY <2>1, <2>2, <2>3
<1>11. ASSUME UNCHANGED book PROVE Kept(p, book'[k]) BY <1>11 DEF Kept
<1>12. ASSUME NEW c \in Conn, Lose(c) PROVE UNCHANGED book BY <1>12 DEF Lose, actor
<1>13. ASSUME NEW d \in Dialog, TwinForgotten(d) PROVE UNCHANGED book
  BY <1>13 DEF TwinForgotten
<1>. QED BY <1>2, <1>3, <1>4, <1>5, <1>6, <1>7, <1>8, <1>9, <1>10, <1>11, <1>12, <1>13
     DEF HubStep

LEMMA TelegramKeepsFixed ==
  ASSUME PromptsAssumption, PromptsInv, ~LostAnswers, TelegramStep,
         NEW k \in Key, book[k].state = "Selected"
  PROVE  Kept(book[k], book'[k])
<1> DEFINE p == book[k]
<1>1. /\ PromptOK(p, tg[k], first[k]) /\ p \in Prompt /\ p.edit = "None"
      /\ tg[k].shows # "none" /\ book = [j \in Key |-> book[j]]
  BY FixedPrompt, BookStays
<1>2. ASSUME NEW j \in Key, Shows(j) \/ OnCleared(j) PROVE Kept(p, book'[k])
  BY <1>2 DEF Shows, OnCleared, actor, Kept
<1>3. ASSUME NEW j \in Key, NEW ok \in BOOLEAN, OnSent(j, ok) PROVE Kept(p, book'[k])
  <2> DEFINE b == [book EXCEPT ![j] = IF ok THEN Delivered(@) ELSE NoPrompt]
  <2>1. Step(b) /\ Sending(book[j]) BY <1>3 DEF OnSent
  <2>2. CASE j # k
    <3>1. b[k] = p BY <1>1, <2>2
    <3> HIDE DEF b
    <3>. QED BY <2>1, <3>1, KeptByStep
  <2>3. CASE j = k
    <3>1. ok BY <1>1, <1>3, <2>3 DEF OnSent
    <3> DEFINE q == Delivered(p)
               x == [Now EXCEPT !.book = b]
    <3>2. b[k] = q BY <1>1, <2>3, <3>1
    <3>3. q \in Prompt /\ q.sent /\ q.state = "Selected" /\ q.behavior = p.behavior
      <4>1. p.sent BY FixedPrompt
      <4> HIDE DEF p
      <4>2. p.state = "Selected" BY DEF p
      <4>. QED BY <1>1, <4>1, <4>2 DEF Delivered, Prompt, Edits
    <3> HIDE DEF q
    <3>4. Pump(x) BY <2>1 DEF Step
    <3>5. x.book[k] = q /\ x.waiter = waiter
      <4> HIDE DEF b
      <4>. QED BY <3>2 DEF Now
    <3> HIDE DEF x
    <3>6. book'[k].state = q.state /\ book'[k].behavior = q.behavior
      BY <3>3, <3>4, <3>5, FixedPrompt, PumpLeaves
    <3>. QED BY <3>3, <3>6 DEF Kept
  <2>. QED BY <2>2, <2>3
<1>4. ASSUME NEW j \in Key, NEW ok \in BOOLEAN, OnEdited(j, ok) PROVE Kept(p, book'[k])
  <2> DEFINE b == [book EXCEPT ![j] = IF ok THEN [@ EXCEPT !.edit = "Done"] ELSE EditFailed(@)]
  <2>1. Step(b) /\ book[j].edit = "InFlight" BY <1>4 DEF OnEdited
  <2>2. b[k] = p BY <1>1, <2>1
  <2> HIDE DEF b
  <2>. QED BY <2>1, <2>2, KeptByStep
<1>5. ASSUME NEW j \in Key, NEW a \in Behavior, NEW room \in BOOLEAN, OnCallback(j, a, room)
      PROVE  Kept(p, book'[k])
  <2>1. CASE Step(book) BY <2>1, KeptByStep
  <2>2. ASSUME NEW i, NEW c, NEW ks,
               c = [book EXCEPT ![i] = IF book[i].hook /\ book[i].state = "Open"
                                       THEN HookPressed(i, a) ELSE Selected(@, a)],
               Step(Pushed(c, links, ks))
        PROVE  Kept(p, book'[k])
    BY <1>1, <2>2, KeptByPush DEF Selected
  <2>3. \/ Step(book)
        \/ \E i \in Pressed(j) :
             LET hooked == book[i].hook /\ book[i].state = "Open"
                 c == [book EXCEPT ![i] = IF hooked THEN HookPressed(i, a) ELSE Selected(@, a)]
                 ks == IF room THEN {i} ELSE {}
             IN  Step(Pushed(c, links, ks))
    BY <1>5 DEF OnCallback
  <2>. QED BY <2>1, <2>2, <2>3
<1>. QED BY <1>2, <1>3, <1>4, <1>5 DEF TelegramStep

(* An answer that was fixed is forgotten only with its session or with the *)
(* hub, as long as Telegram's refusals are true: no pump, no full book, no *)
(* hook and no press of another prompt takes it back.                      *)
THEOREM FixedAnswerKept ==
  ASSUME ~LostAnswers
  PROVE  Spec => FixedAnswerStays
<1> DEFINE Goes(k) ==
      \/ book'[k].state \in {"Selected", "Decided"} /\ book'[k].behavior = book[k].behavior
      \/ book[k].session \in hub'.ended
      \/ Crash
    Act == \A k \in Key : book[k].state = "Selected" /\ book'[k] # book[k] => Goes(k)
<1>1. PromptsInv /\ [Next]_vars => [Act]_vars
  <2> SUFFICES ASSUME PromptsInv, Next, NEW k \in Key, book[k].state = "Selected",
                      book'[k] # book[k]
               PROVE  Goes(k)
    OBVIOUS
  <2>1. CASE ClaudeStep
    BY <2>1 DEF ClaudeStep, Ask, Terminal, Clear, Exit, Start, Relay, AgentTakes, actor
  <2>2. CASE HubStep BY <2>2, HubKeepsFixed, PromptsAssumption DEF Kept
  <2>3. CASE TelegramStep BY <2>3, TelegramKeepsFixed, PromptsAssumption DEF Kept
  <2>. QED BY <2>1, <2>2, <2>3 DEF Next
<1>. QED BY <1>1, PromptsInvariance, PTL DEF Spec, FixedAnswerStays

----------------------------------------------------------------------------
(* What was acknowledged was passed on.                                    *)

DecidedOK(b) ==
  \A k \in Key : plan.acks /\ b[k].state = "Decided" /\ ~b[k].hook =>
    k \in passed \/ b[k].proc # claude.proc

(* An acknowledgement on its way is of a verdict that was passed on by the *)
(* process of its link; no link is of a process yet to come.               *)
UpOK(ls) ==
  \A c \in Conn :
    /\ ls[c].proc <= claude.proc
    /\ \A i \in DOMAIN ls[c].up : ls[c].up[i].kind = "ack" =>
         ls[c].up[i].of \in passed \/ ls[c].proc # claude.proc

TakenInv ==
  /\ DecidedOK(book) /\ UpOK(links)
  /\ \A d \in Dialog : dialog[d].proc <= claude.proc

LEMMA FinishState ==
  ASSUME NEW p \in Prompt, NEW state
  PROVE  Finish(p, state) = p \/ Finish(p, state).state \in {state, "none"}
BY DEF Prompt, Finish, NoPrompt

(* The pump decides nothing.                                               *)
LEMMA PumpDecides ==
  ASSUME PromptsAssumption, NEW x, NEW k \in Key, NEW t, NEW f, PromptOK(x.book[k], t, f),
         Pumped(x)[k].state = "Decided"
  PROVE  /\ x.book[k].state = "Decided" /\ Pumped(x)[k].hook = x.book[k].hook
         /\ Pumped(x)[k].proc = x.book[k].proc
<1> DEFINE p == x.book[k]
           q == HookChecked(x, k)
           r == Sent(q, x.hub)
<1>1. Pumped(x)[k] = EditSent(r) /\ Becomes(p, Pumped(x)[k]) BY PumpedOK DEF Pumped
<1>2. Pumped(x)[k].hook = p.hook /\ Pumped(x)[k].proc = p.proc BY <1>1 DEF Becomes, Asks
<1>3. q = p \/ q = Finish(p, "Expired") BY DEF HookChecked
<1>4. PromptOK(q, t, f) BY <1>3, FinishOK
<1>5. PromptOK(r, t, f) BY <1>4, SentOK
<1> HIDE DEF p, q, r
<1>6. p \in Prompt /\ q \in Prompt /\ r \in Prompt BY <1>4, <1>5 DEF PromptOK, p
<1>7. r.state = "Decided" BY <1>1, <1>6 DEF EditSent, Prompt
<1>8. q.state = "Decided" BY <1>6, <1>7, FinishState DEF Sent, r, Prompt
<1>9. p.state = "Decided" BY <1>3, <1>6, <1>8, FinishState
<1>. QED BY <1>2, <1>9 DEF p

LEMMA TakenPump ==
  ASSUME PromptsAssumption, PromptsInv, TakenInv, NEW x, Pump(x), UNCHANGED <<plan, claude, passed>>,
         NEW t, NEW f, \A k \in Key : PromptOK(x.book[k], t[k], f[k]),
         DecidedOK(x.book), UpOK(links')
  PROVE  TakenInv'
<1>1. /\ book' = Pumped(x)
      /\ dialog' = [d \in Dialog |->
           IF HookFree(x, d) /\ HookAnswer(x, d) # "none" /\ dialog[d].state = "open"
           THEN [dialog[d] EXCEPT !.state = "closed", !.answer = HookAnswer(x, d)]
           ELSE dialog[d]]
  BY DEF Pump
<1>2. DecidedOK(book')
  <2> SUFFICES ASSUME NEW k \in Key, plan.acks, book'[k].state = "Decided", ~book'[k].hook
               PROVE  k \in passed \/ book'[k].proc # claude.proc
    BY DEF DecidedOK
  <2>1. /\ x.book[k].state = "Decided" /\ book'[k].hook = x.book[k].hook
        /\ book'[k].proc = x.book[k].proc
    <3>1. PromptOK(x.book[k], t[k], f[k]) /\ Pumped(x)[k].state = "Decided" BY <1>1
    <3>2. /\ x.book[k].state = "Decided" /\ Pumped(x)[k].hook = x.book[k].hook
          /\ Pumped(x)[k].proc = x.book[k].proc
      BY <3>1, PumpDecides
    <3>. QED BY <1>1, <3>2
  <2>. QED BY <2>1 DEF DecidedOK
<1>3. \A d \in Dialog : dialog'[d].proc = dialog[d].proc
  <2> SUFFICES ASSUME NEW d \in Dialog PROVE dialog'[d].proc = dialog[d].proc
    OBVIOUS
  <2>1. dialog'[d] \in {dialog[d], [dialog[d] EXCEPT !.state = "closed",
                                                     !.answer = HookAnswer(x, d)]}
    BY <1>1
  <2>2. dialog[d] \in DialogState BY DEF PromptsInv, DialogsOK
  <2>. QED BY <2>1, <2>2 DEF DialogState
<1>4. DecidedOK(book)' /\ UpOK(links)' BY <1>2 DEF DecidedOK, UpOK
<1>. QED BY <1>3, <1>4 DEF TakenInv

(* A handler that pushes verdicts.                                         *)
LEMMA TakenPush ==
  ASSUME PromptsAssumption, PromptsInv, TakenInv, NEW b, NEW ls, NEW ks, Step(Pushed(b, ls, ks)),
         UNCHANGED <<plan, claude, passed>>, links' = Queued(b, ls, ks),
         NEW t, NEW f, \A k \in Key : PromptOK(b[k], t[k], f[k]),
         DecidedOK(b), UpOK(ls), \A c \in Conn : ls[c] \in Link
  PROVE  TakenInv'
<1> DEFINE a == Pushed(b, ls, ks)
           x == [Now EXCEPT !.book = a]
<1>1. \A k \in Key : PromptOK(a[k], t[k], f[k]) BY PushedOK
<1>2. DecidedOK(a) BY DEF Pushed, DecidedOK
<1>3. \A c \in Conn : links'[c].proc = ls[c].proc /\ links'[c].up = ls[c].up
  BY DEF Queued, Link
<1>4. UpOK(links') BY <1>3 DEF UpOK
<1>5. Pump(x) /\ x.book = a BY DEF Step, Now
<1> HIDE DEF a, x
<1>. QED BY <1>1, <1>2, <1>4, <1>5, TakenPump

(* A step of the agent, of Claude Code or of Telegram.                     *)
LEMMA TakenAside ==
  ASSUME TakenInv, UNCHANGED <<plan, book>>, claude'.proc = claude.proc, passed \subseteq passed',
         \A d \in Dialog : dialog'[d].proc \in {dialog[d].proc, claude.proc},
         claude.proc \in Nat,
         \A c \in Conn : /\ links'[c].proc = links[c].proc
                         /\ \A i \in DOMAIN links'[c].up :
                              \/ links'[c].up[i].kind = "ack" => links'[c].up[i].of \in passed'
                              \/ \E h \in DOMAIN links[c].up : links'[c].up[i] = links[c].up[h]
  PROVE  TakenInv'
BY DEF TakenInv, DecidedOK, UpOK

LEMMA TakenFacts ==
  ASSUME PromptsInv, TakenInv
  PROVE  /\ claude.proc \in Nat /\ DecidedOK(book) /\ UpOK(links)
         /\ \A k \in Key : PromptOK(book[k], tg[k], first[k]) /\ book[k] \in Prompt
         /\ links \in [Conn -> Link] /\ dialog \in [Dialog -> DialogState]
BY DEF PromptsInv, StateTypes, Process, TakenInv, BookOK, PromptOK, DialogsOK

LEMMA ClaudeTaken ==
  ASSUME PromptsAssumption, PromptsInv, TakenInv, ClaudeStep
  PROVE  TakenInv'
<1>1. /\ claude.proc \in Nat /\ DecidedOK(book) /\ UpOK(links) /\ claude \in Process
      /\ links \in [Conn -> Link] /\ dialog \in [Dialog -> DialogState]
  BY TakenFacts DEF PromptsInv, StateTypes
<1>2. ASSUME NEW d \in Dialog, NEW id \in Id \cup {None}, Ask(d, id) PROVE TakenInv'
  <2>1. UNCHANGED <<plan, book, claude, passed, links>> BY <1>2 DEF Ask, actor
  <2>2. \A e \in Dialog : dialog'[e].proc \in {dialog[e].proc, claude.proc}
    <3> SUFFICES ASSUME NEW e \in Dialog PROVE dialog'[e].proc \in {dialog[e].proc, claude.proc}
      OBVIOUS
    <3>1. dialog[e] \in DialogState BY <1>1
    <3>2. dialog'[e] \in {dialog[e], [dialog[e] EXCEPT !.state = "open", !.id = id,
                            !.proc = claude.proc, !.session = claude.session]}
      BY <1>1, <1>2 DEF Ask
    <3>. QED BY <3>1, <3>2 DEF DialogState
  <2>. QED BY <1>1, <2>1, <2>2, TakenAside
<1>3. ASSUME NEW d \in Dialog, Terminal(d) PROVE TakenInv'
  BY <1>3, <1>1, TakenAside DEF Terminal, actor, DialogState
<1>4. ASSUME Clear PROVE TakenInv'
  BY <1>4, <1>1, DroppedOK, TakenAside DEF Clear, actor, Process
<1>5. ASSUME Exit PROVE TakenInv'
  BY <1>5, <1>1, LinksOnly, DroppedOK, TakenAside DEF Exit, actor, Process
<1>6. ASSUME NEW s, Start(s) PROVE TakenInv'
  <2>1. /\ UNCHANGED <<plan, book, dialog, links>> /\ claude'.proc = claude.proc + 1
    BY <1>6 DEF Start, actor
  <2>2. /\ \A d \in Dialog : dialog[d].proc \in Nat /\ dialog[d].proc <= claude.proc
        /\ \A c \in Conn : links[c].proc \in Nat /\ links[c].proc <= claude.proc
    BY <1>1 DEF TakenInv, UpOK, DialogState, Link
  <2>3. ASSUME NEW k \in Key, book[k].state = "Decided", ~book[k].hook
        PROVE  book[k].proc # claude'.proc
    BY <2>3, <1>1, <2>1, <2>2 DEF PromptsInv, BookOK, AskOK
  <2>4. DecidedOK(book)' BY <2>1, <2>3 DEF DecidedOK
  <2>5. UpOK(links)'
    <3> SUFFICES ASSUME NEW c \in Conn
                 PROVE  links[c].proc <= claude'.proc /\ links[c].proc # claude'.proc
      BY <2>1 DEF UpOK
    <3>. QED BY <1>1, <2>1, <2>2
  <2>6. \A d \in Dialog : dialog'[d].proc <= claude'.proc BY <1>1, <2>1, <2>2
  <2>. QED BY <2>4, <2>5, <2>6 DEF TakenInv
<1>7. ASSUME NEW c \in Conn, NEW d \in Dialog, Relay(c, d) PROVE TakenInv'
  <2> DEFINE m == Frame("request", d, links[c].session)
             l == [links[c] EXCEPT !.up = Append(@, m)]
  <2>1. /\ UNCHANGED <<plan, book, claude, passed, dialog>>
        /\ links' = [links EXCEPT ![c] = l]
    BY <1>7 DEF Relay, actor
  <2>2. links[c] \in Link /\ links[c].up \in Seq(Frames) /\ m.kind = "request"
    BY <1>1 DEF Link, Frame
  <2> HIDE DEF m
  <2>3. l.proc = links[c].proc /\ l.up = Append(links[c].up, m) BY <2>2 DEF Link
  <2> HIDE DEF l
  <2>4. ASSUME NEW i \in DOMAIN l.up
        PROVE  l.up[i].kind # "ack" \/ \E h \in DOMAIN links[c].up : l.up[i] = links[c].up[h]
    BY <2>2, <2>3
  <2>5. \A e \in Conn : /\ links'[e].proc = links[e].proc
                        /\ \A i \in DOMAIN links'[e].up :
                             \/ links'[e].up[i].kind # "ack"
                             \/ \E h \in DOMAIN links[e].up : links'[e].up[i] = links[e].up[h]
    BY <1>1, <2>1, <2>3, <2>4, SMTT(30)
  <2>. QED BY <1>1, <2>1, <2>5, TakenAside
<1>8. ASSUME NEW c \in Conn, AgentTakes(c) PROVE TakenInv'
  <2>1. PICK v \in links[c].down :
          LET answered == { d \in Dialog : /\ ~Repeated(v) /\ dialog[d].state = "open"
                                           /\ dialog[d].proc = claude.proc /\ dialog[d].id = v.id }
              ack == Frame("ack", v.key, links[c].session)
          IN  /\ dialog' = [d \in Dialog |-> IF d \in answered
                             THEN [dialog[d] EXCEPT !.state = "closed", !.answer = v.behavior]
                             ELSE dialog[d]]
              /\ passed' = IF plan.acks THEN passed \cup {v.key} ELSE passed
              /\ links' = [links EXCEPT ![c].down = @ \ {v},
                                        ![c].up = IF plan.acks THEN Append(@, ack) ELSE @]
    BY <1>8 DEF AgentTakes
  <2> DEFINE m == Frame("ack", v.key, links[c].session)
             l == [links[c] EXCEPT !.down = @ \ {v}, !.up = IF plan.acks THEN Append(@, m) ELSE @]
  <2>2. UNCHANGED <<plan, book, claude>> /\ passed \subseteq passed'
    BY <1>8, <2>1 DEF AgentTakes, actor
  <2>3. \A d \in Dialog : dialog'[d].proc = dialog[d].proc
    <3> SUFFICES ASSUME NEW d \in Dialog PROVE dialog'[d].proc = dialog[d].proc
      OBVIOUS
    <3>1. dialog'[d] \in {dialog[d], [dialog[d] EXCEPT !.state = "closed", !.answer = v.behavior]}
      BY <2>1
    <3>2. dialog[d] \in DialogState BY <1>1
    <3>. QED BY <3>1, <3>2 DEF DialogState
  <2>4. links' = [links EXCEPT ![c] = l] BY <1>1, <2>1
  <2>5. links[c] \in Link /\ links[c].up \in Seq(Frames) /\ m.of = v.key
    BY <1>1 DEF Link, Frame
  <2>6. plan.acks => v.key \in passed' BY <2>1
  <2> HIDE DEF m
  <2>7. /\ l.proc = links[c].proc
        /\ l.up = links[c].up \/ (plan.acks /\ l.up = Append(links[c].up, m))
    BY <2>5 DEF Link
  <2> HIDE DEF l
  <2>8. ASSUME NEW i \in DOMAIN l.up
        PROVE  l.up[i].of \in passed' \/ \E h \in DOMAIN links[c].up : l.up[i] = links[c].up[h]
    <3>1. CASE l.up = links[c].up BY <3>1
    <3>2. CASE plan.acks /\ l.up = Append(links[c].up, m) BY <2>5, <2>6, <3>2
    <3>. QED BY <2>7, <3>1, <3>2
  <2>9. \A e \in Conn : /\ links'[e].proc = links[e].proc
                        /\ \A i \in DOMAIN links'[e].up :
                             \/ links'[e].up[i].of \in passed'
                             \/ \E h \in DOMAIN links[e].up : links'[e].up[i] = links[e].up[h]
    BY <1>1, <2>4, <2>7, <2>8
  <2>. QED BY <1>1, <2>2, <2>3, <2>9, TakenAside
<1>. QED BY <1>2, <1>3, <1>4, <1>5, <1>6, <1>7, <1>8 DEF ClaudeStep

(* A handler that pushes nothing.                                          *)
LEMMA TakenHandler ==
  ASSUME PromptsAssumption, PromptsInv, TakenInv, NEW b, Step(b), UNCHANGED <<plan, claude, passed>>,
         NEW t, NEW f, \A k \in Key : PromptOK(b[k], t[k], f[k]),
         DecidedOK(b), UpOK(links')
  PROVE  TakenInv'
<1> DEFINE x == [Now EXCEPT !.book = b]
<1>1. Pump(x) /\ x.book = b BY DEF Step, Now
<1> HIDE DEF x
<1>. QED BY <1>1, TakenPump

LEMMA UpRead ==
  ASSUME PromptsAssumption, PromptsInv, TakenInv, NEW c \in Conn, links[c].up # <<>>,
         links' = [links EXCEPT ![c].up = Tail(@)]
  PROVE  UpOK(links')
<1>1. \A i \in Conn : /\ links'[i].proc = links[i].proc
                      /\ \A j \in DOMAIN links'[i].up : \E h \in DOMAIN links[i].up :
                           links'[i].up[j] = links[i].up[h]
  BY FrameRead
<1>. QED BY <1>1, TakenFacts DEF UpOK

(* An acknowledgement decides a prompt whose verdict was passed on.        *)
LEMMA AckTaken ==
  ASSUME PromptsAssumption, PromptsInv, TakenInv, NEW c \in Conn, OnAck(c)
  PROVE  TakenInv'
<1> DEFINE m == Head(links[c].up)
           p == book[m.of]
           q == IF p.state = "Selected" /\ m.session = p.session THEN Finish(p, "Decided") ELSE p
           b == [book EXCEPT ![m.of] = q]
<1>1. /\ links[c].up # <<>> /\ m.kind = "ack" /\ links' = [links EXCEPT ![c].up = Tail(@)]
      /\ Step(b) /\ UNCHANGED <<plan, claude, passed>>
  BY DEF OnAck
<1>2. m \in Frames /\ AckOK(m, links[c].proc, dialog, tg) /\ UpOK(links')
  BY <1>1, FrameRead, UpRead
<1>3. m.of \in Key
  <2> HIDE DEF m
  <2>. QED BY <1>1, <1>2 DEF Frames
<1>4. m.of \in passed \/ links[c].proc # claude.proc
  <2>1. links[c].up \in Seq(Frames) BY TakenFacts DEF Link
  <2>2. 1 \in DOMAIN links[c].up /\ m = links[c].up[1] BY <1>1, <2>1
  <2> HIDE DEF m
  <2>. QED BY <1>1, <2>2, TakenFacts DEF UpOK
<1>5. PromptOK(p, tg[m.of], first[m.of]) /\ AskOK(p, links, dialog) /\ p \in Prompt
  BY <1>3, TakenFacts DEF PromptsInv, BookOK
<1>6. p.state = "Selected" => p.proc = links[c].proc
  <2> SUFFICES ASSUME p.state = "Selected" PROVE p.proc = links[c].proc
    OBVIOUS
  <2>1. tg[m.of].shows # "none" /\ dialog[tg[m.of].dialog].proc = links[c].proc
    <3> HIDE DEF m
    <3>. QED BY <1>1, <1>2 DEF AckOK
  <2> HIDE DEF p, m
  <2>2. ~p.hook /\ tg[m.of].dialog = p.dialog BY <1>5, <2>1 DEF PromptOK
  <2>. QED BY <1>5, <2>1, <2>2 DEF AskOK
<1>7. PromptOK(q, tg[m.of], first[m.of]) /\ Becomes(p, q)
  <2>1. q \in {p, Finish(p, "Decided")} OBVIOUS
  <2>2. Becomes(p, p) BY DEF Becomes
  <2> HIDE DEF q, p, m
  <2>3. CASE q = p BY <1>5, <2>2, <2>3
  <2>4. CASE q = Finish(p, "Decided") BY <1>5, <2>4, FinishOK
  <2>. QED BY <2>1, <2>3, <2>4
<1>8. \A k \in Key : b[k] = IF k = m.of THEN q ELSE book[k] BY BookStays
<1>9. \A k \in Key : PromptOK(b[k], tg[k], first[k])
  <2> HIDE DEF b, q, p, m
  <2>. QED BY <1>7, <1>8, TakenFacts
<1>10. q.state = "Decided" /\ ~q.hook /\ plan.acks =>
         m.of \in passed \/ q.proc # claude.proc
  <2>1. CASE p.state = "Selected"
    <3>1. q.state # "none" => q.proc = p.proc
      <4> HIDE DEF q, p
      <4>. QED BY <1>7 DEF Becomes, Asks
    <3>. QED BY <1>4, <1>6, <2>1, <3>1
  <2>2. CASE p.state # "Selected"
    <3>1. q = p BY <2>2
    <3> HIDE DEF q, m
    <3>. QED BY <1>3, <3>1, TakenFacts DEF DecidedOK, p
  <2>. QED BY <2>1, <2>2
<1>11. DecidedOK(b)
  <2> HIDE DEF b, q, p, m
  <2>. QED BY <1>8, <1>10, TakenFacts DEF DecidedOK
<1> HIDE DEF b
<1>. QED BY <1>1, <1>2, <1>9, <1>11, TakenHandler

(* A book of prompts that were decided before, or answered their hook.     *)
LEMMA DecidedSame ==
  ASSUME TakenInv, NEW b,
         \A k \in Key : b[k].state = "Decided" =>
           \/ b[k].hook
           \/ book[k].state = "Decided" /\ b[k].hook = book[k].hook /\ b[k].proc = book[k].proc
  PROVE  DecidedOK(b)
BY DEF TakenInv, DecidedOK

LEMMA BookTypes ==
  ASSUME PromptsInv
  PROVE  \A k \in Key : book[k] \in Prompt /\ PromptOK(book[k], tg[k], first[k])
BY DEF PromptsInv, BookOK, PromptOK

LEMMA LearnTaken ==
  ASSUME PromptsAssumption, PromptsInv, TakenInv, Learn
  PROVE  TakenInv'
<1> DEFINE over == IF claude.live THEN {hub.session} \ {0, claude.session} ELSE {claude.session}
           h == [hub EXCEPT !.session = claude.session, !.proc = claude.proc,
                    !.ended = (@ \cup over) \ (IF claude.live THEN {claude.session} ELSE {})]
           b == Closes(book, h)
           x == [Now EXCEPT !.book = b, !.hub = h]
<1>1. /\ Pump(x) /\ UNCHANGED <<plan, claude, passed>>
      /\ links' = [c \in Conn |->
           IF claude.live /\ links[c].state # "none" /\ links[c].proc = claude.proc
           THEN [links[c] EXCEPT !.session = claude.session] ELSE links[c]]
  BY DEF Learn
<1> HIDE DEF h
<1>2. x.book = b BY DEF Now
<1> HIDE DEF x
<1>3. \A k \in Key : b[k] = book[k] \/ b[k] = Finish(book[k], "Closed") BY DEF Closes
<1> HIDE DEF b
<1>4. \A k \in Key : PromptOK(b[k], tg[k], first[k]) BY <1>3, BookTypes, FinishOK
<1>5. DecidedOK(b) BY <1>3, BookTypes, FinishState, DecidedSame
<1>6. UpOK(links') BY TakenFacts, <1>1 DEF Link, UpOK
<1>. QED BY <1>1, <1>2, <1>4, <1>5, <1>6, TakenPump

LEMMA ConnectTaken ==
  ASSUME PromptsAssumption, PromptsInv, TakenInv, Connect
  PROVE  TakenInv'
<1> DEFINE c == Newest + 1
           session == IF hub.proc = claude.proc THEN hub.session ELSE claude.env
           new == [NoLink EXCEPT !.state = "open", !.proc = claude.proc, !.session = session]
           ls == [i \in Conn |-> IF i = c THEN new
                                 ELSE IF links[i].state = "open"
                                 THEN [links[i] EXCEPT !.state = "dead"] ELSE links[i]]
           ks == OfSession(book, session)
<1>1. /\ links' = Queued(book, ls, ks) /\ Step(Pushed(book, ls, ks))
      /\ UNCHANGED <<plan, claude, passed>>
  BY DEF Connect
<1>2. new \in Link /\ new.proc = claude.proc /\ new.up = <<>>
  <2>1. session \in Nat /\ claude.proc \in 0 .. MaxProcs
    BY DEF HubState, Process, PromptsInv, StateTypes
  <2> HIDE DEF session
  <2>2. {} \in SUBSET Sender /\ <<>> \in Seq(Frames) OBVIOUS
  <2>. QED BY <2>1, <2>2 DEF NoLink, Link
<1> HIDE DEF c, new, session
<1>3. ASSUME NEW i \in Conn
      PROVE  /\ ls[i] \in Link
             /\ \/ ls[i].proc = claude.proc /\ ls[i].up = <<>>
                \/ ls[i].proc = links[i].proc /\ ls[i].up = links[i].up
  <2>1. links[i] \in Link BY TakenFacts
  <2>2. ls[i] \in {new, links[i], [links[i] EXCEPT !.state = "dead"]} OBVIOUS
  <2> HIDE DEF ls
  <2>. QED BY <1>2, <2>1, <2>2 DEF Link
<1> HIDE DEF ls, ks
<1>4. UpOK(ls) BY <1>3, TakenFacts DEF UpOK
<1>. QED BY <1>1, <1>3, <1>4, TakenFacts, TakenPush

LEMMA DisconnectedTaken ==
  ASSUME PromptsAssumption, PromptsInv, TakenInv, NEW c \in Conn, Disconnected(c)
  PROVE  TakenInv'
<1> DEFINE new == [NoLink EXCEPT !.state = "gone"]
           ls == [links EXCEPT ![c] = new]
           ks == OfSession(book, links[c].session)
<1>1. /\ links' = Queued(book, ls, ks) /\ Step(Pushed(book, ls, ks))
      /\ UNCHANGED <<plan, claude, passed>>
  BY DEF Disconnected
<1>2. new \in Link /\ new.proc = 0 /\ new.up = <<>>
  <2>1. {} \in SUBSET Sender /\ <<>> \in Seq(Frames) /\ 0 \in 0 .. MaxProcs
    BY DEF PromptsAssumption
  <2>. QED BY <2>1 DEF NoLink, Link
<1> HIDE DEF new
<1>3. ls[c] = new /\ \A i \in Conn : i # c => ls[i] = links[i] BY TakenFacts
<1> HIDE DEF ls, ks
<1>4. UpOK(ls) /\ \A i \in Conn : ls[i] \in Link BY <1>2, <1>3, TakenFacts DEF UpOK
<1>. QED BY <1>1, <1>4, TakenFacts, TakenPush

LEMMA TickTaken ==
  ASSUME PromptsAssumption, PromptsInv, TakenInv, Tick
  PROVE  TakenInv'
<1> DEFINE b == [k \in Key |-> IF book[k].edit = "Failed" THEN [book[k] EXCEPT !.edit = "Due"]
                               ELSE book[k]]
<1>1. /\ links' = Queued(b, links, Key) /\ Step(Pushed(b, links, Key))
      /\ UNCHANGED <<plan, claude, passed>>
  BY DEF Tick, others
<1>2. ASSUME NEW k \in Key
      PROVE  /\ PromptOK(b[k], tg[k], first[k]) /\ b[k].state = book[k].state
             /\ b[k].hook = book[k].hook /\ b[k].proc = book[k].proc
  <2> DEFINE p == book[k]
             q == [p EXCEPT !.edit = "Due"]
  <2>1. PromptOK(p, tg[k], first[k]) /\ p \in Prompt BY BookTypes
  <2>2. CASE p.edit # "Failed" BY <2>1, <2>2
  <2>3. CASE p.edit = "Failed"
    <3>1. b[k] = q BY <2>3
    <3> HIDE DEF b, p
    <3>2. /\ q \in Prompt /\ q.state = p.state /\ q.edit = "Due" /\ q.failures = p.failures
          /\ q.known = p.known /\ q.sent = p.sent /\ q.id = p.id /\ q.dialog = p.dialog
          /\ q.behavior = p.behavior /\ Asks(q) = Asks(p)
      BY <2>1 DEF Prompt, Edits, Asks
    <3>3. p.state # "none" /\ ~Active(p) /\ p.known BY <2>1, <2>3 DEF PromptOK, NoPrompt
    <3> HIDE DEF q
    <3>4. PromptOK(q, tg[k], first[k])
      BY <2>1, <2>3, <3>2, <3>3 DEF PromptOK, Active, OwnsButtons, Asks
    <3>5. q.hook = p.hook /\ q.proc = p.proc BY <3>2 DEF Asks
    <3>. QED BY <3>1, <3>2, <3>4, <3>5 DEF p
  <2>. QED BY <2>2, <2>3
<1> HIDE DEF b
<1>3. DecidedOK(b) BY <1>2, DecidedSame
<1>. QED BY <1>1, <1>2, <1>3, TakenFacts, TakenPush

(* A prompt opens: it waits.                                               *)
LEMMA OpenedTaken ==
  ASSUME PromptsAssumption, PromptsInv, TakenInv, NEW p, NewOK(p), Opens(book, p), next \in Key,
         NEW m, SameLinks(links, m), AskOK(p, m, dialog)
  PROVE  /\ \A k \in Key : PromptOK(Opened(book, p)[k], tg[k], first[k])
         /\ DecidedOK(Opened(book, p))
BY OpenedOK, DecidedSame DEF BookOK, Opened, NewOK, NoPrompt

LEMMA RequestTaken ==
  ASSUME PromptsAssumption, PromptsInv, TakenInv, NEW c \in Conn, OnRequest(c)
  PROVE  TakenInv'
<1> DEFINE m == Head(links[c].up)
           p == NewPrompt(m.of, c, m.session)
           twins == Twins(asks, m.of, m.session)
           x == [Now EXCEPT !.book = Opened(book, p), !.asks = asks \ OneOf(twins)]
<1>1. /\ links[c].up # <<>> /\ m.kind = "request" /\ next \in Key
      /\ links' = [links EXCEPT ![c].up = Tail(@)]
      /\ UNCHANGED <<plan, claude, passed>>
      /\ Step(book) \/ (Opens(book, p) /\ Pump(x))
  BY DEF OnRequest
<1>2. /\ links' \in [Conn -> Link] /\ SameLinks(links, links')
      /\ m \in Frames /\ RequestOK(m, links[c].proc, dialog)
      /\ links'[c].state = links[c].state /\ links'[c].proc = links[c].proc
  BY <1>1, FrameRead
<1>3. UpOK(links') BY <1>1, UpRead
<1>4. CASE Step(book)
  <2> HIDE DEF m
  <2>. QED BY <1>1, <1>3, <1>4, TakenFacts, TakenHandler
<1>5. CASE Opens(book, p) /\ Pump(x)
  <2>1. NewOK(p) /\ AskOK(p, links', dialog) BY <1>1, <1>2, RequestedOK
  <2> HIDE DEF p, twins
  <2>2. x.book = Opened(book, p) BY DEF Now
  <2> HIDE DEF x, m
  <2>3. /\ \A k \in Key : PromptOK(Opened(book, p)[k], tg[k], first[k])
        /\ DecidedOK(Opened(book, p))
    BY <1>1, <1>2, <1>5, <2>1, OpenedTaken
  <2>. QED BY <1>1, <1>3, <1>5, <2>2, <2>3, TakenPump
<1>. QED BY <1>1, <1>4, <1>5

LEMMA AskTaken ==
  ASSUME PromptsAssumption, PromptsInv, TakenInv, NEW d \in Dialog, OnAsk(d)
  PROVE  TakenInv'
<1>1. PICK a : Pump([Now EXCEPT !.hook[d] = "waiting", !.asks = a]) BY DEF OnAsk, Now
<1> DEFINE x == [Now EXCEPT !.hook[d] = "waiting", !.asks = a]
<1>2. x.book = book BY DEF Now
<1>3. Pump(x) /\ UNCHANGED <<plan, claude, passed, links>> BY <1>1 DEF OnAsk
<1>4. UpOK(links') BY <1>3, TakenFacts
<1> HIDE DEF x
<1>. QED BY <1>2, <1>3, <1>4, TakenFacts, TakenPump

LEMMA HookOverTaken ==
  ASSUME PromptsAssumption, PromptsInv, TakenInv, NEW d \in Dialog, HookOver(d)
  PROVE  TakenInv'
<1> DEFINE x == [Now EXCEPT !.late = {d}]
<1>1. Pump(x) /\ UNCHANGED <<plan, claude, passed, links>> BY DEF HookOver
<1>2. x.book = book BY DEF Now
<1>3. UpOK(links') BY <1>1, TakenFacts
<1> HIDE DEF x
<1>. QED BY <1>1, <1>2, <1>3, TakenFacts, TakenPump

LEMMA WindowTaken ==
  ASSUME PromptsAssumption, PromptsInv, TakenInv, NEW d \in Dialog, NEW id \in plan.ids,
         WindowOver(d, id)
  PROVE  TakenInv'
<1> DEFINE p == [NewPrompt(d, 0, dialog[d].session) EXCEPT !.id = id]
           x == [Now EXCEPT !.book = Opened(book, p), !.asks = @ \ {d}, !.waiter[d] = next]
           y == [Now EXCEPT !.asks = @ \ {d}]
<1>1. /\ next \in Key /\ UNCHANGED <<plan, claude, passed, links>>
      /\ Pump(y) \/ (Opens(book, p) /\ Pump(x))
  BY DEF WindowOver
<1>2. UpOK(links') BY <1>1, TakenFacts
<1>3. CASE Pump(y)
  <2>1. y.book = book BY DEF Now
  <2> HIDE DEF y
  <2>. QED BY <1>1, <1>2, <1>3, <2>1, TakenFacts, TakenPump
<1>4. CASE Opens(book, p) /\ Pump(x)
  <2>1. id \in HookId BY DEF PromptsInv, StateTypes, PromptsAssumption
  <2>2. NewOK(p) /\ p.hook BY <2>1, WindowedOK
  <2> HIDE DEF p
  <2>3. AskOK(p, links, dialog) /\ SameLinks(links, links) BY <2>2, SameAll DEF AskOK
  <2>4. x.book = Opened(book, p) BY DEF Now
  <2> HIDE DEF x
  <2>5. /\ \A k \in Key : PromptOK(Opened(book, p)[k], tg[k], first[k])
        /\ DecidedOK(Opened(book, p))
    BY <1>1, <1>4, <2>2, <2>3, OpenedTaken
  <2>. QED BY <1>1, <1>2, <1>4, <2>4, <2>5, TakenPump
<1>. QED BY <1>1, <1>3, <1>4

LEMMA CrashTaken ==
  ASSUME PromptsAssumption, PromptsInv, TakenInv, Crash
  PROVE  TakenInv'
BY TakenFacts DEF Crash, DecidedOK, NoPrompt, NoLink, UpOK, TakenInv

LEMMA HubTaken ==
  ASSUME PromptsAssumption, PromptsInv, TakenInv, HubStep
  PROVE  TakenInv'
<1>1. ASSUME NEW c \in Conn, Lose(c) PROVE TakenInv'
  BY <1>1, TakenFacts, TakenAside DEF Lose, asker, actor, Link
<1>2. ASSUME NEW d \in Dialog, TwinForgotten(d) PROVE TakenInv'
  BY <1>2, TakenFacts, TakenAside DEF TwinForgotten, asker
<1>. QED BY <1>1, <1>2, LearnTaken, ConnectTaken, DisconnectedTaken, RequestTaken, AckTaken,
            AskTaken, HookOverTaken, WindowTaken, TickTaken, CrashTaken DEF HubStep

LEMMA SentTaken ==
  ASSUME PromptsAssumption, PromptsInv, TakenInv, NEW k \in Key, NEW ok \in BOOLEAN, OnSent(k, ok)
  PROVE  TakenInv'
<1> DEFINE p == book[k]
           q == IF ok THEN Delivered(p) ELSE NoPrompt
           b == [book EXCEPT ![k] = IF ok THEN Delivered(@) ELSE NoPrompt]
<1>1. /\ Step(b) /\ Sending(p) /\ (ok => tg[k].shows # "none")
      /\ UNCHANGED <<plan, claude, passed, links>>
  BY DEF OnSent, others
<1>2. b = [j \in Key |-> IF j = k THEN q ELSE book[j]] BY BookStays
<1>3. PromptOK(p, tg[k], first[k]) /\ p \in Prompt BY BookTypes
<1>4. /\ PromptOK(q, tg[k], first[k])
      /\ q.state = "Decided" => p.state = "Decided" /\ q.hook = p.hook /\ q.proc = p.proc
  <2>1. CASE ok
    <3>1. q = Delivered(p) BY <2>1
    <3> HIDE DEF p, q
    <3>2. PromptOK(q, tg[k], first[k]) BY <1>1, <1>3, <2>1, <3>1, DeliveredOK
    <3>3. q.state = p.state /\ q.hook = p.hook /\ q.proc = p.proc
      BY <1>3, <3>1 DEF Delivered, Prompt
    <3>. QED BY <3>2, <3>3
  <2>2. CASE ~ok
    <3>1. q = NoPrompt BY <2>2
    <3> HIDE DEF p, q
    <3>. QED BY <3>1, NoPromptOK DEF NoPrompt
  <2>. QED BY <2>1, <2>2
<1> HIDE DEF b, q
<1>5. DecidedOK(b) BY <1>2, <1>4, DecidedSame
<1>6. \A j \in Key : PromptOK(b[j], tg[j], first[j]) BY <1>2, <1>4, BookTypes
<1>7. UpOK(links') BY <1>1, TakenFacts
<1>. QED BY <1>1, <1>5, <1>6, <1>7, TakenHandler

LEMMA EditedTaken ==
  ASSUME PromptsAssumption, PromptsInv, TakenInv, NEW k \in Key, NEW ok \in BOOLEAN,
         OnEdited(k, ok)
  PROVE  TakenInv'
<1> DEFINE p == book[k]
           q == IF ok THEN [p EXCEPT !.edit = "Done"] ELSE EditFailed(p)
           b == [book EXCEPT ![k] = IF ok THEN [@ EXCEPT !.edit = "Done"] ELSE EditFailed(@)]
           m == [tg[k] EXCEPT !.shows = IF ok THEN p.state ELSE @]
<1>1. /\ Step(b) /\ p.edit = "InFlight" /\ tg' = [tg EXCEPT ![k] = m]
      /\ UNCHANGED <<plan, claude, passed, links, first>>
  BY DEF OnEdited, others
<1>2. b = [j \in Key |-> IF j = k THEN q ELSE book[j]] BY BookStays
<1>3. p \in Prompt BY BookTypes
<1>4. q.state = p.state /\ q.hook = p.hook /\ q.proc = p.proc
  <2>1. q \in {[p EXCEPT !.edit = "Done"], EditFailed(p)} OBVIOUS
  <2> HIDE DEF p, q
  <2>. QED BY <1>3, <2>1 DEF Prompt, EditFailed
<1>5. \A j \in Key : PromptOK(b[j], tg'[j], first[j]) BY EditedOK, ZenonT(60)
<1> HIDE DEF b, q
<1>6. DecidedOK(b) BY <1>2, <1>4, DecidedSame
<1>7. UpOK(links') BY <1>1, TakenFacts
<1>. QED BY <1>1, <1>5, <1>6, <1>7, TakenHandler

(* A press fixes an answer, or answers the hook.                           *)
LEMMA CallbackTaken ==
  ASSUME PromptsAssumption, PromptsInv, TakenInv, NEW k \in Key, NEW b \in Behavior,
         NEW room \in BOOLEAN, OnCallback(k, b, room)
  PROVE  TakenInv'
<1>1. /\ UNCHANGED <<plan, claude, passed, tg>> /\ tg[k].shows # "none" /\ ~Stray(k)
  BY DEF OnCallback, others
<1>2. CASE Step(book) /\ UNCHANGED <<links, first>>
  BY <1>1, <1>2, TakenFacts, TakenHandler
<1>3. ASSUME NEW j \in Pressed(k), NEW c, NEW ks,
             c = [book EXCEPT ![j] = IF book[j].hook /\ book[j].state = "Open"
                                     THEN HookPressed(j, b) ELSE Selected(@, b)],
             ks = IF room THEN {j} ELSE {},
             links' = Queued(c, links, ks), Step(Pushed(c, links, ks))
      PROVE  TakenInv'
  <2>1. j = k BY <1>1, PressedOwn
  <2> DEFINE p == book[k]
             q == IF p.hook /\ p.state = "Open" THEN HookPressed(k, b) ELSE Selected(p, b)
             g == IF first[k] = "none" /\ p.state = "Open" THEN b ELSE first[k]
             f == [first EXCEPT ![k] = g]
  <2>2. c = [i \in Key |-> IF i = k THEN q ELSE book[i]] BY <1>3, <2>1, BookStays
  <2>3. PromptOK(q, tg[k], g) /\ Becomes(p, q) BY <1>1, PressOK
  <2>4. f = [i \in Key |-> IF i = k THEN g ELSE first[i]] BY DEF PromptsInv, StateTypes
  <2>5. q.state = "Decided" => q.hook \/ q = p
    <3> SUFFICES ASSUME q.state = "Decided", ~(p.hook /\ p.state = "Open") PROVE q = p
      BY <2>3 DEF Becomes, Asks
    <3>1. CASE p.state = "Open" BY <3>1, BookTypes DEF Selected, Prompt
    <3>2. CASE p.state # "Open" BY <3>2 DEF Selected
    <3>. QED BY <3>1, <3>2
  <2> HIDE DEF q, g, f
  <2>6. \A i \in Key : PromptOK(c[i], tg[i], f[i]) BY <2>2, <2>3, <2>4, BookTypes
  <2>7. DecidedOK(c) BY <2>2, <2>5, DecidedSame
  <2>. QED BY <1>1, <1>3, <2>6, <2>7, TakenFacts, TakenPush
<1>. QED BY <1>2, <1>3 DEF OnCallback

LEMMA TelegramTaken ==
  ASSUME PromptsAssumption, PromptsInv, TakenInv, TelegramStep
  PROVE  TakenInv'
BY TakenFacts, TakenAside, SentTaken, EditedTaken, CallbackTaken DEF Shows, OnCleared, asker,
   actor, TelegramStep

LEMMA NextTaken ==
  ASSUME PromptsAssumption, PromptsInv, TakenInv, [Next]_vars
  PROVE  TakenInv'
BY TakenFacts, TakenAside, ClaudeTaken, HubTaken, TelegramTaken DEF vars, asker, Next

(* A message shows an answer only after the agent passed it on.            *)
THEOREM ShownWasTaken == Spec => []ShownIsTaken
<1>1. Init => TakenInv
  <2> SUFFICES ASSUME Init PROVE TakenInv
    OBVIOUS
  <2>1. DecidedOK(book) BY DEF Init, DecidedOK, NoPrompt
  <2>2. UpOK(links) BY DEF Init, UpOK, NoLink
  <2>. QED BY <2>1, <2>2 DEF Init, TakenInv
<1>2. PromptsInv /\ TakenInv /\ [Next]_vars => TakenInv' BY NextTaken, PromptsAssumption
<1>3. TakenInv => ShownIsTaken BY DEF TakenInv, DecidedOK, ShownIsTaken
<1>. QED BY <1>1, <1>2, <1>3, PromptsInvariance, PTL DEF Spec
=============================================================================
