------------------------------ MODULE PageProofs ------------------------------
(***************************************************************************)
(* Theorems about a list page and its dialog, for any items, tags,         *)
(* comments and manners of operators.                                      *)
(***************************************************************************)
EXTENDS PageProps, SequenceTheorems, TLAPS

-----------------------------------------------------------------------------
(* The states of the dialog *)

Phase(s, m, d, ts) == shown = s /\ moving = m /\ display = d /\ timers = ts
Timer(end, e) == [end |-> end, on |-> e]

Away ==
    /\ Phase(FALSE, FALSE, FALSE, <<>>)
    /\ backdrop = NoElement /\ overlays = {}

(* A dialog over its backdrop e, from the click that shows it to the end of *)
(* the backdrop                                                             *)
Over(e) ==
    /\ backdrop = e /\ overlays = {e}
    /\ \/ Phase(TRUE, TRUE, FALSE, <<Timer("backdrop in", e)>>)
       \/ Phase(TRUE, TRUE, TRUE, <<Timer("in", NoElement)>>)
       \/ Phase(TRUE, FALSE, TRUE, <<>>)
       \/ Phase(FALSE, TRUE, TRUE, <<Timer("out", NoElement)>>)
       \/ Phase(FALSE, FALSE, FALSE, <<Timer("backdrop out", e)>>)

(* A dialog that was shown while the backdrop e of the last one faded: the  *)
(* end of e removes its own backdrop f, and it stays in transition.         *)
Stuck(e, f) ==
    \/ /\ backdrop = f /\ overlays = {e, f}
       /\ Phase(TRUE, TRUE, FALSE,
                <<Timer("backdrop out", e), Timer("backdrop in", f)>>)
    \/ /\ backdrop = NoElement /\ overlays = {e}
       /\ \/ Phase(TRUE, TRUE, FALSE, <<Timer("backdrop in", f)>>)
          \/ Phase(TRUE, TRUE, FALSE, <<>>)

ModalInv ==
    \/ Away
    \/ \E e \in Elements : Over(e) \/ \E f \in Elements \ {e} : Stuck(e, f)

-----------------------------------------------------------------------------
(* Types *)

SaveKinds == {"annotate", "set", "unset"}
Kinds == SaveKinds \cup {"form", "delete", "draw"}
Table == [Items -> Row \cup {Gone}]

Answered(r) == r.answer = "done"
OfDialog(r) == r.kind \in SaveKinds /\ r.more # NoForm

RequestOK(r) ==
    /\ r \in [id : Nat, kind : Kinds, items : SUBSET Items, tags : SUBSET Tags,
              more : {r.more}, answer : {"none", "done", "failed"}]
    /\ r.kind \in SaveKinds => r.more \in Form \cup {NoForm}
    /\ r.kind = "annotate" => r.more \in Form /\ r.more.comment \in Comments
    /\ r.kind = "form" => \E i \in Items : r.items = {i}
    /\ r.kind = "form" /\ Answered(r) => r.more \in Row
    /\ r.kind = "draw" /\ Answered(r) => r.more \in Table
    /\ r.kind # "draw" => r.id < asks
    /\ r.kind = "draw" => MaxAsks < r.id /\ r.id <= lastDraw

FormOK ==
    IF form = NoForm THEN Away /\ \A r \in requests : ~OfDialog(r)
    ELSE form \in Form /\ (form.kind = "annotate" => form.comment \in Comments)

RequestsInv ==
    /\ asks \in 0..MaxAsks /\ draws \in Nat
    /\ lastDraw \in Nat /\ lastDraw <= MaxAsks + draws
    /\ \A r \in requests : RequestOK(r)
    /\ \A r, s \in requests : r.id = s.id => r = s

DataInv ==
    /\ rows \in Table /\ table \in Table /\ selection \subseteq Items
    /\ others \in Nat /\ unseen \in BOOLEAN /\ touched \subseteq Items

TypeInv == DataInv /\ RequestsInv /\ FormOK

(* The table *)

(* A change is answered, and the table not yet drawn again *)
Pending == \E r \in requests : Answered(r) /\ r.kind \in SaveKinds \cup {"delete"}
FreshInv ==
    ~unseen =>
        /\ \A r \in requests :
               r.kind = "draw" /\ Answered(r) /\ r.id >= lastDraw => r.more = rows \/ Pending
        /\ \/ table = rows
           \/ Pending
           \/ \E r \in requests : r.kind = "draw" /\ r.id = lastDraw /\ r.answer # "failed"

(* The operator who waits *)

(* One request at a time; that of the dialog is what the dialog still shows *)
CarefulInv ==
    careful =>
        /\ \A r, s \in requests : r = s
        /\ \A r \in requests :
               IF OfDialog(r)
               THEN /\ shown /\ ~moving
                    /\ r.more = form
                    /\ r.kind = form.kind /\ r.items = form.items /\ r.tags = form.tags
               ELSE ~shown

(* Form and database are in step until the form is saved, but for rows that *)
(* others have changed                                                      *)
EditInv ==
    careful =>
        /\ \A r \in requests : r.kind = "form" /\ Answered(r) =>
               \A i \in r.items : i \in touched \/ rows[i] = Gone \/ r.more = rows[i]
        /\ shown /\ form.kind = "annotate" /\ (\A r \in requests : r.answer = "none") =>
               \A i \in form.items :
                   \/ i \in touched
                   \/ rows[i] = Gone
                   \/ form.was = rows[i].tags /\ form.said = rows[i].comment

IInv == TypeInv /\ ModalInv /\ FreshInv /\ CarefulInv /\ EditInv

-----------------------------------------------------------------------------
(* The dialog *)

LEMMA AppendOne ==
    ASSUME NEW x, NEW y
    PROVE  Append(<<x>>, y) = <<x, y>>
<1> DEFINE S == {x, y}
<1>1. <<x>> \in Seq(S) /\ <<x, y>> \in Seq(S) /\ y \in S
  OBVIOUS
<1>2. /\ Append(<<x>>, y) \in Seq(S) /\ Len(Append(<<x>>, y)) = 2
      /\ Append(<<x>>, y)[1] = x /\ Append(<<x>>, y)[2] = y
  BY <1>1
<1>3. Len(<<x, y>>) = 2 /\ <<x, y>>[1] = x /\ <<x, y>>[2] = y
  OBVIOUS
<1>4. \A i \in 1..2 : i = 1 \/ i = 2
  OBVIOUS
<1>5. /\ Len(Append(<<x>>, y)) = Len(<<x, y>>)
      /\ \A i \in 1..Len(Append(<<x>>, y)) : Append(<<x>>, y)[i] = <<x, y>>[i]
  BY <1>2, <1>3, <1>4
<1> HIDE DEF S
<1> QED
  BY <1>1, <1>2, <1>5, SeqEqual

LEMMA OneTimer ==
    ASSUME NEW x
    PROVE  /\ <<x>> # <<>> /\ Head(<<x>>) = x /\ Tail(<<x>>) = <<>>
           /\ Append(<<>>, x) = <<x>>
<1>1. <<x>> # <<>> /\ Head(<<x>>) = x
  OBVIOUS
<1>2. Tail(<<x>>) = <<>>
  OBVIOUS
<1>3. Append(<<>>, x) = <<x>>
  OBVIOUS
<1> QED
  BY <1>1, <1>2, <1>3, Zenon

LEMMA TwoTimers ==
    ASSUME NEW x, NEW y
    PROVE  <<x, y>> # <<>> /\ Head(<<x, y>>) = x /\ Tail(<<x, y>>) = <<y>>
<1>1. <<x, y>> # <<>> /\ Head(<<x, y>>) = x
  OBVIOUS
<1>2. Tail(<<x, y>>) = <<y>>
  OBVIOUS
<1> QED
  BY <1>1, <1>2, Zenon

(* The one step that a timer at the head allows *)
LEMMA Ended ==
    ASSUME NEW end, NEW e, timers # <<>>, Head(timers) = Timer(end, e), TransitionEnds
    PROVE  /\ e \notin overlays \cup {NoElement} =>
                 /\ timers' = Tail(timers) /\ shown' = shown /\ moving' = moving
                 /\ display' = display /\ backdrop' = backdrop /\ overlays' = overlays
           /\ e \in overlays \cup {NoElement} /\ end = "backdrop in" =>
                 /\ display' = TRUE
                 /\ timers' = Append(Tail(timers), Timer("in", NoElement))
                 /\ shown' = shown /\ moving' = moving
                 /\ backdrop' = backdrop /\ overlays' = overlays
           /\ e \in overlays \cup {NoElement} /\ end = "in" =>
                 /\ moving' = FALSE /\ timers' = Tail(timers)
                 /\ shown' = shown /\ display' = display
                 /\ backdrop' = backdrop /\ overlays' = overlays
           /\ e \in overlays \cup {NoElement} /\ end = "out" /\ backdrop # NoElement =>
                 /\ display' = FALSE /\ moving' = FALSE
                 /\ timers' = Append(Tail(timers), Timer("backdrop out", backdrop))
                 /\ shown' = shown /\ backdrop' = backdrop /\ overlays' = overlays
           /\ e \in overlays \cup {NoElement} /\ end = "backdrop out" =>
                 /\ overlays' = overlays \ {backdrop} /\ backdrop' = NoElement
                 /\ timers' = Tail(timers)
                 /\ shown' = shown /\ moving' = moving /\ display' = display
<1>1. Head(timers).end = end /\ Head(timers).on = e
  BY DEF Timer
<1>2. Bound(Head(timers)) <=> e \in overlays \cup {NoElement}
  BY <1>1 DEF Bound
<1>3. CASE Lapse
  BY <1>2, <1>3 DEF Lapse
<1>4. CASE BackdropIn
  BY <1>1, <1>2, <1>4 DEF BackdropIn, Ending, Timer
<1>5. CASE TransitionComplete
  BY <1>1, <1>2, <1>5 DEF TransitionComplete, Ending
<1>6. CASE HideModal
  BY <1>1, <1>2, <1>6 DEF HideModal, Ending, Timer
<1>7. CASE RemoveBackdrop
  BY <1>1, <1>2, <1>7 DEF RemoveBackdrop, Ending
<1> QED
  BY <1>3, <1>4, <1>5, <1>6, <1>7 DEF TransitionEnds

LEMMA FreshElement ==
    ASSUME NEW e, overlays \subseteq {e}
    PROVE  Fresh \in Elements \ overlays
<1>1. \E x \in Elements : x \notin overlays
  BY DEF Elements
<1> QED
  BY <1>1 DEF Fresh

LEMMA ModalShow ==
    ASSUME ModalInv, Show
    PROVE  ModalInv'
<1>1. CASE shown \/ moving
  BY <1>1 DEF Show, modal, ModalInv, Away, Over, Stuck, Phase
<1>2. CASE ~shown /\ ~moving
  <2>1. PICK f : f = Fresh
    OBVIOUS
  <2>2. /\ shown' = TRUE /\ moving' = TRUE /\ display' = display
        /\ backdrop' = f /\ overlays' = overlays \cup {f}
        /\ timers' = Append(timers, Timer("backdrop in", f))
    BY <1>2, <2>1 DEF Show, Start, Timer
  <2>3. CASE Away
    <3>1. f \in Elements
      BY <2>1, <2>3, FreshElement DEF Away
    <3>2. /\ timers' = <<Timer("backdrop in", f)>> /\ overlays' = {f} /\ display' = FALSE
      BY <2>2, <2>3, OneTimer DEF Away, Phase
    <3>3. Over(f)'
      BY <2>2, <3>2 DEF Over, Phase
    <3> QED
      BY <3>1, <3>3 DEF ModalInv
  <2>4. CASE ~Away
    <3>1. PICK e \in Elements : /\ backdrop = e /\ overlays = {e} /\ display = FALSE
                                /\ timers = <<Timer("backdrop out", e)>>
      BY <1>2, <2>4 DEF ModalInv, Over, Stuck, Phase
    <3>2. f \in Elements \ {e}
      BY <2>1, <3>1, FreshElement
    <3>3. timers' = <<Timer("backdrop out", e), Timer("backdrop in", f)>>
      BY <2>2, <3>1, AppendOne
    <3>4. overlays' = {e, f} /\ display' = FALSE
      BY <2>2, <3>1
    <3>5. Stuck(e, f)'
      BY <2>2, <3>3, <3>4 DEF Stuck, Phase
    <3> QED
      BY <3>2, <3>5 DEF ModalInv
  <2> QED
    BY <2>3, <2>4
<1> QED
  BY <1>1, <1>2

LEMMA ModalHide ==
    ASSUME ModalInv, Hide
    PROVE  ModalInv'
<1>1. CASE ~shown \/ moving
  BY <1>1 DEF Hide, modal, ModalInv, Away, Over, Stuck, Phase
<1>2. CASE shown /\ ~moving
  <2>1. PICK e \in Elements : /\ backdrop = e /\ overlays = {e} /\ display = TRUE
                              /\ timers = <<>>
    BY <1>2 DEF ModalInv, Away, Over, Stuck, Phase
  <2>2. Over(e)'
    BY <1>2, <2>1 DEF Hide, Start, Timer, Over, Phase
  <2> QED
    BY <2>2 DEF ModalInv
<1> QED
  BY <1>1, <1>2

LEMMA ModalEnds ==
    ASSUME ModalInv, TransitionEnds
    PROVE  ModalInv' /\ (shown' <=> shown)
<1> USE ElementAssumption
<1>1. CASE Away
  BY <1>1 DEF Away, Phase, TransitionEnds, Lapse, BackdropIn, TransitionComplete,
              HideModal, RemoveBackdrop, Ending
<1>2. ASSUME NEW e \in Elements, Over(e)
      PROVE  (Away' \/ Over(e)') /\ (shown' <=> shown)
  <2>1. e # NoElement /\ backdrop = e /\ overlays = {e}
    BY <1>2 DEF Over
  <2>2. CASE Phase(TRUE, TRUE, FALSE, <<Timer("backdrop in", e)>>)
    <3>1. timers # <<>> /\ Head(timers) = Timer("backdrop in", e) /\ Tail(timers) = <<>>
      BY <2>2, OneTimer DEF Phase
    <3>2. /\ display' = TRUE /\ timers' = Append(<<>>, Timer("in", NoElement))
          /\ shown' = shown /\ moving' = moving
          /\ backdrop' = backdrop /\ overlays' = overlays
      BY <2>1, <3>1, Ended
    <3> QED
      BY <2>1, <2>2, <3>2, OneTimer DEF Over, Phase
  <2>3. CASE Phase(TRUE, TRUE, TRUE, <<Timer("in", NoElement)>>)
    <3>1. timers # <<>> /\ Head(timers) = Timer("in", NoElement) /\ Tail(timers) = <<>>
      BY <2>3, OneTimer DEF Phase
    <3>2. /\ moving' = FALSE /\ timers' = <<>>
          /\ shown' = shown /\ display' = display
          /\ backdrop' = backdrop /\ overlays' = overlays
      BY <2>1, <3>1, Ended
    <3> QED
      BY <2>1, <2>3, <3>2, OneTimer DEF Over, Phase
  <2>4. CASE Phase(TRUE, FALSE, TRUE, <<>>)
    BY <2>4 DEF Phase, TransitionEnds, Lapse, BackdropIn, TransitionComplete,
                HideModal, RemoveBackdrop, Ending
  <2>5. CASE Phase(FALSE, TRUE, TRUE, <<Timer("out", NoElement)>>)
    <3>1. timers # <<>> /\ Head(timers) = Timer("out", NoElement) /\ Tail(timers) = <<>>
      BY <2>5, OneTimer DEF Phase
    <3>2. /\ display' = FALSE /\ moving' = FALSE
          /\ timers' = Append(<<>>, Timer("backdrop out", e))
          /\ shown' = shown /\ backdrop' = backdrop /\ overlays' = overlays
      BY <2>1, <3>1, Ended
    <3> QED
      BY <2>1, <2>5, <3>2, OneTimer DEF Over, Phase
  <2>6. CASE Phase(FALSE, FALSE, FALSE, <<Timer("backdrop out", e)>>)
    <3>1. timers # <<>> /\ Head(timers) = Timer("backdrop out", e) /\ Tail(timers) = <<>>
      BY <2>6, OneTimer DEF Phase
    <3>2. /\ overlays' = {} /\ backdrop' = NoElement /\ timers' = <<>>
          /\ shown' = shown /\ moving' = moving /\ display' = display
      BY <2>1, <3>1, Ended
    <3> QED
      BY <2>1, <2>6, <3>2, OneTimer DEF Away, Phase
  <2> QED
    BY <1>2, <2>2, <2>3, <2>4, <2>5, <2>6 DEF Over
<1>3. ASSUME NEW e \in Elements, NEW f \in Elements \ {e}, Stuck(e, f)
      PROVE  Stuck(e, f)' /\ (shown' <=> shown)
  <2>1. e # NoElement /\ f # NoElement
    OBVIOUS
  <2>2. CASE /\ backdrop = f /\ overlays = {e, f}
             /\ Phase(TRUE, TRUE, FALSE,
                      <<Timer("backdrop out", e), Timer("backdrop in", f)>>)
    <3>1. /\ timers # <<>> /\ Head(timers) = Timer("backdrop out", e)
          /\ Tail(timers) = <<Timer("backdrop in", f)>>
      BY <2>2, TwoTimers DEF Phase
    <3>2. /\ overlays' = {e} /\ backdrop' = NoElement
          /\ timers' = <<Timer("backdrop in", f)>>
          /\ shown' = shown /\ moving' = moving /\ display' = display
      BY <2>1, <2>2, <3>1, Ended
    <3> QED
      BY <2>2, <3>2 DEF Stuck, Phase
  <2>3. CASE /\ backdrop = NoElement /\ overlays = {e}
             /\ Phase(TRUE, TRUE, FALSE, <<Timer("backdrop in", f)>>)
    <3>1. timers # <<>> /\ Head(timers) = Timer("backdrop in", f) /\ Tail(timers) = <<>>
      BY <2>3, OneTimer DEF Phase
    <3>2. /\ timers' = <<>> /\ shown' = shown /\ moving' = moving
          /\ display' = display /\ backdrop' = backdrop /\ overlays' = overlays
      BY <2>1, <2>3, <3>1, Ended
    <3> QED
      BY <2>3, <3>2 DEF Stuck, Phase
  <2>4. CASE Phase(TRUE, TRUE, FALSE, <<>>)
    BY <2>4 DEF Phase, TransitionEnds, Lapse, BackdropIn, TransitionComplete,
                HideModal, RemoveBackdrop, Ending
  <2> QED
    BY <1>3, <2>2, <2>3, <2>4 DEF Stuck
<1> QED
  BY <1>1, <1>2, <1>3 DEF ModalInv

(* No step of the page but those of the dialog touches it *)
LEMMA ModalNext ==
    ASSUME ModalInv, [Next]_vars
    PROVE  ModalInv'
<1>1. CASE UNCHANGED modal
  BY <1>1 DEF ModalInv, Away, Over, Stuck, Phase, modal
<1>2. CASE Show
  BY <1>2, ModalShow
<1>3. CASE Hide
  BY <1>3, ModalHide
<1>4. CASE TransitionEnds
  BY <1>4, ModalEnds
<1>5. UNCHANGED modal \/ Show \/ Hide \/ TransitionEnds
  <2>1. CASE Operator
    BY <2>1 DEF Operator, Select, Annotate, Freetag, Tag, Delete, Edit, Save, Dismiss
  <2>2. CASE Server
    BY <2>2 DEF Server, Serve, ServeFails
  <2>3. CASE Browser
    BY <2>3 DEF Browser, FormCame, Saved, SaveFailed, Done, Failed, Drawn, Toggle
  <2>4. CASE Other \/ Transition \/ UNCHANGED vars
    BY <2>4 DEF Other, Transition, vars
  <2> QED
    BY <2>1, <2>2, <2>3, <2>4 DEF Next
<1> QED
  BY <1>1, <1>2, <1>3, <1>4, <1>5

(* What the phases of the dialog tell *)
LEMMA ModalFacts ==
    ASSUME ModalInv
    PROVE  /\ overlays = {} => Away
           /\ Away => ~shown /\ ~display /\ ~moving /\ timers = <<>> /\ overlays = {}
           /\ shown /\ ~moving => timers = <<>>
           /\ ~shown /\ timers = <<>> => Away
<1>1. CASE Away
  BY <1>1 DEF Away, Phase
<1>2. ASSUME NEW e \in Elements, Over(e)
      PROVE  /\ overlays # {} /\ ~Away
             /\ (shown /\ ~moving => timers = <<>>) /\ (timers = <<>> => shown)
  <2>1. \A end, x : <<Timer(end, x)>> # <<>>
    BY OneTimer
  <2> QED
    BY <1>2, <2>1 DEF Over, Phase, Away
<1>3. ASSUME NEW e \in Elements, NEW f \in Elements \ {e}, Stuck(e, f)
      PROVE  overlays # {} /\ ~Away /\ shown /\ moving
  BY <1>3 DEF Stuck, Phase, Away
<1> QED
  BY <1>1, <1>2, <1>3 DEF ModalInv

-----------------------------------------------------------------------------
(* Requests and their answers *)

LEMMA Later ==
    ASSUME RequestsInv, asks' \in Nat, lastDraw' \in Nat,
           asks' >= asks, lastDraw' >= lastDraw,
           NEW r \in requests
    PROVE  RequestOK(r)'
<1>1. RequestOK(r) /\ r.id \in Nat /\ asks \in Nat /\ lastDraw \in Nat
  BY DEF RequestsInv, RequestOK
<1>2. /\ r.kind # "draw" => r.id < asks'
      /\ r.kind = "draw" => MaxAsks < r.id /\ r.id <= lastDraw'
  BY <1>1, BoundsAssumption DEF RequestOK
<1> QED
  BY <1>1, <1>2 DEF RequestOK, Answered

LEMMA AskRequests ==
    ASSUME RequestsInv, NEW kind \in Kinds \ {"draw"}, NEW items \in SUBSET Items,
           NEW tags \in SUBSET Tags, NEW more,
           kind \in SaveKinds => more \in Form \cup {NoForm},
           kind = "annotate" => more \in Form /\ more.comment \in Comments,
           kind = "form" => \E i \in Items : items = {i},
           Ask(kind, items, tags, more), UNCHANGED <<lastDraw, draws>>
    PROVE  RequestsInv'
<1>1. PICK q : q = Request(kind, items, tags, more)
  OBVIOUS
<1>2. /\ requests' = requests \cup {q} /\ asks' = asks + 1 /\ asks < MaxAsks
      /\ lastDraw' = lastDraw /\ draws' = draws
  BY <1>1 DEF Ask
<1>3. /\ asks \in Nat /\ MaxAsks \in Nat /\ asks' \in 0..MaxAsks /\ lastDraw \in Nat
  BY <1>2, BoundsAssumption DEF RequestsInv
<1>4. \A r \in requests : RequestOK(r)'
  BY <1>2, <1>3, Later
<1>5. RequestOK(q)'
  BY <1>1, <1>2, <1>3 DEF RequestOK, Request, Answered, SaveKinds, Kinds
<1>6. \A r \in requests : r.id # q.id
  BY <1>1, <1>2, <1>3 DEF RequestsInv, RequestOK, Request
<1> QED
  BY <1>2, <1>3, <1>4, <1>5, <1>6 DEF RequestsInv

LEMMA AnswerRequests ==
    ASSUME RequestsInv, NEW r \in requests, NEW answer \in {"done", "failed"}, NEW body,
           Answer(r, answer, body), UNCHANGED <<asks, draws, lastDraw>>,
           r.kind \in SaveKinds => body = r.more,
           r.kind = "form" /\ answer = "done" => body \in Row,
           r.kind = "draw" /\ answer = "done" => body \in Table
    PROVE  RequestsInv'
<1>1. PICK q : q = [r EXCEPT !.answer = answer, !.more = body]
  OBVIOUS
<1>2. /\ requests' = (requests \ {r}) \cup {q} /\ asks' = asks
      /\ lastDraw' = lastDraw /\ draws' = draws
  BY <1>1 DEF Answer
<1>3. RequestOK(r)
  BY DEF RequestsInv
<1>4. /\ q.id = r.id /\ q.kind = r.kind /\ q.items = r.items /\ q.tags = r.tags
      /\ q.more = body /\ q.answer = answer
      /\ q \in [id : Nat, kind : Kinds, items : SUBSET Items, tags : SUBSET Tags,
                more : {q.more}, answer : {"none", "done", "failed"}]
  BY <1>1, <1>3 DEF RequestOK
<1>5. RequestOK(q)'
  BY <1>2, <1>3, <1>4 DEF RequestOK, Answered, SaveKinds
<1>6. \A s \in requests \ {r} : RequestOK(s)' /\ s.id # q.id
  BY <1>2, <1>4, Later DEF RequestsInv
<1> QED
  BY <1>2, <1>5, <1>6 DEF RequestsInv

LEMMA DropRequests ==
    ASSUME RequestsInv, NEW r, NoDraw(r), UNCHANGED asks
    PROVE  RequestsInv'
<1>1. /\ requests' = requests \ {r} /\ asks' = asks /\ lastDraw' = lastDraw
      /\ draws' = draws
  BY DEF NoDraw
<1>2. \A s \in requests : RequestOK(s)'
  BY <1>1, Later DEF RequestsInv
<1> QED
  BY <1>1, <1>2 DEF RequestsInv

LEMMA DrawRequests ==
    ASSUME RequestsInv, NEW r \in requests, Draw(r), UNCHANGED asks
    PROVE  /\ RequestsInv'
           /\ lastDraw < lastDraw'
           /\ \E q : /\ requests' = (requests \ {r}) \cup {q}
                    /\ q.kind = "draw" /\ q.id = lastDraw' /\ q.answer = "none"
<1>1. PICK q : q = [id |-> MaxAsks + draws + 1, kind |-> "draw", items |-> {},
                    tags |-> {}, more |-> NoForm, answer |-> "none"]
  OBVIOUS
<1>2. /\ requests' = (requests \ {r}) \cup {q} /\ asks' = asks /\ draws' = draws + 1
      /\ lastDraw' = MaxAsks + draws + 1
  BY <1>1 DEF Draw
<1>3. /\ asks \in 0..MaxAsks /\ MaxAsks \in Nat /\ draws \in Nat /\ lastDraw \in Nat
      /\ lastDraw < lastDraw' /\ lastDraw' \in Nat /\ lastDraw' <= MaxAsks + draws'
      /\ asks \in Nat
  BY <1>2, BoundsAssumption DEF RequestsInv
<1>4. RequestOK(q)'
  BY <1>1, <1>2, <1>3 DEF RequestOK, Kinds, SaveKinds, Answered
<1>5. \A s \in requests : RequestOK(s)'
  BY <1>2, <1>3, Later
<1>6. \A s \in requests : s.id # q.id
  BY <1>1, <1>2, <1>3 DEF RequestsInv, RequestOK
<1>7. RequestsInv'
  BY <1>2, <1>3, <1>4, <1>5, <1>6 DEF RequestsInv
<1>8. q.kind = "draw" /\ q.id = lastDraw' /\ q.answer = "none"
  BY <1>1, <1>2
<1>9. lastDraw < lastDraw'
  BY <1>3
<1> QED
  BY <1>2, <1>7, <1>8, <1>9, Zenon

-----------------------------------------------------------------------------
(* Types *)

LEMMA FormFacts ==
    ASSUME TypeInv, ModalInv, display
    PROVE  form \in Form /\ (form.kind = "annotate" => form.comment \in Comments)
  BY ModalFacts DEF TypeInv, FormOK

LEMMA ServeRequests ==
    ASSUME DataInv, RequestsInv, NEW r \in requests, Serve(r)
    PROVE  RequestsInv'
<1>1. RequestOK(r) /\ UNCHANGED <<asks, draws, lastDraw>>
  BY DEF RequestsInv, Serve
<1>2. CASE Refused(r)
  <2>1. PICK body : body = r.more
    OBVIOUS
  <2>2. Answer(r, "failed", body)
    BY <1>2, <2>1 DEF Serve, Answer
  <2> QED
    BY <1>1, <2>1, <2>2, AnswerRequests
<1>3. CASE ~Refused(r)
  <2>1. PICK body : body = Body(r)
    OBVIOUS
  <2>2. Answer(r, "done", body)
    BY <1>3, <2>1 DEF Serve, Answer
  <2>3. r.kind \in SaveKinds => body = r.more
    BY <2>1 DEF Body, SaveKinds
  <2>4. ASSUME r.kind = "form"
        PROVE  body \in Row
    <3>1. PICK i \in Items : r.items = {i}
      BY <1>1, <2>4 DEF RequestOK
    <3>2. body = IF rows[i] = Gone
                 THEN [tags |-> {}, comment |-> CHOOSE c \in Comments : TRUE]
                 ELSE rows[i]
      <4>1. Item(r) = i
        BY <3>1 DEF Item
      <4> QED
        BY <2>1, <2>4, <4>1 DEF Body
    <3>3. (CHOOSE c \in Comments : TRUE) \in Comments
      BY CommentsAssumption
    <3> QED
      BY <3>2, <3>3 DEF DataInv, Table, Row
  <2>5. r.kind = "draw" => body \in Table
    BY <2>1 DEF Body, DataInv
  <2> QED
    BY <1>1, <2>2, <2>3, <2>4, <2>5, AnswerRequests
<1> QED
  BY <1>2, <1>3

(* What a request that was served, or failed, leaves in the table of the    *)
(* database                                                                 *)
LEMMA ServedRow ==
    ASSUME DataInv, NEW r \in requests, Serve(r) \/ ServeFails(r), NEW i \in Items
    PROVE  rows'[i] = rows[i] \/ (rows'[i] = NewRow(i, r) /\ ~Refused(r))
<1>1. CASE Serve(r)
  BY <1>1 DEF Serve
<1>2. CASE ServeFails(r)
  <2>1. PICK done \in Committed(r) :
            rows' = [j \in Items |-> IF j \in done THEN NewRow(j, r) ELSE rows[j]]
    BY <1>2 DEF ServeFails
  <2>2. Refused(r) => done = {}
    BY <2>1 DEF Committed
  <2> QED
    BY <2>1, <2>2
<1> QED
  BY <1>1, <1>2

LEMMA ServeRows ==
    ASSUME DataInv, RequestsInv, NEW r \in requests, Serve(r) \/ ServeFails(r)
    PROVE  rows' \in Table
<1>1. RequestOK(r)
  BY DEF RequestsInv
<1>2. ASSUME NEW i \in Items
      PROVE  NewRow(i, r) \in Row \cup {Gone}
  <2>1. rows[i] \in Row \cup {Gone}
    BY DEF DataInv, Table
  <2>2. CASE i \notin Present(r)
    BY <2>1, <2>2 DEF NewRow
  <2>3. CASE i \in Present(r)
    <3>1. rows[i] \in Row
      BY <2>1, <2>3 DEF Present
    <3>2. Retag(i, r) \in Row
      BY <1>1, <3>1 DEF Retag, Row, RequestOK
    <3>3. r.kind = "annotate" => [tags |-> r.tags, comment |-> r.more.comment] \in Row
      BY <1>1 DEF RequestOK, Row
    <3> QED
      BY <2>1, <2>3, <3>2, <3>3 DEF NewRow
  <2> QED
    BY <2>2, <2>3
<1>3. \E f : rows' = [i \in Items |-> f[i]]
  <2>1. CASE rows' = rows
    BY <2>1 DEF DataInv, Table
  <2>2. CASE Serve(r) /\ rows' # rows
    <3>1. rows' = [i \in Items |-> NewRow(i, r)]
      BY <2>2 DEF Serve
    <3> QED
      BY <3>1
  <2>3. CASE ServeFails(r)
    <3>1. PICK done \in Committed(r) :
              rows' = [i \in Items |-> IF i \in done THEN NewRow(i, r) ELSE rows[i]]
      BY <2>3 DEF ServeFails
    <3> QED
      BY <3>1
  <2> QED
    BY <2>1, <2>2, <2>3
<1>4. \A i \in Items : rows'[i] \in Row \cup {Gone}
  BY <1>2, ServedRow DEF DataInv, Table
<1> QED
  BY <1>3, <1>4 DEF Table

LEMMA AskSomething ==
    ASSUME Annotate \/ Tag \/ Delete \/ Save
    PROVE  \E kind, items, tags, more : Ask(kind, items, tags, more)
<1>1. CASE Annotate
  BY <1>1 DEF Annotate
<1>2. CASE Tag
  BY <1>2 DEF Tag
<1>3. CASE Delete
  BY <1>3 DEF Delete
<1>4. CASE Save
  BY <1>4 DEF Save
<1> QED
  BY <1>1, <1>2, <1>3, <1>4

LEMMA RequestsNext ==
    ASSUME TypeInv, ModalInv, [Next]_vars
    PROVE  RequestsInv'
<1>0. RequestsInv /\ DataInv
  BY DEF TypeInv
<1>1. CASE UNCHANGED <<requests, asks, draws, lastDraw>>
  BY <1>0, <1>1, Later DEF RequestsInv
<1>2. CASE Annotate
  <2>1. PICK i \in Items : Ask("form", {i}, {}, NoForm)
    BY <1>2 DEF Annotate
  <2> QED
    BY <1>0, <1>2, <2>1, AskRequests DEF Annotate, Kinds, SaveKinds
<1>3. CASE Tag
  <2>1. PICK t \in Tags, action \in {"set", "unset"}, items \in SUBSET Items :
            Ask(action, items, {t}, NoForm)
    BY <1>0, <1>3 DEF Tag, DataInv
  <2> QED
    BY <1>0, <1>3, <2>1, AskRequests DEF Tag, Kinds, SaveKinds
<1>4. CASE Delete
  <2>1. PICK items \in SUBSET Items : Ask("delete", items, {}, NoForm)
    BY <1>0, <1>4 DEF Delete, DataInv
  <2> QED
    BY <1>0, <1>4, <2>1, AskRequests DEF Delete, Kinds, SaveKinds
<1>5. CASE Save
  <2>1. form \in Form /\ (form.kind = "annotate" => form.comment \in Comments)
    BY <1>5, FormFacts DEF Save, InDialog
  <2>2. PICK f : f = form
    OBVIOUS
  <2>3. Ask(f.kind, f.items, f.tags, f)
    BY <1>5, <2>2 DEF Save, Ask
  <2>4. /\ f.kind \in Kinds \ {"draw"} /\ f.items \in SUBSET Items /\ f.tags \in SUBSET Tags
        /\ f.kind # "form" /\ f \in Form
    BY <2>1, <2>2 DEF Form, Kinds, SaveKinds
  <2> QED
    BY <1>0, <1>5, <2>1, <2>2, <2>3, <2>4, AskRequests DEF Save
<1>6. ASSUME NEW r \in requests, Serve(r)
      PROVE  RequestsInv'
  BY <1>0, <1>6, ServeRequests
<1>7. ASSUME NEW r \in requests, ServeFails(r)
      PROVE  RequestsInv'
  <2>1. PICK body : body = r.more
    OBVIOUS
  <2>2. Answer(r, "failed", body)
    BY <1>7, <2>1 DEF ServeFails, Answer
  <2> QED
    BY <1>0, <1>7, <2>1, <2>2, AnswerRequests DEF ServeFails
<1>8. ASSUME NEW r \in requests, FormCame(r) \/ SaveFailed(r) \/ Failed(r) \/ Drawn(r)
      PROVE  RequestsInv'
  BY <1>0, <1>8, DropRequests DEF FormCame, SaveFailed, Failed, Drawn
<1>9. ASSUME NEW r \in requests, Saved(r) \/ Done(r)
      PROVE  RequestsInv'
  BY <1>0, <1>9, DrawRequests DEF Saved, Done
<1>10. CASE Operator
  BY <1>1, <1>2, <1>3, <1>4, <1>5, <1>10
     DEF Operator, Select, Freetag, Edit, Dismiss
<1>11. CASE Server
  BY <1>6, <1>7, <1>11 DEF Server
<1>12. CASE Browser
  BY <1>8, <1>9, <1>12 DEF Browser
<1> QED
  BY <1>1, <1>10, <1>11, <1>12 DEF Next, Other, Transition, vars

LEMMA DataNext ==
    ASSUME TypeInv, [Next]_vars
    PROVE  DataInv'
<1>0. RequestsInv /\ DataInv
  BY DEF TypeInv
<1>1. CASE UNCHANGED <<rows, data, others, unseen, touched>>
  BY <1>0, <1>1 DEF DataInv, data
<1>2. CASE Select
  BY <1>0, <1>2 DEF Select, DataInv, modal
<1>3. ASSUME NEW r \in requests, Serve(r) \/ ServeFails(r)
      PROVE  DataInv'
  <2>1. rows' \in Table
    BY <1>0, <1>3, ServeRows
  <2>2. table' = table /\ selection' = selection /\ others' = others
    BY <1>3 DEF Serve, ServeFails, data
  <2>3. unseen' \in BOOLEAN
    BY <1>3 DEF Serve, ServeFails
  <2>4. touched' \subseteq touched
    BY <1>3 DEF Serve, ServeFails
  <2> QED
    BY <1>0, <2>1, <2>2, <2>3, <2>4 DEF DataInv
<1>4. ASSUME NEW r \in requests, Drawn(r)
      PROVE  DataInv'
  BY <1>0, <1>4 DEF Drawn, DataInv, data, RequestsInv, RequestOK, Answered
<1>5. CASE Other
  <2>1. PICK i \in Items :
            /\ rows[i] # Gone
            /\ \/ \E t \in Tags \ rows[i].tags :
                      rows' = [rows EXCEPT ![i].tags = @ \cup {t}]
               \/ \E c \in Comments \ {rows[i].comment} :
                      rows' = [rows EXCEPT ![i].comment = c]
               \/ rows' = [rows EXCEPT ![i] = Gone]
            /\ touched' = touched \cup {i}
    BY <1>5 DEF Other
  <2>2. rows[i] \in Row
    BY <1>0, <2>1 DEF DataInv, Table
  <2>3. rows' \in Table
    <3>1. CASE rows' = [rows EXCEPT ![i] = Gone]
      BY <1>0, <3>1 DEF DataInv, Table
    <3>2. ASSUME NEW t \in Tags, rows' = [rows EXCEPT ![i].tags = @ \cup {t}]
          PROVE  rows' \in Table
      <4>1. [rows[i] EXCEPT !.tags = @ \cup {t}] \in Row
        BY <2>2 DEF Row
      <4>2. rows' = [rows EXCEPT ![i] = [rows[i] EXCEPT !.tags = @ \cup {t}]]
        BY <1>0, <3>2 DEF DataInv, Table
      <4> QED
        BY <1>0, <4>1, <4>2 DEF DataInv, Table
    <3>3. ASSUME NEW c \in Comments, rows' = [rows EXCEPT ![i].comment = c]
          PROVE  rows' \in Table
      <4>1. [rows[i] EXCEPT !.comment = c] \in Row
        BY <2>2 DEF Row
      <4>2. rows' = [rows EXCEPT ![i] = [rows[i] EXCEPT !.comment = c]]
        BY <1>0, <3>3 DEF DataInv, Table
      <4> QED
        BY <1>0, <4>1, <4>2 DEF DataInv, Table
    <3> QED
      BY <2>1, <3>1, <3>2, <3>3
  <2>4. others' = others + 1 /\ UNCHANGED data /\ unseen' = TRUE
    BY <1>5 DEF Other
  <2> QED
    BY <1>0, <2>1, <2>3, <2>4 DEF DataInv, data
<1>6. CASE Operator
  BY <1>1, <1>2, <1>6 DEF Operator, Annotate, Freetag, Tag, Delete, Edit, Save, Dismiss
<1>7. CASE Server
  BY <1>3, <1>7 DEF Server
<1>8. CASE Browser
  BY <1>1, <1>4, <1>8 DEF Browser, FormCame, Saved, SaveFailed, Done, Failed
<1> QED
  BY <1>1, <1>5, <1>6, <1>7, <1>8 DEF Next, Transition, vars

(* A dialog without a form is away and nothing is to be answered into it *)
LEMMA FormStays ==
    ASSUME FormOK, form' = form,
           form = NoForm =>
               UNCHANGED modal /\ \A r \in requests' : r \in requests \/ ~OfDialog(r)
    PROVE  FormOK'
  BY DEF FormOK, OfDialog, Away, Phase, modal

LEMMA FormNext ==
    ASSUME TypeInv, ModalInv, [Next]_vars
    PROVE  FormOK'
<1> USE DEF NoDraw
<1>0. RequestsInv /\ DataInv /\ FormOK
  BY DEF TypeInv
<1>1. CASE /\ UNCHANGED <<form, modal>>
           /\ \A r \in requests' : r \in requests \/ ~OfDialog(r)
  BY <1>0, <1>1, FormStays
<1>2. CASE Freetag
  <2>1. PICK action \in {"set", "unset"} :
            form' = [kind |-> action, items |-> selection, tags |-> {}, comment |-> NoForm,
                     was |-> {}, said |-> NoForm]
    BY <1>2 DEF Freetag
  <2>2. form' \in Form /\ form'.kind # "annotate"
    BY <1>0, <2>1 DEF DataInv, Form
  <2> QED
    BY <2>2, NoFormAssumption DEF FormOK
<1>3. CASE Edit
  <2>1. form \in Form /\ (form.kind = "annotate" => form.comment \in Comments)
    BY <1>3, FormFacts DEF Edit, InDialog
  <2>2. form' \in Form /\ (form'.kind = "annotate" => form'.comment \in Comments)
    BY <1>3, <2>1, LowerAssumption DEF Edit, Form
  <2> QED
    BY <2>2, NoFormAssumption DEF FormOK
<1>4. CASE Save \/ Dismiss
  BY <1>0, <1>4, FormFacts, FormStays, NoFormAssumption DEF Save, Dismiss, InDialog
<1>5. ASSUME NEW r \in requests, Serve(r) \/ ServeFails(r)
      PROVE  FormOK'
  <2>1. PICK answer, body : /\ Answer(r, answer, body)
                            /\ r.kind \in SaveKinds => body = r.more
    BY <1>5 DEF Serve, ServeFails, Answer, Body, SaveKinds
  <2>2. PICK q : q = [r EXCEPT !.answer = answer, !.more = body]
    OBVIOUS
  <2>3. requests' = (requests \ {r}) \cup {q} /\ form' = form /\ UNCHANGED modal
    BY <1>5, <2>1, <2>2 DEF Answer, Serve, ServeFails
  <2>4. q.kind = r.kind /\ q.more = body
    BY <1>0, <2>2 DEF RequestsInv, RequestOK
  <2>5. OfDialog(q) => OfDialog(r)
    BY <2>1, <2>4 DEF OfDialog
  <2> QED
    BY <1>0, <2>3, <2>5 DEF FormOK, OfDialog, Away, Phase, modal
<1>6. ASSUME NEW r \in requests, FormCame(r)
      PROVE  FormOK'
  <2>1. /\ r.items \in SUBSET Items /\ r.more \in Row
        /\ form' = FormOf(r)
    BY <1>0, <1>6 DEF FormCame, RequestsInv, RequestOK, Answered
  <2>2. r.more.tags \in SUBSET Tags /\ r.more.comment \in Comments
    BY <2>1 DEF Row
  <2>3. Editor(r.more.tags) \in SUBSET Tags
    BY <2>2, LowerAssumption DEF Editor
  <2>4. form' \in Form /\ form'.comment \in Comments
    BY <2>1, <2>2, <2>3 DEF FormOf, Form
  <2> QED
    BY <2>4, NoFormAssumption DEF FormOK
<1>7. ASSUME NEW r \in requests, Saved(r) \/ SaveFailed(r)
      PROVE  FormOK'
  <2>1. OfDialog(r) /\ form' = form
    BY <1>7 DEF Saved, SaveFailed, OfDialog, SaveKinds
  <2>2. form # NoForm
    BY <1>0, <2>1 DEF FormOK
  <2> QED
    BY <1>0, <2>1, <2>2, FormStays
<1>8. ASSUME NEW r \in requests, Done(r)
      PROVE  FormOK'
  <2>1. PICK q : requests' = (requests \ {r}) \cup {q} /\ q.kind = "draw"
    BY <1>0, <1>8, DrawRequests DEF Done
  <2>2. ~OfDialog(q)
    BY <2>1 DEF OfDialog, SaveKinds
  <2> QED
    BY <1>1, <1>8, <2>1, <2>2 DEF Done
<1>9. CASE Annotate \/ Tag \/ Delete
  BY <1>1, <1>9 DEF Annotate, Tag, Delete, Ask, Request, OfDialog
<1>10. CASE Transition
  <2>1. CASE form = NoForm
    <3>1. timers = <<>>
      BY <1>0, <2>1, ModalFacts DEF FormOK
    <3> QED
      BY <1>10, <3>1 DEF Transition, TransitionEnds, Lapse, BackdropIn, TransitionComplete,
                         HideModal, RemoveBackdrop, Ending
  <2>2. CASE form # NoForm
    BY <1>0, <1>10, <2>2, FormStays DEF Transition
  <2> QED
    BY <2>1, <2>2
<1>11. CASE Operator
  BY <1>1, <1>2, <1>3, <1>4, <1>9, <1>11 DEF Operator, Select
<1>12. CASE Server
  BY <1>5, <1>12 DEF Server
<1>13. CASE Browser
  BY <1>1, <1>6, <1>7, <1>8, <1>13 DEF Browser, Failed, Drawn
<1> QED
  BY <1>1, <1>10, <1>11, <1>12, <1>13 DEF Next, Other, vars

LEMMA TypeNext ==
    ASSUME TypeInv, ModalInv, [Next]_vars
    PROVE  TypeInv'
  BY RequestsNext, DataNext, FormNext DEF TypeInv

-----------------------------------------------------------------------------
(* The table *)

(* Says nothing of the table *)
Silent(r) ==
    /\ r.kind = "draw" => r.answer = "failed" \/ r.id # lastDraw
    /\ Answered(r) => r.kind \notin SaveKinds \cup {"delete"}

LEMMA FreshKept ==
    ASSUME FreshInv, rows' = rows, table' = table,
           lastDraw' = lastDraw, unseen' = unseen,
           \A r \in requests : r \in requests' \/ Silent(r),
           \A r \in requests' : r \in requests \/ ~Answered(r)
    PROVE  FreshInv'
<1>1. Pending => Pending'
  BY DEF Pending, Answered, Silent, SaveKinds
<1>2. \A r \in requests : r.kind = "draw" /\ r.id = lastDraw /\ r.answer # "failed" =>
          r \in requests'
  BY DEF Silent
<1> QED
  BY <1>1, <1>2 DEF FreshInv, Answered

LEMMA FreshServe ==
    ASSUME FreshInv, TypeInv, NEW r \in requests, Serve(r)
    PROVE  FreshInv'
<1>0. RequestOK(r) /\ rows \in Table
  BY DEF TypeInv, DataInv, RequestsInv
<1>1. PICK answer, body : /\ Answer(r, answer, body)
                          /\ Refused(r) => answer = "failed"
                          /\ ~Refused(r) => answer = "done" /\ body = Body(r)
  BY DEF Serve, Answer
<1>2. PICK q : q = [r EXCEPT !.answer = answer, !.more = body]
  OBVIOUS
<1>3. /\ requests' = (requests \ {r}) \cup {q}
      /\ UNCHANGED <<table, lastDraw>> /\ r.answer = "none"
      /\ ~unseen' => ~unseen \/ (r.kind = "draw" /\ r.id = lastDraw)
  BY <1>1, <1>2 DEF Answer, Serve, data
<1>4. q.kind = r.kind /\ q.id = r.id /\ q.answer = answer /\ q.more = body
  BY <1>0, <1>2 DEF RequestOK
<1>5. Pending => Pending'
  BY <1>3 DEF Pending, Answered
<1>6. CASE r.kind \in SaveKinds \cup {"delete"} /\ ~Refused(r)
  <2>1. Pending'
    BY <1>1, <1>3, <1>4, <1>6 DEF Pending, Answered
  <2> QED
    BY <2>1 DEF FreshInv
<1>7. CASE Refused(r)
  <2>1. rows' = rows /\ r.kind # "draw" /\ answer = "failed"
    BY <1>1, <1>7 DEF Serve, Refused
  <2>2. ~unseen' => ~unseen
    BY <1>3, <2>1
  <2> QED
    BY <1>3, <1>4, <1>5, <2>1, <2>2 DEF FreshInv, Answered
<1>8. CASE r.kind \in {"form", "draw"}
  <2>1. rows' = rows
    <3>1. rows' = rows \/ rows' = [i \in Items |-> NewRow(i, r)]
      BY DEF Serve
    <3>2. \A i \in Items : NewRow(i, r) = rows[i]
      BY <1>8 DEF NewRow
    <3> QED
      BY <1>0, <3>1, <3>2 DEF Table
  <2>2. r.kind = "draw" => q.more = rows /\ q.answer = "done"
    BY <1>1, <1>4, <1>8 DEF Refused, Body
  <2>3. CASE ~unseen
    BY <1>3, <1>4, <1>5, <2>1, <2>2, <2>3 DEF FreshInv, Answered
  <2>4. CASE r.kind = "draw" /\ r.id = lastDraw
    <3>1. \A s \in requests : s.kind = "draw" /\ s.id >= lastDraw => s = r
      BY <2>4 DEF TypeInv, RequestsInv, RequestOK
    <3>2. \A s \in requests' : s.kind = "draw" /\ s.id >= lastDraw => s.more = rows'
      BY <1>3, <2>1, <2>2, <2>4, <3>1
    <3>3. q \in requests' /\ q.kind = "draw" /\ q.id = lastDraw' /\ q.answer # "failed"
      BY <1>3, <1>4, <2>2, <2>4
    <3> QED
      BY <1>3, <3>2, <3>3 DEF FreshInv
  <2>5. CASE unseen'
    BY <2>5 DEF FreshInv
  <2> QED
    BY <1>3, <2>3, <2>4, <2>5
<1> QED
  BY <1>0, <1>6, <1>7, <1>8 DEF RequestOK, Kinds

LEMMA FreshNext ==
    ASSUME FreshInv, TypeInv, [Next]_vars
    PROVE  FreshInv'
<1>0. \A r \in requests : RequestOK(r)
  BY DEF TypeInv, RequestsInv
<1>1. CASE UNCHANGED <<rows, table, lastDraw, unseen, requests>>
  BY <1>1, FreshKept
<1>2. CASE Annotate \/ Tag \/ Delete \/ Save
  <2>1. \E kind, items, tags, more : Ask(kind, items, tags, more)
    BY <1>2, AskSomething
  <2>2. PICK q : requests' = requests \cup {q} /\ ~Answered(q)
    <3>1. PICK kind, items, tags, more : Ask(kind, items, tags, more)
      BY <2>1
    <3>2. PICK q : q = Request(kind, items, tags, more)
      OBVIOUS
    <3>3. requests' = requests \cup {q}
      BY <3>1, <3>2 DEF Ask
    <3>4. ~Answered(q)
      BY <3>2 DEF Request, Answered
    <3> QED
      BY <3>3, <3>4
  <2> QED
    BY <1>2, <2>2, FreshKept DEF Annotate, Tag, Delete, Save, data
<1>3. ASSUME NEW r \in requests, Serve(r)
      PROVE  FreshInv'
  BY <1>3, FreshServe
<1>4. ASSUME NEW r \in requests, ServeFails(r)
      PROVE  FreshInv'
  <2>1. PICK q : q = [r EXCEPT !.answer = "failed", !.more = r.more]
    OBVIOUS
  <2>2. requests' = (requests \ {r}) \cup {q}
    BY <1>4, <2>1 DEF ServeFails, Answer
  <2>3. q.answer = "failed" /\ ~Answered(r)
    BY <1>0, <1>4, <2>1 DEF RequestOK, ServeFails, Answered
  <2>4. table' = table /\ lastDraw' = lastDraw
    BY <1>4 DEF ServeFails, data
  <2>5. unseen' \/ (unseen' = unseen /\ rows' = rows /\ Silent(r))
    BY <1>4, <2>3 DEF ServeFails, Silent, TypeInv, DataInv
  <2>6. CASE unseen'
    BY <2>6 DEF FreshInv
  <2>7. CASE unseen' = unseen /\ rows' = rows /\ Silent(r)
    BY <2>2, <2>3, <2>4, <2>7, FreshKept DEF Answered
  <2> QED
    BY <2>5, <2>6, <2>7
<1>5. ASSUME NEW r \in requests, FormCame(r) \/ SaveFailed(r) \/ Failed(r)
      PROVE  FreshInv'
  <2>1. /\ requests' = requests \ {r} /\ UNCHANGED <<rows, table, lastDraw, unseen>>
        /\ Silent(r)
    BY <1>0, <1>5 DEF FormCame, SaveFailed, Failed, NoDraw, data, RequestOK, Silent,
                      Answered, SaveKinds
  <2> QED
    BY <2>1, FreshKept
<1>6. ASSUME NEW r \in requests, Saved(r) \/ Done(r)
      PROVE  FreshInv'
  <2>1. PICK q : /\ requests' = (requests \ {r}) \cup {q}
                 /\ q.kind = "draw" /\ q.id = lastDraw' /\ q.answer = "none"
    BY <1>6, DrawRequests DEF Saved, Done, TypeInv
  <2>2. lastDraw < lastDraw' /\ RequestsInv'
    BY <1>6, DrawRequests DEF Saved, Done, TypeInv
  <2>3. \A s \in requests \ {r} : s.kind = "draw" => s.id < lastDraw'
    BY <2>1, <2>2, <1>0 DEF RequestsInv, RequestOK, TypeInv
  <2>4. lastDraw' \in Nat /\ \A s \in requests : s.id \in Nat
    BY <1>0, <2>2 DEF RequestsInv, RequestOK
  <2>5. ~Answered(q) /\ q.answer # "failed"
    BY <2>1 DEF Answered
  <2> QED
    BY <2>1, <2>3, <2>4, <2>5 DEF FreshInv
<1>7. ASSUME NEW r \in requests, Drawn(r)
      PROVE  FreshInv'
  <2>1. /\ requests' = requests \ {r} /\ UNCHANGED <<rows, lastDraw, unseen>>
        /\ r.kind = "draw" /\ Answered(r) /\ r.id \in Nat /\ lastDraw \in Nat
        /\ IF r.id < lastDraw THEN table' = table ELSE table' = r.more
    BY <1>0, <1>7 DEF Drawn, NoDraw, Answered, data, RequestOK, TypeInv, RequestsInv
  <2>2. Pending => Pending'
    BY <2>1 DEF Pending, SaveKinds
  <2> QED
    BY <2>1, <2>2 DEF FreshInv
<1>8. CASE Other
  BY <1>8 DEF Other, FreshInv
<1>9. CASE Select \/ Freetag \/ Edit \/ Dismiss \/ Transition \/ UNCHANGED vars
  BY <1>1, <1>9 DEF Select, Freetag, Edit, Dismiss, Transition, vars, data
<1>10. CASE Operator
  BY <1>2, <1>9, <1>10 DEF Operator
<1>11. CASE Server
  BY <1>3, <1>4, <1>11 DEF Server
<1>12. CASE Browser
  BY <1>5, <1>6, <1>7, <1>12 DEF Browser
<1> QED
  BY <1>8, <1>9, <1>10, <1>11, <1>12 DEF Next

-----------------------------------------------------------------------------
(* The operator who waits *)

(* A click finds the page at rest, and what it asks is no answer of a dialog *)
LEMMA ClickAsks ==
    ASSUME careful, TypeInv, ModalInv, Annotate \/ Tag \/ Delete
    PROVE  /\ requests = {} /\ ~shown
           /\ UNCHANGED <<shown, moving, rows, form, careful>>
           /\ \E q : requests' = {q} /\ ~OfDialog(q) /\ ~Answered(q)
<1>1. requests = {} /\ ~shown /\ UNCHANGED <<shown, moving, rows, form, careful>>
  BY ModalFacts DEF Annotate, Tag, Delete, Click, modal
<1>2. PICK kind, items, tags, more :
          /\ Ask(kind, items, tags, more)
          /\ kind \notin SaveKinds \/ more = NoForm
  <2>1. CASE Annotate
    BY <2>1 DEF Annotate, SaveKinds
  <2>2. CASE Tag
    BY <2>2 DEF Tag
  <2>3. CASE Delete
    BY <2>3 DEF Delete
  <2> QED
    BY <2>1, <2>2, <2>3
<1>3. PICK q : q = Request(kind, items, tags, more)
  OBVIOUS
<1>4. requests' = {q}
  BY <1>1, <1>2, <1>3 DEF Ask
<1>5. ~OfDialog(q) /\ ~Answered(q)
  BY <1>2, <1>3 DEF Request, OfDialog, Answered
<1> QED
  BY <1>1, <1>4, <1>5

LEMMA InDialogAlone ==
    ASSUME careful, TypeInv, ModalInv, CarefulInv, InDialog
    PROVE  requests = {} /\ shown /\ ~moving /\ form \in Form
<1>1. shown /\ ~moving /\ ~Saving /\ form \in Form
  BY FormFacts DEF InDialog
<1>2. \A r \in requests : ~OfDialog(r)
  BY <1>1 DEF Saving, OfDialog, SaveKinds
<1> QED
  BY <1>1, <1>2 DEF CarefulInv

LEMMA SaveAsks ==
    ASSUME careful, TypeInv, ModalInv, CarefulInv, Save
    PROVE  /\ requests = {} /\ shown /\ ~moving /\ form # NoForm
           /\ UNCHANGED <<shown, moving, rows, form, careful>>
           /\ \E q : /\ requests' = {q} /\ ~Answered(q) /\ OfDialog(q)
                     /\ q.more = form /\ q.kind = form.kind
                     /\ q.items = form.items /\ q.tags = form.tags
<1>1. /\ requests = {} /\ shown /\ ~moving /\ form \in Form
      /\ UNCHANGED <<shown, moving, rows, form, careful>>
  BY InDialogAlone DEF Save, modal
<1>2. PICK q : q = Request(form.kind, form.items, form.tags, form)
  OBVIOUS
<1>3. requests' = {q}
  BY <1>1, <1>2 DEF Save, Ask
<1>4. /\ q.more = form /\ q.kind = form.kind /\ q.items = form.items
      /\ q.tags = form.tags /\ ~Answered(q)
  BY <1>2 DEF Request, Answered
<1>5. form # NoForm /\ form.kind \in SaveKinds
  BY <1>1, NoFormAssumption DEF Form, SaveKinds
<1>6. OfDialog(q)
  BY <1>4, <1>5 DEF OfDialog
<1> QED
  BY <1>1, <1>3, <1>4, <1>5, <1>6

(* An answer of the server stands for the request it answers *)
LEMMA Answers ==
    ASSUME TypeInv, NEW r \in requests, Serve(r) \/ ServeFails(r)
    PROVE  /\ UNCHANGED <<modal, form, careful>>
           /\ ~Answered(r)
           /\ \E q : /\ requests' = (requests \ {r}) \cup {q}
                     /\ q.kind = r.kind /\ q.items = r.items /\ q.tags = r.tags
                     /\ r.kind \in SaveKinds => q.more = r.more
                     /\ Answered(q) => Serve(r) /\ q.more = Body(r)
                     /\ q.answer # "none"
<1>1. UNCHANGED <<modal, form, careful>> /\ ~Answered(r) /\ RequestOK(r)
  BY DEF Serve, ServeFails, TypeInv, RequestsInv, Answered
<1>2. PICK answer, body :
          /\ Answer(r, answer, body)
          /\ r.kind \in SaveKinds => body = r.more
          /\ answer = "done" => Serve(r) /\ body = Body(r)
          /\ answer # "none"
  BY DEF Serve, ServeFails, Answer, Body, SaveKinds
<1>3. PICK q : q = [r EXCEPT !.answer = answer, !.more = body]
  OBVIOUS
<1>4. requests' = (requests \ {r}) \cup {q}
  BY <1>2, <1>3 DEF Answer
<1>5. /\ q.kind = r.kind /\ q.items = r.items /\ q.tags = r.tags
      /\ q.more = body /\ q.answer = answer
  BY <1>1, <1>3 DEF RequestOK
<1> QED
  BY <1>1, <1>2, <1>4, <1>5 DEF Answered

(* A saved form closes its dialog *)
LEMMA Closes ==
    ASSUME careful, CarefulInv, NEW r \in requests, Saved(r) \/ SaveFailed(r)
    PROVE  ~shown'
<1>1. OfDialog(r) /\ Toggle
  BY DEF Saved, SaveFailed, OfDialog, SaveKinds
<1>2. shown /\ ~moving
  BY <1>1 DEF CarefulInv
<1> QED
  BY <1>1, <1>2 DEF Toggle, Hide

LEMMA CarefulStays ==
    ASSUME [Next]_vars
    PROVE  careful' = careful
<1>1. CASE Operator
  BY <1>1 DEF Operator, Select, Annotate, Freetag, Tag, Delete, Edit, Save, Dismiss
<1>2. CASE Server
  BY <1>2 DEF Server, Serve, ServeFails
<1>3. CASE Browser
  BY <1>3 DEF Browser, FormCame, Saved, SaveFailed, Done, Failed, Drawn
<1> QED
  BY <1>1, <1>2, <1>3 DEF Next, Other, Transition, vars

LEMMA CarefulNext ==
    ASSUME CarefulInv, TypeInv, ModalInv, [Next]_vars
    PROVE  CarefulInv'
<1>1. careful' = careful
  BY CarefulStays
<1> SUFFICES ASSUME careful
             PROVE  CarefulInv'
  BY <1>1 DEF CarefulInv
<1>2. CASE UNCHANGED <<shown, moving, form, requests>>
  BY <1>1, <1>2 DEF CarefulInv, OfDialog
<1>3. CASE requests' = {}
  BY <1>3 DEF CarefulInv
<1>4. CASE Annotate \/ Tag \/ Delete
  <2>1. PICK q : requests' = {q} /\ ~OfDialog(q)
    BY <1>4, ClickAsks
  <2>2. ~shown'
    BY <1>4, ClickAsks
  <2> QED
    BY <2>1, <2>2 DEF CarefulInv, OfDialog
<1>5. CASE Save
  <2>1. PICK q : /\ requests' = {q} /\ OfDialog(q) /\ q.more = form
                 /\ q.kind = form.kind /\ q.items = form.items /\ q.tags = form.tags
    BY <1>5, SaveAsks
  <2>2. shown' /\ ~moving' /\ form' = form
    BY <1>5, SaveAsks
  <2> QED
    BY <2>1, <2>2 DEF CarefulInv, OfDialog
<1>6. CASE Freetag \/ Edit \/ Dismiss
  <2>1. requests' = {}
    BY <1>6, InDialogAlone DEF Freetag, Edit, Dismiss, Click
  <2> QED
    BY <1>3, <2>1
<1>7. ASSUME NEW r \in requests, Serve(r) \/ ServeFails(r)
      PROVE  CarefulInv'
  <2>1. PICK q : /\ requests' = (requests \ {r}) \cup {q}
                 /\ q.kind = r.kind /\ q.items = r.items /\ q.tags = r.tags
                 /\ r.kind \in SaveKinds => q.more = r.more
    BY <1>7, Answers
  <2>2. UNCHANGED <<shown, moving, form>>
    BY <1>7, Answers DEF modal
  <2>3. requests' = {q}
    BY <2>1 DEF CarefulInv
  <2>4. OfDialog(q) <=> OfDialog(r)
    BY <2>1 DEF OfDialog
  <2>5. OfDialog(q) => q.more = r.more
    BY <2>1 DEF OfDialog
  <2> QED
    BY <2>1, <2>2, <2>3, <2>4, <2>5 DEF CarefulInv, OfDialog
<1>8. ASSUME NEW r \in requests, FormCame(r) \/ SaveFailed(r) \/ Failed(r) \/ Drawn(r)
      PROVE  CarefulInv'
  <2>1. requests' = {}
    BY <1>8 DEF FormCame, SaveFailed, Failed, Drawn, NoDraw, CarefulInv
  <2> QED
    BY <1>3, <2>1
<1>9. ASSUME NEW r \in requests, Saved(r) \/ Done(r)
      PROVE  CarefulInv'
  <2>1. PICK q : requests' = (requests \ {r}) \cup {q} /\ q.kind = "draw"
    BY <1>9, DrawRequests DEF Saved, Done, TypeInv
  <2>2. requests' = {q} /\ ~OfDialog(q)
    BY <2>1 DEF CarefulInv, OfDialog, SaveKinds
  <2>3. ~shown'
    <3>1. CASE Saved(r)
      BY <3>1, Closes
    <3>2. CASE Done(r)
      BY <3>2 DEF Done, OfDialog, CarefulInv, modal
    <3> QED
      BY <1>9, <3>1, <3>2
  <2> QED
    BY <2>2, <2>3 DEF CarefulInv, OfDialog
<1>10. CASE Transition
  <2>1. (shown' <=> shown) /\ UNCHANGED <<form, requests>>
    BY <1>10, ModalEnds DEF Transition
  <2>2. shown => moving
    BY <1>10, ModalFacts DEF Transition, TransitionEnds, Lapse, BackdropIn,
                             TransitionComplete, HideModal, RemoveBackdrop, Ending
  <2> QED
    BY <2>1, <2>2 DEF CarefulInv, OfDialog
<1>11. CASE Operator
  BY <1>2, <1>4, <1>5, <1>6, <1>11 DEF Operator, Select, modal
<1>12. CASE Server
  BY <1>7, <1>12 DEF Server
<1>13. CASE Browser
  BY <1>8, <1>9, <1>13 DEF Browser
<1> QED
  BY <1>2, <1>10, <1>11, <1>12, <1>13 DEF Next, Other, vars, modal

LEMMA EditNext ==
    ASSUME EditInv, CarefulInv, TypeInv, ModalInv, [Next]_vars
    PROVE  EditInv'
<1>1. careful' = careful
  BY CarefulStays
<1> SUFFICES ASSUME careful
             PROVE  EditInv'
  BY <1>1 DEF EditInv
<1>2. CASE (shown' <=> shown) /\ UNCHANGED <<rows, form, requests, touched>>
  BY <1>1, <1>2 DEF EditInv
<1>3. CASE ~shown' /\ \A r \in requests' : r.kind # "form" \/ ~Answered(r)
  BY <1>3 DEF EditInv, Answered
<1>4. CASE Annotate \/ Tag \/ Delete
  <2>1. PICK q : requests' = {q} /\ ~Answered(q)
    BY <1>4, ClickAsks
  <2>2. ~shown'
    BY <1>4, ClickAsks
  <2> QED
    BY <1>3, <2>1, <2>2
<1>5. CASE Save
  <2>1. requests = {} /\ shown /\ UNCHANGED <<shown, rows, form>>
    BY <1>5, SaveAsks
  <2>2. PICK q : requests' = {q} /\ ~Answered(q)
    BY <1>5, SaveAsks
  <2>3. touched' = touched
    BY <1>5 DEF Save
  <2> QED
    BY <2>1, <2>2, <2>3 DEF EditInv, Answered
<1>6. CASE Freetag
  <2>1. requests' = {} /\ form'.kind # "annotate"
    BY <1>6 DEF Freetag, Click
  <2> QED
    BY <2>1 DEF EditInv
<1>7. CASE Edit
  <2>1. requests = {} /\ shown /\ form \in Form
    BY <1>7, InDialogAlone DEF Edit
  <2>2. requests' = {} /\ rows' = rows /\ touched' = touched
    BY <1>7, <2>1 DEF Edit
  <2>3. /\ form'.kind = form.kind /\ form'.items = form.items
        /\ form'.was = form.was /\ form'.said = form.said
    BY <1>7, <2>1 DEF Edit, Form
  <2> QED
    BY <2>1, <2>2, <2>3 DEF EditInv
<1>8. CASE Dismiss
  <2>1. requests' = {} /\ shown /\ ~moving
    BY <1>8, InDialogAlone DEF Dismiss
  <2>2. ~shown'
    BY <1>8, <2>1 DEF Dismiss, Hide
  <2> QED
    BY <1>3, <2>1, <2>2
<1>9. ASSUME NEW r \in requests, Serve(r) \/ ServeFails(r)
      PROVE  EditInv'
  <2>1. PICK q : /\ requests' = (requests \ {r}) \cup {q}
                 /\ q.kind = r.kind /\ q.items = r.items
                 /\ Answered(q) => Serve(r) /\ q.more = Body(r)
                 /\ q.answer # "none"
    BY <1>9, Answers
  <2>2. (shown' <=> shown) /\ form' = form /\ ~Answered(r)
    BY <1>9, Answers DEF modal
  <2>3. requests' = {q} /\ \A s \in requests : s = r
    BY <2>1 DEF CarefulInv
  <2>4. ASSUME q.kind = "form", Answered(q)
        PROVE  \A i \in q.items : rows'[i] = Gone \/ q.more = rows'[i]
    <3>1. RequestOK(r) /\ rows \in Table
      BY DEF TypeInv, RequestsInv, DataInv
    <3>2. PICK i \in Items : r.items = {i}
      BY <2>1, <2>4, <3>1 DEF RequestOK
    <3>3. Item(r) = i
      BY <3>2 DEF Item
    <3>4. rows[i] = Gone \/ q.more = rows[i]
      BY <2>1, <2>4, <3>3 DEF Body
    <3>5. NewRow(i, r) = rows[i]
      BY <2>1, <2>4 DEF NewRow
    <3>6. rows'[i] = rows[i]
      BY <1>9, <3>5, ServedRow DEF TypeInv
    <3> QED
      BY <2>1, <3>2, <3>4, <3>6
  <2> QED
    BY <2>1, <2>2, <2>3, <2>4 DEF EditInv, Answered
<1>10. ASSUME NEW r \in requests, FormCame(r)
       PROVE  EditInv'
  <2>1. requests' = {} /\ rows' = rows /\ touched' = touched
    BY <1>10 DEF FormCame, NoDraw, CarefulInv
  <2>2. \A i \in r.items : i \in touched \/ rows[i] = Gone \/ r.more = rows[i]
    BY <1>10 DEF FormCame, EditInv, Answered
  <2>3. form'.items = r.items /\ form'.was = r.more.tags /\ form'.said = r.more.comment
    BY <1>10 DEF FormCame, FormOf
  <2> QED
    BY <2>1, <2>2, <2>3 DEF EditInv
<1>11. ASSUME NEW r \in requests,
              Saved(r) \/ SaveFailed(r) \/ Done(r) \/ Failed(r) \/ Drawn(r)
       PROVE  EditInv'
  <2>1. ~shown'
    <3>1. CASE Saved(r) \/ SaveFailed(r)
      BY <3>1, Closes
    <3>2. CASE Done(r) \/ Failed(r) \/ Drawn(r)
      BY <3>2 DEF Done, Failed, Drawn, OfDialog, SaveKinds, CarefulInv, modal
    <3> QED
      BY <1>11, <3>1, <3>2
  <2>2. requests' = {} \/ \E q : requests' = {q} /\ q.kind = "draw"
    <3>1. CASE SaveFailed(r) \/ Failed(r) \/ Drawn(r)
      BY <3>1 DEF SaveFailed, Failed, Drawn, NoDraw, CarefulInv
    <3>2. CASE Saved(r) \/ Done(r)
      <4>1. PICK q : requests' = (requests \ {r}) \cup {q} /\ q.kind = "draw"
        BY <3>2, DrawRequests DEF Saved, Done, TypeInv
      <4> QED
        BY <4>1 DEF CarefulInv
    <3> QED
      BY <1>11, <3>1, <3>2
  <2> QED
    BY <1>3, <2>1, <2>2
<1>12. CASE Other
  <2>1. /\ (shown' <=> shown) /\ form' = form /\ requests' = requests
        /\ touched \subseteq touched'
    BY <1>12 DEF Other, modal
  <2>2. \A i \in Items : i \in touched' \/ rows'[i] = rows[i]
    BY <1>12 DEF Other, TypeInv, DataInv, Table
  <2>3. \A r \in requests : r.items \subseteq Items
    BY DEF TypeInv, RequestsInv, RequestOK
  <2>4. shown => form.items \subseteq Items
    BY ModalFacts DEF TypeInv, FormOK, Form
  <2> QED
    BY <2>1, <2>2, <2>3, <2>4 DEF EditInv, Answered
<1>13. CASE Transition
  BY <1>2, <1>13, ModalEnds DEF Transition
<1>14. CASE Operator
  BY <1>2, <1>4, <1>5, <1>6, <1>7, <1>8, <1>14 DEF Operator, Select, modal
<1>15. CASE Server
  BY <1>9, <1>15 DEF Server
<1>16. CASE Browser
  BY <1>10, <1>11, <1>16 DEF Browser
<1>17. CASE UNCHANGED vars
  BY <1>2, <1>17 DEF vars, modal
<1> QED
  BY <1>12, <1>13, <1>14, <1>15, <1>16, <1>17 DEF Next

-----------------------------------------------------------------------------
(* The inductive invariant, and what it is for *)

(* Types, the states of the dialog, what the answers in flight will do to   *)
(* table and form.                                                          *)
THEOREM Invariant == Spec => []IInv
<1>1. Init => IInv
  <2> SUFFICES ASSUME Init
               PROVE  IInv
    OBVIOUS
  <2>1. rows \in Table /\ table \in Table
    BY StoredAssumption DEF Init, Table
  <2>2. Away
    BY DEF Init, ModalInit, Away, Phase
  <2>3. TypeInv
    <3>1. DataInv
      BY <2>1 DEF Init, DataInv
    <3>2. RequestsInv /\ FormOK
      BY <2>2, BoundsAssumption DEF Init, RequestsInv, FormOK
    <3> QED
      BY <3>1, <3>2 DEF TypeInv
  <2> QED
    BY <2>2, <2>3 DEF IInv, Init, ModalInv, FreshInv, CarefulInv, EditInv, ModalInit
<1>2. IInv /\ [Next]_vars => IInv'
  BY ModalNext, TypeNext, FreshNext, CarefulNext, EditNext DEF IInv
<1> QED
  BY <1>1, <1>2, PTL DEF Spec

(* Types of page and dialog, and no two requests with one number.           *)
THEOREM Types == Spec => []TypeOK
<1>1. IInv => TypeOK
  <2> SUFFICES ASSUME TypeInv, ModalInv
               PROVE  TypeOK
    BY DEF IInv
  <2>1. overlays \subseteq Elements /\ backdrop \in overlays \cup {NoElement}
    BY DEF ModalInv, Away, Over, Stuck
  <2>2. \A k \in DOMAIN timers : timers[k].end \in Ends
    <3>1. CASE timers = <<>>
      BY <3>1
    <3>2. ASSUME NEW s, s.end \in Ends, timers = <<s>>
          PROVE  \A k \in DOMAIN timers : timers[k].end \in Ends
      BY <3>2
    <3>3. ASSUME NEW s, NEW t, s.end \in Ends, t.end \in Ends, timers = <<s, t>>
          PROVE  \A k \in DOMAIN timers : timers[k].end \in Ends
      <4>1. DOMAIN timers = 1..2 /\ timers[1] = s /\ timers[2] = t
        BY <3>3
      <4> QED
        BY <3>3, <4>1
    <3>4. \A end \in Ends : \A e : Timer(end, e).end \in Ends
      BY DEF Timer
    <3>5. \/ timers = <<>>
          \/ \E s : timers = <<s>> /\ s.end \in Ends
          \/ \E s, t : timers = <<s, t>> /\ s.end \in Ends /\ t.end \in Ends
      <4>1. {"backdrop in", "in", "out", "backdrop out"} = Ends
        BY DEF Ends
      <4>2. \/ timers = <<>>
            \/ \E end \in Ends : \E e : timers = <<Timer(end, e)>>
            \/ \E e, f : timers = <<Timer("backdrop out", e), Timer("backdrop in", f)>>
        BY <4>1, Zenon DEF ModalInv, Away, Over, Stuck, Phase
      <4>3. "backdrop out" \in Ends /\ "backdrop in" \in Ends
        BY <4>1
      <4> QED
        BY <3>4, <4>2, <4>3, Zenon
    <3> QED
      BY <3>1, <3>2, <3>3, <3>5
  <2> QED
    BY <2>1, <2>2 DEF TypeOK, TypeInv, DataInv, RequestsInv, Table
<1> QED
  BY <1>1, Invariant, PTL

(* No backdrop is left over a page whose dialog is neither shown nor in     *)
(* transition, whatever is clicked and answered while it moves.             *)
THEOREM PageIsFree == Spec => []PageFree
<1>1. IInv => PageFree
  BY ModalFacts DEF IInv, PageFree
<1> QED
  BY <1>1, Invariant, PTL

(* With nothing in flight the table shows what is stored, in whatever order *)
(* requests were served and answered, until others or a lost answer leave a *)
(* change that no answer tells of, or the last draw fails.                  *)
THEOREM TableIsFresh == Spec => []TableFresh
<1>1. IInv => TableFresh
  BY DEF IInv, FreshInv, TableFresh, Pending
<1> QED
  BY <1>1, Invariant, PTL

(* The answer to a saved form closes the dialog of an operator who waits    *)
(* for page and dialog.                                                     *)
THEOREM SavedCloses == Spec => ClosedWhenSaved
<1>1. IInv /\ [Next]_vars => [careful => \A r \in requests : Saved(r) => ~shown']_vars
  BY Closes DEF IInv
<1> QED
  BY <1>1, Invariant, PTL DEF Spec, ClosedWhenSaved

(* A saved annotation changes, of a row nobody else has changed since its   *)
(* form was read, only what its operator has edited, even if the answer of  *)
(* the server is lost.                                                      *)
THEOREM SavesEdits == Spec => SavesOnlyEdits
<1>1. ASSUME IInv, NEW r \in requests, careful, Annotates(r),
             NEW i \in r.items \ touched, rows'[i] # rows[i]
      PROVE  OnlyEdited(rows[i], rows'[i], r)
  <2>1. /\ r.kind = "annotate" /\ i \in Items /\ r.more \in Form /\ r.more # NoForm
        /\ r.answer = "none"
    BY <1>1, NoFormAssumption
       DEF IInv, TypeInv, RequestsInv, RequestOK, Annotates, Serve, ServeFails
  <2>2. /\ shown /\ r.more = form /\ form.kind = "annotate" /\ form.items = r.items
        /\ \A s \in requests : s = r
    BY <1>1, <2>1 DEF IInv, CarefulInv, OfDialog, SaveKinds
  <2>3. rows'[i] = NewRow(i, r)
    BY <1>1, <2>1, ServedRow DEF IInv, TypeInv, Annotates
  <2>4. rows[i] # Gone /\ rows'[i] = [tags |-> r.tags, comment |-> r.more.comment]
    BY <1>1, <2>1, <2>3 DEF NewRow, Present
  <2>5. r.more.was = rows[i].tags /\ r.more.said = rows[i].comment
    BY <1>1, <2>1, <2>2, <2>4 DEF IInv, EditInv
  <2> QED
    BY <2>4, <2>5 DEF OnlyEdited
<1>2. IInv /\ [Next]_vars =>
        [\A r \in requests : careful /\ Annotates(r) =>
            \A i \in r.items \ touched :
                rows'[i] # rows[i] => OnlyEdited(rows[i], rows'[i], r)]_vars
  BY <1>1
<1> QED
  BY <1>2, Invariant, PTL DEF Spec, SavesOnlyEdits
=============================================================================
