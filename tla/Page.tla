-------------------------------- MODULE Page --------------------------------
(***************************************************************************)
(* A list page of the storage in an operator's browser (sner.js and        *)
(* sner.storage.js): a table of items, a selection, the annotate and the   *)
(* free tag dialogs, and the requests in flight to the web server, which   *)
(* answers one at a time (storage/core.py, model_annotate and others).     *)
(***************************************************************************)
EXTENDS Modal

CONSTANTS
    Items,
    Tags, Lower,        \* Lower: the tag the tag editor makes of a tag
    Comments,
    Stored,             \* what is stored at first
    Actions,            \* what the operator uses: "annotate", "freetag", "tag", "delete"
    Manners,            \* of operators: do they wait for page and dialog, and save once
    MaxAsks, MaxOthers, \* bounds: requests but draws; changes by others
    Gone, NoForm

Row == [tags : SUBSET Tags, comment : Comments]

(* kind: annotate, or set or unset of tags *)
Form == [kind : {"annotate", "set", "unset"}, items : SUBSET Items,
         tags : SUBSET Tags, comment : Comments \cup {NoForm},
         was : SUBSET Tags, said : Comments \cup {NoForm}]

ASSUME NoFormAssumption == NoForm \notin Form
ASSUME CommentsAssumption == Comments # {}
ASSUME LowerAssumption ==
    Lower \in [Tags -> Tags] /\ \A t \in Tags : Lower[Lower[t]] = Lower[t]
ASSUME StoredAssumption == Stored \subseteq Row
ASSUME MannersAssumption == Manners \subseteq BOOLEAN
ASSUME BoundsAssumption == MaxAsks \in Nat /\ MaxOthers \in Nat

VARIABLES
    rows,       \* the table of the database
    table,      \* what the page shows of it
    selection,  \* selected rows
    form,       \* body of the dialog
    requests,   \* in flight, to the server or back
    lastDraw,   \* the draw whose answer the table waits for
    asks, draws,\* requests so far
    others,     \* changes by others so far
    unseen,     \* history: a change is stored that no answer tells the page of,
                \* or the last draw failed
    touched,    \* history: rows others changed since a form was read from them
    careful     \* the manner of this page's operator

data == <<table, selection>>
vars == <<modal, rows, data, form, requests, lastDraw, asks, draws, others, unseen, touched, careful>>

Init ==
    /\ ModalInit
    /\ rows \in [Items -> Stored]
    /\ table = rows
    /\ selection = {}
    /\ form = NoForm
    /\ requests = {}
    /\ lastDraw = 0
    /\ asks = 0
    /\ draws = 0
    /\ others = 0
    /\ unseen = FALSE
    /\ touched = {}
    /\ careful \in Manners

-----------------------------------------------------------------------------
Request(kind, items, tags, more) ==
    [id |-> asks, kind |-> kind, items |-> items, tags |-> tags,
     more |-> more, answer |-> "none"]

Ask(kind, items, tags, more) ==
    /\ asks < MaxAsks
    /\ requests' = requests \cup {Request(kind, items, tags, more)}
    /\ asks' = asks + 1

(* a click reaches the page only when nothing covers it *)
Click(action) ==
    /\ action \in Actions
    /\ overlays = {} /\ ~display
    /\ careful => requests = {} /\ ~moving

Select ==
    /\ \E action \in {"freetag", "tag", "delete"} : Click(action)
    /\ selection' \in SUBSET {i \in Items : table[i] # Gone}
    /\ selection' # selection
    /\ UNCHANGED <<modal, rows, table, form, requests, lastDraw, asks, draws, others, unseen, touched, careful>>

(* action_annotate_dt: GET of the form *)
Annotate ==
    /\ Click("annotate")
    /\ \E i \in Items : table[i] # Gone /\ Ask("form", {i}, {}, NoForm)
    /\ UNCHANGED <<modal, rows, data, form, lastDraw, draws, others, unseen, touched, careful>>

(* action_freetag_multiid: the ids are taken now, the tags later *)
Freetag ==
    /\ Click("freetag")
    /\ selection # {}
    /\ \E action \in {"set", "unset"} :
           form' = [kind |-> action, items |-> selection, tags |-> {}, comment |-> NoForm,
                    was |-> {}, said |-> NoForm]
    /\ Show
    /\ UNCHANGED <<rows, data, requests, lastDraw, asks, draws, others, unseen, touched, careful>>

(* action_tag_multiid *)
Tag ==
    /\ Click("tag")
    /\ selection # {}
    /\ \E t \in Tags, action \in {"set", "unset"} : Ask(action, selection, {t}, NoForm)
    /\ UNCHANGED <<modal, rows, data, form, lastDraw, draws, others, unseen, touched, careful>>

(* action_delete_multiid *)
Delete ==
    /\ Click("delete")
    /\ selection # {}
    /\ Ask("delete", selection, {}, NoForm)
    /\ UNCHANGED <<modal, rows, data, form, lastDraw, draws, others, unseen, touched, careful>>

-----------------------------------------------------------------------------
(* The dialog.  "was" and "said" remember what it showed at first. *)

Saving == \E r \in requests : r.kind \in {"annotate", "set", "unset"}
InDialog == display /\ (careful => shown /\ ~moving /\ ~Saving)

Edit ==
    /\ InDialog
    /\ \/ \E t \in Tags :
              form' = [form EXCEPT !.tags = IF Lower[t] \in @ THEN @ \ {Lower[t]}
                                            ELSE @ \cup {Lower[t]}]
       \/ \E c \in Comments :
              form.kind = "annotate" /\ c # form.comment /\ form' = [form EXCEPT !.comment = c]
    /\ UNCHANGED <<modal, rows, data, requests, lastDraw, asks, draws, others, unseen, touched, careful>>

Save ==
    /\ InDialog
    /\ Ask(form.kind, form.items, form.tags, form)
    /\ UNCHANGED <<modal, rows, data, form, lastDraw, draws, others, unseen, touched, careful>>

(* escape key, close button or backdrop *)
Dismiss ==
    /\ InDialog
    /\ Hide
    /\ UNCHANGED <<rows, data, form, requests, lastDraw, asks, draws, others, unseen, touched, careful>>

-----------------------------------------------------------------------------
(* The server: one worker *)

Present(r) == {i \in r.items : rows[i] # Gone}
Retag(i, r) ==
    [rows[i] EXCEPT !.tags = IF r.kind = "set" THEN @ \cup r.tags ELSE @ \ r.tags]

(* annotating an item that is gone, or tagging with nothing, is an error *)
Refused(r) ==
    \/ r.kind = "annotate" /\ Present(r) = {}
    \/ r.kind \in {"set", "unset"} /\ r.tags = {}

NewRow(i, r) ==
    IF i \notin Present(r) THEN rows[i]
    ELSE CASE r.kind = "annotate" -> [tags |-> r.tags, comment |-> r.more.comment]
           [] r.kind \in {"set", "unset"} -> Retag(i, r)
           [] r.kind = "delete" -> Gone
           [] OTHER -> rows[i]

(* the body of an answer: rows of the table or fields of the form *)
Item(r) == CHOOSE i \in r.items : TRUE
Body(r) ==
    CASE r.kind = "draw" -> rows
      [] r.kind = "form" ->
             IF rows[Item(r)] = Gone
             THEN [tags |-> {}, comment |-> CHOOSE c \in Comments : TRUE]
             ELSE rows[Item(r)]
      [] OTHER -> r.more

Answer(r, answer, body) ==
    requests' = (requests \ {r}) \cup {[r EXCEPT !.answer = answer, !.more = body]}

Serve(r) ==
    /\ r.answer = "none"
    /\ IF Refused(r)
       THEN Answer(r, "failed", r.more) /\ UNCHANGED rows
       ELSE /\ rows' = [i \in Items |-> NewRow(i, r)]
            /\ Answer(r, "done", Body(r))
    /\ unseen' = (unseen /\ ~(r.kind = "draw" /\ r.id = lastDraw))
    /\ touched' = IF r.kind = "form" THEN touched \ r.items ELSE touched
    /\ UNCHANGED <<modal, data, form, lastDraw, asks, draws, others, careful>>

(* Refused session or token, an error of the server, a lost connection or   *)
(* answer: any part of what is committed at once may be committed. Tags are *)
(* committed item by item, an annotation and a deletion as a whole.         *)
Committed(r) ==
    IF Refused(r) THEN {{}}
    ELSE IF r.kind \in {"set", "unset"} THEN SUBSET r.items
    ELSE {{}, r.items}
ServeFails(r) ==
    /\ r.answer = "none"
    /\ \E done \in Committed(r) :
           rows' = [i \in Items |-> IF i \in done THEN NewRow(i, r) ELSE rows[i]]
    /\ Answer(r, "failed", r.more)
    /\ unseen' = (unseen \/ rows' # rows \/ (r.kind = "draw" /\ r.id = lastDraw))
    /\ UNCHANGED <<modal, data, form, lastDraw, asks, draws, others, touched, careful>>

(* another operator or an import, at any time *)
Other ==
    /\ others < MaxOthers
    /\ \E i \in Items :
           /\ rows[i] # Gone
           /\ \/ \E t \in Tags \ rows[i].tags :
                     rows' = [rows EXCEPT ![i].tags = @ \cup {t}]
              \/ \E c \in Comments \ {rows[i].comment} :
                     rows' = [rows EXCEPT ![i].comment = c]
              \/ rows' = [rows EXCEPT ![i] = Gone]
           /\ touched' = touched \cup {i}
    /\ others' = others + 1
    /\ unseen' = TRUE
    /\ UNCHANGED <<modal, data, form, requests, lastDraw, asks, draws, careful>>

-----------------------------------------------------------------------------
(* Answers in the browser *)

NoDraw(r) ==
    /\ requests' = requests \ {r}
    /\ UNCHANGED <<lastDraw, draws>>
DrawNothing(r) == NoDraw(r)                       \* mutant: table not drawn again
Draw(r) ==
    /\ draws' = draws + 1
    /\ lastDraw' = MaxAsks + draws + 1
    /\ requests' = (requests \ {r}) \cup
           {[id |-> MaxAsks + draws + 1, kind |-> "draw", items |-> {}, tags |-> {},
             more |-> NoForm, answer |-> "none"]}

(* Sner.modal with the answered form, and the tag editor over its tags *)
Editor(tags) == {Lower[t] : t \in tags}
FormFromTable(r) ==                               \* mutant: filled from the page
    LET row == IF table[Item(r)] = Gone THEN r.more ELSE table[Item(r)] IN
    [kind |-> "annotate", items |-> r.items, tags |-> Editor(row.tags),
     comment |-> row.comment, was |-> row.tags, said |-> row.comment]
FormOf(r) ==
    [kind |-> "annotate", items |-> r.items, tags |-> Editor(r.more.tags),
     comment |-> r.more.comment, was |-> r.more.tags, said |-> r.more.comment]

FormCame(r) ==
    /\ r.kind = "form" /\ r.answer = "done"
    /\ form' = FormOf(r)
    /\ Show
    /\ NoDraw(r)
    /\ UNCHANGED <<rows, data, asks, others, unseen, touched, careful>>

Saved(r) ==
    /\ r.more # NoForm
    /\ r.kind \in {"annotate", "set", "unset"} /\ r.answer = "done"
    /\ Draw(r)
    /\ Toggle
    /\ UNCHANGED <<rows, data, form, asks, others, unseen, touched, careful>>

SaveFailed(r) ==
    /\ r.more # NoForm
    /\ r.kind \in {"annotate", "set", "unset"} /\ r.answer = "failed"
    /\ NoDraw(r)
    /\ Toggle
    /\ UNCHANGED <<rows, data, form, asks, others, unseen, touched, careful>>

(* toolbar actions, without a dialog *)
Done(r) ==
    /\ r.more = NoForm
    /\ r.kind \in {"set", "unset", "delete"} /\ r.answer = "done"
    /\ Draw(r)
    /\ UNCHANGED <<modal, rows, data, form, asks, others, unseen, touched, careful>>

Failed(r) ==
    /\ r.kind \in {"set", "unset", "delete"} => r.more = NoForm
    /\ r.kind # "annotate" /\ r.answer = "failed"
    /\ NoDraw(r)
    /\ UNCHANGED <<modal, rows, data, form, asks, others, unseen, touched, careful>>

Drawn(r) ==
    /\ r.kind = "draw" /\ r.answer = "done"
    /\ IF r.id < lastDraw THEN UNCHANGED data
       ELSE table' = r.more /\ selection' = {}
    /\ NoDraw(r)
    /\ UNCHANGED <<modal, rows, form, asks, others, unseen, touched, careful>>

Transition ==
    /\ TransitionEnds
    /\ UNCHANGED <<rows, data, form, requests, lastDraw, asks, draws, others, unseen, touched, careful>>

Operator == Select \/ Annotate \/ Freetag \/ Tag \/ Delete \/ Edit \/ Save \/ Dismiss
Server == \E r \in requests : Serve(r) \/ ServeFails(r)
Browser ==
    \E r \in requests :
        FormCame(r) \/ Saved(r) \/ SaveFailed(r) \/ Done(r) \/ Failed(r) \/ Drawn(r)

Next == Operator \/ Server \/ Browser \/ Other \/ Transition
Spec == Init /\ [][Next]_vars
=============================================================================
