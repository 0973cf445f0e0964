------------------------------ MODULE PageProps ------------------------------
(***************************************************************************)
(* What an operator may expect of a list page and its dialog.              *)
(***************************************************************************)
EXTENDS Page

(* Types of page and dialog; a dialog in transition has a timer to end it   *)
(* and no row of the table is waited for twice.                             *)
TypeOK ==
    /\ rows \in [Items -> Row \cup {Gone}]
    /\ table \in [Items -> Row \cup {Gone}]
    /\ selection \subseteq Items
    /\ unseen \in BOOLEAN /\ touched \subseteq Items
    /\ overlays \subseteq Elements /\ backdrop \in overlays \cup {NoElement}
    /\ \A k \in DOMAIN timers : timers[k].end \in Ends
    /\ \A r, s \in requests : r.id = s.id => r = s

(* A dialog that is neither shown nor in transition covers nothing: no      *)
(* backdrop is left over the page (_showBackdrop, _removeBackdrop).         *)
PageFree == ~shown /\ timers = <<>> => overlays = {} /\ ~display /\ ~moving

(* "webdriver_waituntil(... EC.invisibility_of_element_located" after the   *)
(* form was submitted (tests/selenium/storage/__init__.py:147-148): the     *)
(* answer to a saved form closes the dialog of an operator who saves once.  *)
ClosedWhenSaved == [][careful => \A r \in requests : Saved(r) => ~shown']_vars

(* "Show global/shared modal with title and bodya" (sner.js:287): a dialog  *)
(* that is told to show comes to stand still, shown or dismissed, if nobody *)
(* clicks while it moves.                                                   *)
Appears == careful /\ shown /\ moving ~> ~moving

(* The whole form is written back (model_annotate, storage/core.py:45). Of a *)
(* row nobody else changed since the form was read, a saved annotation      *)
(* changes only the tags and the comment the operator changed in the form,  *)
(* capitals aside, which the tag editor drops; the answer may be lost. What *)
(* others did store meanwhile is overwritten.                               *)
OnlyEdited(old, new, r) ==
    /\ Editor(old.tags) \ Editor(new.tags) \subseteq Editor(r.more.was) \ Editor(r.tags)
    /\ Editor(new.tags) \ Editor(old.tags) \subseteq Editor(r.tags) \ Editor(r.more.was)
    /\ old.comment # new.comment => r.more.comment # r.more.said
Annotates(r) == r.kind = "annotate" /\ (Serve(r) \/ ServeFails(r))
SavesOnlyEdits ==
    [][\A r \in requests : careful /\ Annotates(r) =>
          \A i \in r.items \ touched :
              rows'[i] # rows[i] => OnlyEdited(rows[i], rows'[i], r)]_vars

(* The same without regard to others: the code does not hold it, a tag they *)
(* set while the form is open is taken off by the save (overwritten.cfg).   *)
KeepsOthersEdits ==
    [][\A r \in requests : careful /\ Annotates(r) =>
          \A i \in r.items : rows'[i] # rows[i] => OnlyEdited(rows[i], rows'[i], r)]_vars

(* Whatever is clicked while earlier requests are on their way, in whatever *)
(* order they are served and answered, and whichever of them fail: with     *)
(* nothing in flight the page shows what is stored, but for a change no     *)
(* answer told it of or a failed last draw, and those until a later draw.   *)
TableFresh == requests = {} /\ ~unseen => table = rows

-----------------------------------------------------------------------------
(* Timers fire, and server and network answer at last.                      *)
FairSpec == Spec /\ WF_vars(Transition) /\ WF_vars(Server) /\ WF_vars(Browser)
=============================================================================
