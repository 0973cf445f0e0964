-------------------------------- MODULE Modal --------------------------------
(***************************************************************************)
(* The one dialog of a page, #modal-global, with its fade transitions      *)
(* (class Modal of bootstrap 4.6.2).  Every transition ends by a timer.    *)
(* Timers of the same 150 ms, and the 300 ms of the dialog which only      *)
(* start when a backdrop's are over, end in the order they were started.   *)
(***************************************************************************)
EXTENDS Naturals, Sequences, FiniteSets

CONSTANT NoElement

VARIABLES
    shown,      \* _isShown
    moving,     \* _isTransitioning
    display,    \* the element is displayed: block
    backdrop,   \* _backdrop
    overlays,   \* backdrop elements in the document
    timers      \* transitions to end, with the element they are bound to

modal == <<shown, moving, display, backdrop, overlays, timers>>

Elements == 1..3
ASSUME ElementAssumption == NoElement \notin Elements

Ends == {"backdrop in", "in", "out", "backdrop out"}

ModalInit ==
    /\ shown = FALSE
    /\ moving = FALSE
    /\ display = FALSE
    /\ backdrop = NoElement
    /\ overlays = {}
    /\ timers = <<>>

Start(end, e) == Append(timers, [end |-> end, on |-> e])
Fresh == CHOOSE e \in Elements : e \notin overlays

Show ==
    IF shown \/ moving THEN UNCHANGED modal
    ELSE /\ shown' = TRUE
         /\ moving' = TRUE
         /\ backdrop' = Fresh
         /\ overlays' = overlays \cup {Fresh}
         /\ timers' = Start("backdrop in", Fresh)
         /\ UNCHANGED display

Hide ==
    IF ~shown \/ moving THEN UNCHANGED modal
    ELSE /\ shown' = FALSE
         /\ moving' = TRUE
         /\ timers' = Start("out", NoElement)
         /\ UNCHANGED <<display, backdrop, overlays>>

ToggleShows == Show                               \* mutant: shown at once again
Toggle == IF shown THEN Hide ELSE Show
Bound(timer) == timer.on \in overlays \cup {NoElement}
Ending(end) == timers # <<>> /\ Head(timers).end = end /\ Bound(Head(timers))

(* the backdrop is in: _showElement *)
BackdropInStops ==                                \* mutant: no end of the transition
    /\ Ending("backdrop in")
    /\ display' = TRUE
    /\ timers' = Tail(timers)
    /\ UNCHANGED <<shown, moving, backdrop, overlays>>
BackdropIn ==
    /\ Ending("backdrop in")
    /\ display' = TRUE
    /\ timers' = Append(Tail(timers), [end |-> "in", on |-> NoElement])
    /\ UNCHANGED <<shown, moving, backdrop, overlays>>

TransitionComplete ==
    /\ Ending("in")
    /\ moving' = FALSE
    /\ timers' = Tail(timers)
    /\ UNCHANGED <<shown, display, backdrop, overlays>>

(* _hideModal: the dialog may be shown again before its backdrop is gone *)
HideModalKeepsBackdrop ==                         \* mutant: backdrop left behind
    /\ Ending("out")
    /\ display' = FALSE
    /\ moving' = FALSE
    /\ timers' = Tail(timers)
    /\ UNCHANGED <<shown, backdrop, overlays>>
HideModal ==
    /\ Ending("out")
    /\ display' = FALSE
    /\ moving' = FALSE
    /\ timers' = IF backdrop = NoElement THEN Tail(timers)
                 ELSE Append(Tail(timers), [end |-> "backdrop out", on |-> backdrop])
    /\ UNCHANGED <<shown, backdrop, overlays>>

(* _removeBackdrop removes the current one *)
RemoveBackdrop ==
    /\ Ending("backdrop out")
    /\ overlays' = overlays \ {backdrop}
    /\ timers' = Tail(timers)
    /\ backdrop' = NoElement
    /\ UNCHANGED <<shown, moving, display>>

(* remove() has taken the handlers of its element: the timer ends nothing *)
Lapse ==
    /\ timers # <<>> /\ ~Bound(Head(timers))
    /\ timers' = Tail(timers)
    /\ UNCHANGED <<shown, moving, display, backdrop, overlays>>

TransitionEnds == Lapse \/ BackdropIn \/ TransitionComplete \/ HideModal \/ RemoveBackdrop
=============================================================================
