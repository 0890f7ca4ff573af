----------------------------- MODULE AdminLists -----------------------------
(***************************************************************************)
(* The administrators' list of the registrations that wait for a decision.  *)
(* It is loaded when its page is opened, by a button, and after every       *)
(* action that went through; a load is never called off, so two can be      *)
(* under way, and the one that is answered last is the one that stays.      *)
(*                                                                         *)
(* Each row keeps for itself whether its buttons are disabled.  A load      *)
(* takes all the rows off the page and puts new ones there, which know      *)
(* nothing of the actions of the old ones: what is under way can be asked   *)
(* for again.  Approving and rejecting both take an item off the list.      *)
(***************************************************************************)
CONSTANTS
    Items,     \* registrations
    Loads,     \* loads there can be under way at once (bound)
    Clicks,    \* actions there can be under way at once (bound)
    NoItem

ASSUME LoadAssumption == Loads # {}

VARIABLES
    open,      \* server: the items there are on the list
    lists      \* the state of the page
(* lists.shown    the items on show                                         *)
(* lists.loading  whether the page says so instead                          *)
(* lists.loads    the loads under way, with the list once it was read       *)
(* lists.acts     the actions under way, each with its item, how far the    *)
(*                server is with it, and whether the row it was clicked in  *)
(*                is still there                                            *)
(* lists.crossed  history: what has come between the page and the server    *)

Asking     == "asking"
NoLoad     == "none"
LoadIdle   == [at |-> NoLoad, list |-> {}]
LoadSent   == [at |-> Asking, list |-> {}]
LoadOf(s)  == [at |-> "answered", list |-> s]
ActIdle    == [at |-> "idle", item |-> NoItem, row |-> FALSE]
ActSent(i) == [at |-> "sent", item |-> i, row |-> TRUE]

FreshLists(l) ==
    [shown |-> {}, loading |-> TRUE, loads |-> [k \in Loads |-> IF k = l THEN LoadSent ELSE LoadIdle],
     acts |-> [c \in Clicks |-> ActIdle], crossed |-> FALSE]

LoadTypes == [at : {NoLoad, Asking, "answered"}, list : SUBSET Items]
ActTypes  == [at : {"idle", "sent", "read", "done"}, item : Items \cup {NoItem}, row : BOOLEAN]

ListsTypes ==
    /\ open \subseteq Items
    /\ lists \in [shown : SUBSET Items, loading : BOOLEAN, loads : [Loads -> LoadTypes],
                  acts : [Clicks -> ActTypes], crossed : BOOLEAN]

UnderWay(l) == lists.loads[l].at # NoLoad
Alone(l)    == \A k \in Loads \ {l} : ~UnderWay(k)

(* The actions once the rows of the items that are not in s are gone.       *)
RowsOf(s) == [c \in Clicks |-> [lists.acts[c] EXCEPT !.row = @ /\ lists.acts[c].item \in s]]

----------------------------------------------------------------------------
(* load: the click on Refresh, which is never disabled.                     *)
Reload(l) == [lists EXCEPT !.loading = TRUE, !.loads[l] = LoadSent, !.acts = RowsOf({})]

Refresh(l) ==
    /\ ~UnderWay(l)
    /\ lists' = Reload(l)
    /\ UNCHANGED open

ServeLoad(l) ==
    /\ lists.loads[l].at = Asking
    /\ lists' = [lists EXCEPT !.loads[l] = LoadOf(open), !.crossed = ~Alone(l)]
    /\ UNCHANGED open

LoadEnds(l) ==
    /\ lists.loads[l].at = "answered"
    /\ lists' = [lists EXCEPT !.shown = lists.loads[l].list, !.loading = FALSE,
                              !.loads[l] = LoadIdle, !.acts = RowsOf(lists.loads[l].list)]
    /\ UNCHANGED open

(* finally() takes the notice away, and the list is the one from before.    *)
LoadBreaks(l) ==
    /\ UnderWay(l)
    /\ lists' = [lists EXCEPT !.loading = FALSE, !.loads[l] = LoadIdle, !.crossed = TRUE]
    /\ UNCHANGED open

(* The buttons of a row are disabled while an action of this row is under   *)
(* way, and of this row only.                                               *)
Act(c, i) ==
    /\ ~lists.loading /\ i \in lists.shown
    /\ lists.acts[c].at = "idle"
    /\ \A d \in Clicks : lists.acts[d].item = i => ~lists.acts[d].row
    /\ lists' = [lists EXCEPT !.acts[c] = ActSent(i)]
    /\ UNCHANGED open

(* The handler reads the item, which must be open, and its transaction is   *)
(* committed before the answer leaves.  Two decisions of one item that have *)
(* both read it as open may both go through.                                *)
ReadItem(c) ==
    /\ lists.acts[c].at = "sent" /\ lists.acts[c].item \in open
    /\ lists' = [lists EXCEPT !.acts[c].at = "read"]
    /\ UNCHANGED open

ServeAct(c) ==
    /\ lists.acts[c].at = "read"
    /\ open' = open \ {lists.acts[c].item}
    /\ lists' = [lists EXCEPT !.acts[c].at = "done"]

MUT_ActEnds_NoReload(c) ==
    /\ lists.acts[c].at = "done"
    /\ lists' = [lists EXCEPT !.acts[c] = ActIdle]
    /\ UNCHANGED open

(* The row may be gone by now: it is the page's load that is called.        *)
ActEnds(c) ==
    /\ lists.acts[c].at = "done"
    /\ \E l \in Loads : ~UnderWay(l) /\ lists' = [Reload(l) EXCEPT !.acts[c] = ActIdle]
    /\ UNCHANGED open

(* Refused, because it is decided already, or rolled back, or never         *)
(* arrived: nothing is changed and the list is not loaded again.            *)
ActFails(c) ==
    /\ lists.acts[c].at \in {"sent", "read"}
    /\ lists' = [lists EXCEPT !.acts[c] = ActIdle]
    /\ UNCHANGED open

(* It went through, and its answer was lost.                                *)
ActLost(c) ==
    /\ lists.acts[c].at = "done"
    /\ lists' = [lists EXCEPT !.acts[c] = ActIdle, !.crossed = TRUE]
    /\ UNCHANGED open

(* Applicants and other administrators, and requests of this page that      *)
(* arrive after it gave them up.                                            *)
Others(i) ==
    /\ open' = IF i \in open THEN open \ {i} ELSE open \cup {i}
    /\ lists' = [lists EXCEPT !.crossed = TRUE]

ListsNext ==
    \/ \E l \in Loads : Refresh(l) \/ ServeLoad(l) \/ LoadEnds(l) \/ LoadBreaks(l)
    \/ \E c \in Clicks : \/ \E i \in Items : Act(c, i)
                         \/ ReadItem(c) \/ ServeAct(c) \/ ActEnds(c) \/ ActFails(c) \/ ActLost(c)
    \/ \E i \in Items : Others(i)

----------------------------------------------------------------------------
(* A page at rest shows the list as it is: whatever its own actions         *)
(* changed, asked for once or twice, refused or not, in whatever order they *)
(* were answered, unless two loads were under way at once, an answer was    *)
(* lost, or somebody else acted.                                            *)
ListCurrentAtRest ==
    (\A l \in Loads : ~UnderWay(l)) /\ (\A c \in Clicks : lists.acts[c].at = "idle") /\ ~lists.crossed
        => lists.shown = open
=============================================================================
