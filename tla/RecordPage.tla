------------------------------ MODULE RecordPage ------------------------------
(***************************************************************************)
(* A record page of the control plane at work: the address (instance,      *)
(* selected record, filter), the navigation on its way to it, the loads of *)
(* instances, list and record, and commands.                               *)
(*                                                                         *)
(* A load belongs to the effect that started it: when one of the effect's  *)
(* dependencies changes, the effect starts a new load and drops the answer *)
(* of the old one.  A navigation takes effect after the route loader has   *)
(* asked for the session; a newer one supersedes it.  Code that navigates  *)
(* starts from the address it was rendered with, not from the current one. *)
(*                                                                         *)
(* Records and instances are numbers, 0 is none.  What the server does for *)
(* a call happens when the call is answered.                               *)
(***************************************************************************)
EXTENDS Naturals, FiniteSets, WorkPages

CONSTANTS
    Shown,           \* names of the pages, one of them is on the screen
    InstanceCount,   \* instances of the deployment
    RecordCount,     \* records that may exist
    ActLimit,        \* acts of persons, at the page and elsewhere (a bound)
    None             \* nothing shown, nothing in flight

Instances == 1 .. InstanceCount
Records == 1 .. RecordCount
Filters == {"all", "some"}
Routes == [inst : 0 .. InstanceCount, rec : 0 .. RecordCount, filter : Filters]
Details == [inst : Instances, rec : Records]
States == {"idle", "loading", "success", "error"}

VARIABLES
    home,         \* server: the instance of each record, 0 when it is not there
    hidden,       \* server: records the filter "some" leaves out
    page,         \* the traits of the page on the screen
    route,        \* the address
    nav,          \* the address the navigation in flight leads to
    rows,         \* the list
    detail,       \* the record shown
    listState, detailState,
    instanceLoad, \* address the load of the instances was started with
    listLoad,     \* address the load of the list was started with
    detailLoad,   \* record being loaded
    commands,     \* the commands in flight
    opened,       \* the address a page left alone was opened with (history)
    reopened,     \* a person led the page where it was already (history)
    acts          \* acts so far

server == <<home, hidden>>
address == <<route, nav>>
shown == <<rows, detail, listState, detailState>>
loads == <<instanceLoad, listLoad, detailLoad>>
history == <<opened, reopened>>
vars == <<server, page, address, shown, loads, commands, history, acts>>

TypeOK ==
    /\ home \in [Records -> 0 .. InstanceCount]
    /\ hidden \subseteq Records
    /\ page \in {PageNamed[n] : n \in Shown}
    /\ route \in Routes /\ nav \in Routes \cup {None}
    /\ rows \subseteq Records
    /\ detail \in Details \cup {None}
    /\ listState \in States /\ detailState \in States
    /\ instanceLoad \in Routes \cup {None}
    /\ listLoad \in Routes \cup {None}
    /\ detailLoad \in Details \cup {None}
    /\ commands \subseteq [does : page.commands, inst : Instances,
                           rec : 0 .. RecordCount, route : Routes]
    /\ opened \in Routes \cup {None} /\ reopened \in BOOLEAN
    /\ acts \in 0 .. ActLimit

-----------------------------------------------------------------------------
First(S) == IF S = {} THEN 0 ELSE CHOOSE x \in S : \A y \in S : x <= y

\* What the server lists for an address, and whether it finds a record there.
Listed(r) ==
    {x \in Records : home[x] = r.inst /\ (r.filter = "some" => x \notin hidden)}
Found(d) == home[d.rec] = d.inst

\* Mutants: the first record that is not the selected one; always the first.
SelectionMoves(list, rec) == IF list \subseteq {rec} THEN First(list) ELSE First(list \ {rec})
SelectionOfFirst(list, rec) == First(list)

\* The selection a page makes out of a list: the one it has, when listed.
Selection(list, rec) == IF rec \in list THEN rec ELSE First(list)

Selecting(r, list) == [r EXCEPT !.rec = Selection(list, r.rec)]

-----------------------------------------------------------------------------
(* The effects of a page.  Run(r, again, writes, list, record, goal) is one *)
(* commit of it: the address becomes r, "again" asks for a reload, list and *)
(* record are what the commit shows, "writes" names those an answer brought *)
(* and goal is the navigation it leaves.                                    *)

\* Mutant: the list is not loaded anew for another instance.
ListReloadsWithinInstance(r, again) ==
    \/ again \/ r.filter # route.filter
    \/ page.follows /\ r.rec # route.rec

ListReloads(r, again) ==
    \/ again
    \/ r.inst # route.inst \/ r.filter # route.filter
    \/ page.follows /\ r.rec # route.rec

\* Mutant: the record is not loaded anew when the selection changes.
DetailReloadsOnRefresh(r, again) == again \/ r.inst # route.inst

DetailReloads(r, again) == again \/ r.inst # route.inst \/ r.rec # route.rec

\* Mutant: a page without a scope keeps the states of its loads.
EndedNever(load, state) == "loading"

\* The state of a load that ends because the address has nothing to load.
Ended(load, state) == IF load \in page.idles THEN "idle" ELSE state

\* An answer that writes what a load would have brought ends in success.
Brought(load, writes, state) == IF load \in writes THEN "success" ELSE state

RunList(r, again, writes, list) ==
    IF ~ListReloads(r, again)
    THEN /\ rows' = list /\ listState' = Brought("list", writes, listState)
         /\ UNCHANGED listLoad
    ELSE IF r.inst = 0
    THEN rows' = {} /\ listLoad' = None /\ listState' = Ended("list", listState)
    ELSE rows' = list /\ listLoad' = r /\ listState' = "loading"

RunDetail(r, again, writes, record) ==
    IF ~DetailReloads(r, again)
    THEN /\ detail' = record /\ detailState' = Brought("detail", writes, detailState)
         /\ UNCHANGED detailLoad
    ELSE IF r.inst = 0 \/ r.rec = 0
    THEN detail' = None /\ detailLoad' = None /\ detailState' = Ended("detail", detailState)
    ELSE /\ detail' = record
         /\ detailLoad' = [inst |-> r.inst, rec |-> r.rec]
         /\ detailState' = "loading"

\* The instances are loaded for every instance of the address; their answer
\* matters to a page that has none.
RunInstances(r) ==
    instanceLoad' = IF r.inst # 0 THEN None
                    ELSE IF route.inst # 0 THEN r ELSE instanceLoad

\* The selection effect of a page that has one runs when the list or the
\* address change; it may wait for a list that is loaded.
RunSelection(r, goal) ==
    nav' = IF /\ r.inst # 0
              /\ CASE page.selects = "effect" ->
                        rows' # rows \/ r.inst # route.inst \/ r.rec # route.rec
                   [] page.selects = "loaded" ->
                        listState = "success" /\ (rows' # rows \/ r # route)
                   [] OTHER -> FALSE
              /\ Selection(rows', r.rec) # r.rec
           THEN Selecting(r, rows') ELSE goal

Run(r, again, writes, list, record, goal) ==
    /\ route' = r
    /\ RunList(r, again, writes, list)
    /\ RunDetail(r, again, writes, record)
    /\ RunInstances(r)
    /\ RunSelection(r, goal)

-----------------------------------------------------------------------------
(* Answers.                                                                *)

NavigationArrives ==
    /\ nav # None
    /\ Run(nav, FALSE, {}, rows, detail, None)
    /\ UNCHANGED <<server, page, commands, history, acts>>

InstancesAnswered ==
    /\ instanceLoad # None
    /\ instanceLoad' = None
    /\ nav' = IF page.opens THEN [instanceLoad EXCEPT !.inst = First(Instances)] ELSE nav
    /\ UNCHANGED <<server, page, route, shown, listLoad, detailLoad, commands, history, acts>>

InstancesFail ==
    /\ instanceLoad # None
    /\ instanceLoad' = None
    /\ UNCHANGED <<server, page, address, shown, listLoad, detailLoad, commands, history, acts>>

\* A page without a selection effect moves the selection from the address the
\* load was started with, the effect from the current one.
ListAnswered ==
    /\ listLoad # None
    /\ rows' = Listed(listLoad) /\ listState' = "success" /\ listLoad' = None
    /\ LET sought == IF page.selects = "answer" THEN listLoad ELSE route
       IN nav' = IF Selection(rows', sought.rec) # sought.rec
                 THEN Selecting(sought, rows') ELSE nav
    /\ UNCHANGED <<server, page, route, detail, detailState, instanceLoad,
                   detailLoad, commands, history, acts>>

ListFails ==
    /\ listLoad # None
    /\ listLoad' = None /\ listState' = "error"
    /\ rows' = IF "rows" \in page.clears THEN {} ELSE rows
    /\ detail' = IF "record" \in page.clears THEN None ELSE detail
    /\ UNCHANGED <<server, page, address, detailState, instanceLoad, detailLoad,
                   commands, history, acts>>

DetailAnswered ==
    /\ detailLoad # None
    /\ Found(detailLoad)
    /\ detail' = detailLoad /\ detailState' = "success" /\ detailLoad' = None
    /\ UNCHANGED <<server, page, address, rows, listState, instanceLoad, listLoad,
                   commands, history, acts>>

DetailFails ==
    /\ detailLoad # None
    /\ detailLoad' = None /\ detailState' = "error"
    /\ detail' = IF "detail" \in page.clears THEN None ELSE detail
    /\ UNCHANGED <<server, page, address, rows, listState, instanceLoad, listLoad,
                   commands, history, acts>>

-----------------------------------------------------------------------------
(* Commands.                                                               *)

Act == acts < ActLimit /\ acts' = acts + 1 /\ opened' = None

NeedsRecord(c) == c.does \notin {"adds", "ensures"}

\* Each button of a page has a busy flag of its own, if any: commands overlap.
RunCommand(c) ==
    /\ Act
    /\ route.inst # 0
    /\ NeedsRecord(c) => detail # None
    /\ commands' = commands \cup
          {[does |-> c, inst |-> route.inst, route |-> route,
            rec |-> IF NeedsRecord(c) THEN detail.rec ELSE 0]}
    /\ UNCHANGED <<server, page, address, shown, loads, reopened>>

\* What the server does, and the record its answer is about.
ServerDoes(does, inst, rec, answer) ==
    CASE does \in {"adds", "replaces"} ->
           /\ answer \in {x \in Records : home[x] = 0}
           /\ home' = [home EXCEPT ![answer] = inst]
           /\ UNCHANGED hidden
      [] does = "ensures" ->
           /\ answer \in {x \in Records : home[x] \in {0, inst}}
           /\ home' = [home EXCEPT ![answer] = inst]
           /\ UNCHANGED hidden
      [] does = "edits" ->
           /\ answer = rec
           /\ hidden' \in {hidden, hidden \cup {rec}, hidden \ {rec}}
           /\ UNCHANGED home
      [] does = "removes" ->
           /\ answer = rec
           /\ home' = [home EXCEPT ![rec] = 0]
           /\ UNCHANGED hidden
      [] OTHER -> answer = rec /\ UNCHANGED server

\* Where an answer leads: to its record or, when it carries a list, to the
\* selection made out of that, if that is not the one the command started from.
Goal(command, list, answer) ==
    LET c == command.does
        r == command.route
        chosen == Selection(list, IF r.filter = "all" THEN answer ELSE r.rec)
    IN IF ~c.selects THEN nav
       ELSE IF "list" \notin c.writes THEN [r EXCEPT !.rec = answer]
       ELSE IF chosen = r.rec THEN nav ELSE [r EXCEPT !.rec = chosen]

CommandAnswered(command, answer) ==
    LET c == command.does
        inst == command.inst
        list == {x \in Records : home'[x] = inst
                    /\ (command.route.filter = "some" => x \notin hidden)}
    IN
    /\ command \in commands
    /\ NeedsRecord(c) => home[command.rec] = inst
    /\ ServerDoes(c.does, inst, command.rec, answer)
    /\ Run(route, c.refreshes, c.writes,
           IF "list" \in c.writes THEN list
           ELSE IF "row" \in c.writes THEN rows \cup {answer} ELSE rows,
           IF "detail" \in c.writes THEN [inst |-> inst, rec |-> answer] ELSE detail,
           Goal(command, list, answer))
    /\ commands' = commands \ {command}
    /\ UNCHANGED <<page, history, acts>>

CommandFails(command) ==
    /\ command \in commands
    /\ commands' = commands \ {command}
    /\ UNCHANGED <<server, page, address, shown, loads, history, acts>>

-----------------------------------------------------------------------------
(* Persons.                                                                *)

\* Clicks and links lead to a new address; a change of instance or filter
\* gives up the selection, a link may carry anything.
Navigate(r) ==
    /\ Act
    /\ nav' = r
    /\ reopened' = (reopened \/ r = route)
    /\ UNCHANGED <<server, page, route, shown, loads, commands>>

SelectRow(x) == x \in rows /\ Navigate([route EXCEPT !.rec = x])
ChangeInstance(i) == Navigate([inst |-> i, rec |-> 0, filter |-> route.filter])
ChangeFilter(f) == Navigate([inst |-> route.inst, rec |-> 0, filter |-> f])
FollowLink(i, x) == Navigate([inst |-> i, rec |-> x, filter |-> "all"])

\* Somebody else adds or removes a record.
OthersChange(x, i) ==
    /\ Act
    /\ home[x] = 0 \/ i = 0
    /\ home' = [home EXCEPT ![x] = i]
    /\ UNCHANGED <<hidden, page, address, shown, loads, commands, reopened>>

-----------------------------------------------------------------------------
\* The page opens with an address, and its effects run for the first time.
Init ==
    /\ page \in {PageNamed[n] : n \in Shown}
    /\ home \in [Records -> 0 .. InstanceCount]
    /\ hidden = {}
    /\ route \in {r \in Routes : r.filter = "all"}
    /\ rows = {} /\ detail = None
    /\ instanceLoad = IF route.inst = 0 THEN route ELSE None
    /\ listLoad = IF route.inst = 0 THEN None ELSE route
    /\ listState = IF route.inst = 0 THEN "idle" ELSE "loading"
    /\ detailLoad = IF route.inst = 0 \/ route.rec = 0 THEN None
                    ELSE [inst |-> route.inst, rec |-> route.rec]
    /\ detailState = IF detailLoad = None THEN "idle" ELSE "loading"
    /\ nav = IF page.selects = "effect" /\ route.inst # 0 /\ route.rec # 0
             THEN [route EXCEPT !.rec = 0] ELSE None
    /\ commands = {}
    /\ opened = route /\ reopened = FALSE
    /\ acts = 0

Person ==
    \/ \E c \in page.commands : RunCommand(c)
    \/ \E x \in Records : SelectRow(x) \/ \E i \in 0 .. InstanceCount : OthersChange(x, i)
    \/ \E i \in Instances : ChangeInstance(i)
    \/ \E f \in Filters : ChangeFilter(f)
    \/ \E i \in 0 .. InstanceCount, x \in 0 .. RecordCount : FollowLink(i, x)

InstancesEnd == InstancesAnswered \/ InstancesFail
ListEnds == ListAnswered \/ ListFails
DetailEnds == DetailAnswered \/ DetailFails
CommandEnds ==
    \E c \in commands : CommandFails(c) \/ \E x \in 0 .. RecordCount : CommandAnswered(c, x)

Next ==
    \/ Person
    \/ NavigationArrives \/ InstancesEnd \/ ListEnds \/ DetailEnds \/ CommandEnds

Spec == Init /\ [][Next]_vars

-----------------------------------------------------------------------------
AtRest ==
    nav = None /\ instanceLoad = None /\ listLoad = None /\ detailLoad = None
    /\ commands = {}

\* Pages on which a failed load of the record clears it and no command writes it.
ReplacesItsRecord ==
    "detail" \in page.clears /\ \A c \in page.commands : "detail" \notin c.writes

\* Pages that choose their selection anew for every list or address, and whose
\* list comes from its load only: a command that writes the list of the address
\* it was given at may write it under another address.
KeepsItsSelection ==
    /\ page.follows \/ page.selects = "loaded"
    /\ \A c \in page.commands : "list" \notin c.writes

(* When nothing is in flight, the record shown is the one the address      *)
(* names, of the instance it names, whatever was clicked and answered in   *)
(* which order on the way, unless a page keeps a record that it could not  *)
(* load, or writes answers into what it shows.                             *)
ShowsWhatIsSelected ==
    AtRest /\ ReplacesItsRecord /\ detail # None =>
        detail = [inst |-> route.inst, rec |-> route.rec]

(* When nothing is in flight and the list of an instance was loaded, the   *)
(* selection is in the list, and it is empty only for an empty list.  A    *)
(* page does not recover when a person opens the address it is at while    *)
(* its own selection is on the way.                                        *)
SelectionIsListed ==
    AtRest /\ KeepsItsSelection /\ ~reopened /\ route.inst # 0 /\ listState = "success" =>
        IF rows = {} THEN route.rec = 0 ELSE route.rec \in rows

(* No list and no record is shown as loading when nothing is loading it,   *)
(* where the page ends the state of a load that it gives up.               *)
NoEndlessLoading ==
    AtRest =>
        /\ "list" \in page.idles => listState # "loading"
        /\ "detail" \in page.idles => detailState # "loading"

(* A link to a record that exists opens it: the page, left alone, has the  *)
(* address it was opened with once it is at rest with its list loaded.     *)
LinksOpenTheirRecord ==
    AtRest /\ page.selects # "effect" /\ listState = "success" /\ opened # None
      /\ opened.inst # 0 /\ opened.rec # 0 /\ home[opened.rec] = opened.inst
        => route = opened
=============================================================================
