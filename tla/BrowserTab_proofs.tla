--------------------------- MODULE BrowserTab_proofs ---------------------------
(***************************************************************************)
(* What a browser tab keeps to, for every set of accounts, every choice of *)
(* pages, and any number of instances, records and acts.  A record page is *)
(* reasoned about within the tab, under the name Records.                  *)
(***************************************************************************)
EXTENDS BrowserTab, AdminSession_proofs, WellFoundedInduction

-----------------------------------------------------------------------------
(* The first of a set of numbers, and the selection made out of a list.    *)

LEMMA Smallest ==
  ASSUME NEW S \in SUBSET Nat, S # {}
  PROVE  \E x \in S : \A y \in S : x <= y
  <1> DEFINE R == OpToRel(<, Nat)
  <1>1. IsWellFoundedOn(R, Nat)
    BY NatLessThanWellFounded
  <1>2. \A x, y \in Nat : y < x => <<y, x>> \in R
    BY DEF OpToRel
  <1> HIDE DEF R
  <1>3. PICK x \in S : \A y \in S : ~(<<y, x>> \in R)
    BY <1>1, WFMin, Zenon
  <1>4. ASSUME NEW y \in S PROVE x <= y
    <2>1. x \in Nat /\ y \in Nat OBVIOUS
    <2>2. ~(y < x) BY <1>2, <1>3, <2>1
    <2> QED BY <2>1, <2>2
  <1> QED BY <1>4

LEMMA FirstOf ==
  ASSUME NEW S \in SUBSET Nat, S # {}
  PROVE  Records!First(S) \in S
  <1>1. \E x \in S : \A y \in S : x <= y BY Smallest
  <1> QED BY <1>1 DEF Records!First

\* The selection is listed, and nothing only in an empty list.
LEMMA SelectionOf ==
  ASSUME NEW list \in SUBSET Nat, NEW rec \in Nat
  PROVE  /\ Records!Selection(list, rec) \in list \cup {0}
         /\ Records!Selection(list, rec) = rec =>
              IF list = {} THEN rec = 0 ELSE rec \in list
         /\ rec \in list => Records!Selection(list, rec) = rec
  <1>1. CASE rec \in list BY <1>1 DEF Records!Selection
  <1>2. CASE list = {} BY <1>2 DEF Records!Selection, Records!First
  <1>3. CASE rec \notin list /\ list # {}
    <2>1. Records!Selection(list, rec) \in list
      BY <1>3, FirstOf DEF Records!Selection
    <2> QED BY <1>3, <2>1
  <1> QED BY <1>1, <1>2, <1>3

LEMMA Numbers ==
  /\ Records!Records \subseteq Nat /\ 0 \notin Records!Records
  /\ Records!Records \subseteq 0 .. RecordCount
  /\ Records!Instances \subseteq Nat /\ 0 \notin Records!Instances
  /\ Records!Instances \subseteq 0 .. InstanceCount
  /\ 0 \in 0 .. RecordCount /\ 0 \in 0 .. InstanceCount
  /\ \A i \in 0 .. InstanceCount : i # 0 => i \in Records!Instances
  /\ \A x \in 0 .. RecordCount : x # 0 => x \in Records!Records
  BY PagesAssumption DEF Records!Records, Records!Instances

LEMMA SelectingTyped ==
  ASSUME NEW r \in Records!Routes, NEW list \in SUBSET Records!Records
  PROVE  /\ Records!Selecting(r, list) \in Records!Routes
         /\ Records!Selecting(r, list).rec = Records!Selection(list, r.rec)
         /\ Records!Selecting(r, list).inst = r.inst
         /\ Records!Selecting(r, list).filter = r.filter
  <1>1. r.rec \in 0 .. RecordCount BY DEF Records!Routes
  <1>2. list \in SUBSET Nat /\ r.rec \in Nat BY <1>1, Numbers, PagesAssumption
  <1>3. Records!Selection(list, r.rec) \in list \cup {0} BY <1>2, SelectionOf
  <1>4. Records!Selection(list, r.rec) \in 0 .. RecordCount BY <1>3, Numbers
  <1> QED BY <1>4 DEF Records!Selecting, Records!Routes

-----------------------------------------------------------------------------
(* Types of a page.  A command that needs a record is about one.           *)

PageTyped == page \in {Records!PageNamed[n] : n \in Shown}

RowsTyped ==
    /\ home \in [Records!Records -> 0 .. InstanceCount]
    /\ hidden \subseteq Records!Records

AddressTyped == route \in Records!Routes /\ heading \in Records!Routes \cup {None}

ShownTyped ==
    /\ rows \subseteq Records!Records
    /\ detail \in Records!Details \cup {None}
    /\ listState \in Records!States /\ detailState \in Records!States

LoadsTyped ==
    /\ instanceLoad \in Records!Routes \cup {None}
    /\ listLoad \in Records!Routes \cup {None}
    /\ detailLoad \in Records!Details \cup {None}

CommandTyped ==
    /\ commands \subseteq [does : page.commands, inst : Records!Instances,
                           rec : 0 .. RecordCount, route : Records!Routes]
    /\ \A command \in commands :
          Records!NeedsRecord(command.does) => command.rec \in Records!Records

HistoryTyped == opened \in Records!Routes \cup {None} /\ reopened \in BOOLEAN

ActsTyped == acts \in 0 .. PageActLimit

RecordTyped ==
    /\ PageTyped /\ RowsTyped /\ AddressTyped /\ ShownTyped /\ LoadsTyped
    /\ CommandTyped /\ HistoryTyped

LEMMA TypedRecord == RecordTyped /\ ActsTyped => Records!TypeOK
  BY DEF RecordTyped, PageTyped, RowsTyped, AddressTyped, ShownTyped, LoadsTyped,
         CommandTyped, HistoryTyped, ActsTyped, Records!TypeOK

LEMMA RecordTypedKept ==
  /\ PageTyped /\ UNCHANGED page => PageTyped'
  /\ RowsTyped /\ UNCHANGED <<home, hidden>> => RowsTyped'
  /\ AddressTyped /\ UNCHANGED <<route, heading>> => AddressTyped'
  /\ ShownTyped /\ UNCHANGED <<rows, detail, listState, detailState>> => ShownTyped'
  /\ LoadsTyped /\ UNCHANGED <<instanceLoad, listLoad, detailLoad>> => LoadsTyped'
  /\ CommandTyped /\ UNCHANGED <<page, commands>> => CommandTyped'
  /\ HistoryTyped /\ UNCHANGED <<opened, reopened>> => HistoryTyped'
  BY DEF PageTyped, RowsTyped, AddressTyped, ShownTyped, LoadsTyped, CommandTyped,
         HistoryTyped

\* One commit of the page.
LEMMA RunTyped ==
  ASSUME AddressTyped, ShownTyped, LoadsTyped,
         NEW r \in Records!Routes, NEW again, NEW writes,
         NEW list \in SUBSET Records!Records, NEW item \in Records!Details \cup {None},
         NEW goal \in Records!Routes \cup {None},
         Records!Run(r, again, writes, list, item, goal)
  PROVE  AddressTyped' /\ ShownTyped' /\ LoadsTyped'
  <1>0. r.inst \in 0 .. InstanceCount /\ r.rec \in 0 .. RecordCount
    BY DEF Records!Routes
  <1>1. /\ rows' \subseteq Records!Records
        /\ listState' \in Records!States
        /\ listLoad' \in Records!Routes \cup {None}
    <2>1. Records!RunList(r, again, writes, list) BY DEF Records!Run
    <2> QED BY <2>1 DEF Records!RunList, Records!Brought, Records!Ended, Records!States,
                        ShownTyped, LoadsTyped
  <1>2. /\ detail' \in Records!Details \cup {None}
        /\ detailState' \in Records!States
        /\ detailLoad' \in Records!Details \cup {None}
    <2>1. Records!RunDetail(r, again, writes, item) BY DEF Records!Run
    <2>2. r.inst # 0 /\ r.rec # 0 =>
            [inst |-> r.inst, rec |-> r.rec] \in Records!Details
      BY <1>0, Numbers DEF Records!Details
    <2> QED BY <2>1, <2>2 DEF Records!RunDetail, Records!Brought, Records!Ended,
                              Records!States, ShownTyped, LoadsTyped
  <1>3. instanceLoad' \in Records!Routes \cup {None}
    BY DEF Records!Run, Records!RunInstances, LoadsTyped
  <1>4. heading' \in Records!Routes \cup {None}
    <2>1. Records!Selecting(r, rows') \in Records!Routes
      BY <1>1, SelectingTyped
    <2> QED BY <2>1 DEF Records!Run, Records!RunSelection
  <1>5. route' \in Records!Routes BY DEF Records!Run
  <1> QED BY <1>1, <1>2, <1>3, <1>4, <1>5 DEF AddressTyped, ShownTyped, LoadsTyped

\* What the tuples of the page's variables stand for.
LEMMA PageTuples ==
  /\ (UNCHANGED Records!server) = (UNCHANGED <<home, hidden>>)
  /\ (UNCHANGED Records!address) = (UNCHANGED <<route, heading>>)
  /\ (UNCHANGED Records!shown) = (UNCHANGED <<rows, detail, listState, detailState>>)
  /\ (UNCHANGED Records!loads) = (UNCHANGED <<instanceLoad, listLoad, detailLoad>>)
  /\ (UNCHANGED Records!history) = (UNCHANGED <<opened, reopened>>)
  BY DEF Records!server, Records!address, Records!shown, Records!loads, Records!history

\* Answers of loads and navigations.
LEMMA AnswerTyped ==
  ASSUME RecordTyped,
         \/ Records!NavigationArrives \/ Records!InstancesEnd
         \/ Records!ListEnds \/ Records!DetailEnds
  PROVE  RecordTyped' /\ UNCHANGED <<acts, page>>
  <1> USE DEF RecordTyped
  <1>1. CASE Records!NavigationArrives
    <2>1. /\ heading \in Records!Routes
          /\ Records!Run(heading, FALSE, {}, rows, detail, None)
          /\ UNCHANGED <<home, hidden, page, commands, opened, reopened, acts>>
      BY <1>1, PageTuples DEF Records!NavigationArrives, AddressTyped
    <2>2. AddressTyped' /\ ShownTyped' /\ LoadsTyped'
      BY <2>1, RunTyped DEF ShownTyped
    <2> QED BY <2>1, <2>2, RecordTypedKept
  <1>2. CASE Records!InstancesAnswered
    <2>1. [instanceLoad EXCEPT !.inst = Records!First(Records!Instances)]
            \in Records!Routes
      <3>1. instanceLoad \in Records!Routes
        BY <1>2 DEF Records!InstancesAnswered, LoadsTyped
      <3>2. 1 \in Records!Instances BY PagesAssumption DEF Records!Instances
      <3>3. Records!First(Records!Instances) \in 0 .. InstanceCount
        BY <3>2, Numbers, FirstOf
      <3> QED BY <3>1, <3>3 DEF Records!Routes
    <2>2. /\ instanceLoad' = None
          /\ UNCHANGED <<home, hidden, page, route, rows, detail, listState, detailState,
                         listLoad, detailLoad, commands, opened, reopened, acts>>
      BY <1>2, PageTuples DEF Records!InstancesAnswered
    <2>3. AddressTyped'
      BY <1>2, <2>1, <2>2 DEF Records!InstancesAnswered, AddressTyped
    <2>4. LoadsTyped' BY <2>2 DEF LoadsTyped
    <2> QED BY <2>2, <2>3, <2>4, RecordTypedKept
  <1>3. CASE Records!InstancesFail
    <2>1. /\ instanceLoad' = None
          /\ UNCHANGED <<home, hidden, page, route, heading, rows, detail, listState,
                         detailState, listLoad, detailLoad, commands, opened, reopened, acts>>
      BY <1>3, PageTuples DEF Records!InstancesFail
    <2>2. LoadsTyped' BY <2>1 DEF LoadsTyped
    <2> QED BY <2>1, <2>2, RecordTypedKept
  <1>4. CASE Records!ListAnswered
    <2>1. /\ listLoad \in Records!Routes
          /\ rows' = Records!Listed(listLoad) /\ listState' = "success"
          /\ listLoad' = None
          /\ UNCHANGED <<home, hidden, page, route, detail, detailState, instanceLoad,
                         detailLoad, commands, opened, reopened, acts>>
      BY <1>4, PageTuples DEF Records!ListAnswered, LoadsTyped
    <2>2. rows' \subseteq Records!Records BY <2>1 DEF Records!Listed
    <2>3. AddressTyped'
      <3>1. \A r \in Records!Routes : Records!Selecting(r, rows') \in Records!Routes
        BY <2>2, SelectingTyped
      <3> QED BY <1>4, <2>1, <3>1 DEF Records!ListAnswered, AddressTyped
    <2>4. ShownTyped' BY <2>1, <2>2 DEF ShownTyped, Records!States
    <2>5. LoadsTyped' BY <2>1 DEF LoadsTyped
    <2> QED BY <2>1, <2>3, <2>4, <2>5, RecordTypedKept
  <1>5. CASE Records!ListFails
    <2>1. /\ listLoad' = None /\ listState' = "error"
          /\ rows' \in {rows, {}} /\ detail' \in {detail, None}
          /\ UNCHANGED <<home, hidden, page, route, heading, detailState, instanceLoad,
                         detailLoad, commands, opened, reopened, acts>>
      BY <1>5, PageTuples DEF Records!ListFails
    <2>2. ShownTyped' BY <2>1 DEF ShownTyped, Records!States
    <2>3. LoadsTyped' BY <2>1 DEF LoadsTyped
    <2> QED BY <2>1, <2>2, <2>3, RecordTypedKept
  <1>6. CASE Records!DetailEnds
    <2>1. /\ detailLoad # None /\ detailLoad' = None
          /\ detailState' \in {"success", "error"}
          /\ detail' \in {detail, detailLoad, None}
          /\ UNCHANGED <<home, hidden, page, route, heading, rows, listState,
                         instanceLoad, listLoad, commands, opened, reopened, acts>>
      BY <1>6, PageTuples
         DEF Records!DetailEnds, Records!DetailAnswered, Records!DetailFails
    <2>2. ShownTyped' BY <2>1 DEF ShownTyped, LoadsTyped, Records!States
    <2>3. LoadsTyped' BY <2>1 DEF LoadsTyped
    <2> QED BY <2>1, <2>2, <2>3, RecordTypedKept
  <1> QED BY <1>1, <1>2, <1>3, <1>4, <1>5, <1>6 DEF Records!InstancesEnd, Records!ListEnds

\* What a command's answer may be about.
LEMMA ServerDoesTyped ==
  ASSUME RowsTyped, NEW does, NEW inst \in Records!Instances, NEW rec, NEW answer,
         does \notin {"adds", "ensures"} => rec \in Records!Records,
         Records!ServerDoes(does, inst, rec, answer)
  PROVE  RowsTyped' /\ answer \in Records!Records
  <1>1. inst \in 0 .. InstanceCount BY Numbers
  <1>2. CASE does \in {"adds", "replaces"}
    BY <1>1, <1>2 DEF Records!ServerDoes, RowsTyped
  <1>3. CASE does = "ensures"
    BY <1>1, <1>3 DEF Records!ServerDoes, RowsTyped
  <1>4. CASE does = "edits"
    BY <1>4 DEF Records!ServerDoes, RowsTyped
  <1>5. CASE does = "removes"
    BY <1>5, Numbers DEF Records!ServerDoes, RowsTyped
  <1>6. CASE does \notin {"adds", "replaces", "ensures", "edits", "removes"}
    BY <1>6 DEF Records!ServerDoes, RowsTyped, Records!server
  <1> QED BY <1>2, <1>3, <1>4, <1>5, <1>6

LEMMA CommandEndsTyped ==
  ASSUME RecordTyped, Records!CommandEnds
  PROVE  RecordTyped' /\ UNCHANGED <<acts, page>>
  <1> USE DEF RecordTyped
  <1>1. ASSUME NEW command \in commands, Records!CommandFails(command)
        PROVE  RecordTyped' /\ UNCHANGED <<acts, page>>
    <2>1. /\ commands' = commands \ {command}
          /\ UNCHANGED <<home, hidden, page, route, heading, rows, detail, listState,
                         detailState, instanceLoad, listLoad, detailLoad, opened,
                         reopened, acts>>
      BY <1>1, PageTuples DEF Records!CommandFails
    <2>2. CommandTyped' BY <2>1 DEF CommandTyped
    <2> QED BY <2>1, <2>2, RecordTypedKept
  <1>2. ASSUME NEW command \in commands, NEW answer \in 0 .. RecordCount,
               Records!CommandAnswered(command, answer)
        PROVE  RecordTyped' /\ UNCHANGED <<acts, page>>
    <2> DEFINE c == command.does
               inst == command.inst
               list == {x \in Records!Records : home'[x] = inst
                          /\ (command.route.filter = "some" => x \notin hidden)}
               shows == IF "list" \in c.writes THEN list
                        ELSE IF "row" \in c.writes THEN rows \cup {answer} ELSE rows
               record_ == IF "detail" \in c.writes
                          THEN [inst |-> inst, rec |-> answer] ELSE detail
               goal == Records!Goal(command, list, answer)
    <2>1. /\ Records!ServerDoes(c.does, inst, command.rec, answer)
          /\ Records!Run(route, c.refreshes, c.writes, shows, record_, goal)
          /\ commands' = commands \ {command}
          /\ UNCHANGED <<page, opened, reopened, acts>>
      BY <1>2, PageTuples DEF Records!CommandAnswered
    <2>2. /\ inst \in Records!Instances
          /\ command.route \in Records!Routes
          /\ Records!NeedsRecord(c) => command.rec \in Records!Records
      BY DEF CommandTyped
    <2>3. RowsTyped' /\ answer \in Records!Records
      BY <2>1, <2>2, ServerDoesTyped DEF Records!NeedsRecord
    <2>4. list \in SUBSET Records!Records OBVIOUS
    <2>5. shows \in SUBSET Records!Records
      BY <2>3, <2>4 DEF ShownTyped
    <2>6. record_ \in Records!Details \cup {None}
      BY <2>2, <2>3 DEF ShownTyped, Records!Details
    <2>7. goal \in Records!Routes \cup {None}
      <3>1. answer \in 0 .. RecordCount /\ command.route.rec \in 0 .. RecordCount
        BY <2>2 DEF Records!Routes
      <3> HIDE DEF list
      <3>2. \A x \in 0 .. RecordCount : Records!Selection(list, x) \in 0 .. RecordCount
        <4>1. list \in SUBSET Nat /\ \A x \in 0 .. RecordCount : x \in Nat
          BY <2>4, Numbers, PagesAssumption
        <4> QED BY <2>4, <4>1, SelectionOf, Numbers
      <3>3. \A x \in 0 .. RecordCount : [command.route EXCEPT !.rec = x] \in Records!Routes
        BY <2>2 DEF Records!Routes
      <3> QED BY <3>1, <3>2, <3>3 DEF Records!Goal, AddressTyped
    <2> HIDE DEF shows, record_, goal
    <2>8. AddressTyped' /\ ShownTyped' /\ LoadsTyped'
      BY <2>1, <2>5, <2>6, <2>7, RunTyped DEF AddressTyped
    <2>9. CommandTyped' BY <2>1 DEF CommandTyped
    <2> QED BY <2>1, <2>3, <2>8, <2>9, RecordTypedKept
  <1> QED BY <1>1, <1>2 DEF Records!CommandEnds

\* What persons do: run a command, lead the page somewhere, change a record.
LEMMA PersonActs ==
  ASSUME AddressTyped, Records!Person
  PROVE  \/ \E c \in page.commands : Records!RunCommand(c)
         \/ \E r \in Records!Routes : Records!Navigate(r)
         \/ \E x \in Records!Records, i \in 0 .. InstanceCount : Records!OthersChange(x, i)
  <1>1. ASSUME NEW x \in Records!Records, Records!SelectRow(x)
        PROVE  \E r \in Records!Routes : Records!Navigate(r)
    <2>1. [route EXCEPT !.rec = x] \in Records!Routes
      BY Numbers DEF AddressTyped, Records!Routes
    <2> QED BY <1>1, <2>1 DEF Records!SelectRow
  <1>2. ASSUME NEW i \in Records!Instances, Records!ChangeInstance(i)
        PROVE  \E r \in Records!Routes : Records!Navigate(r)
    <2>1. [inst |-> i, rec |-> 0, filter |-> route.filter] \in Records!Routes
      BY Numbers DEF AddressTyped, Records!Routes
    <2> QED BY <1>2, <2>1 DEF Records!ChangeInstance
  <1>3. ASSUME NEW f \in Records!Filters, Records!ChangeFilter(f)
        PROVE  \E r \in Records!Routes : Records!Navigate(r)
    <2>1. [inst |-> route.inst, rec |-> 0, filter |-> f] \in Records!Routes
      BY Numbers DEF AddressTyped, Records!Routes
    <2> QED BY <1>3, <2>1 DEF Records!ChangeFilter
  <1>4. ASSUME NEW i \in 0 .. InstanceCount, NEW x \in 0 .. RecordCount,
               Records!FollowLink(i, x)
        PROVE  \E r \in Records!Routes : Records!Navigate(r)
    <2>1. [inst |-> i, rec |-> x, filter |-> "all"] \in Records!Routes
      BY DEF Records!Routes, Records!Filters
    <2> QED BY <1>4, <2>1 DEF Records!FollowLink
  <1> QED BY <1>1, <1>2, <1>3, <1>4 DEF Records!Person

LEMMA ActTyped ==
  ASSUME RecordTyped, ActsTyped, Records!Person
  PROVE  RecordTyped' /\ ActsTyped' /\ UNCHANGED page
  <1> USE DEF RecordTyped
  <1>1. ASSUME Records!Act PROVE ActsTyped' /\ opened' = None
    BY <1>1, PagesAssumption, LimitsAssumption DEF Records!Act, ActsTyped
  <1>2. ASSUME NEW c \in page.commands, Records!RunCommand(c)
        PROVE  RecordTyped' /\ ActsTyped' /\ UNCHANGED page
    <2>1. /\ route.inst # 0
          /\ Records!NeedsRecord(c) => detail # None
          /\ commands' = commands \cup
                {[does |-> c, inst |-> route.inst, route |-> route,
                  rec |-> IF Records!NeedsRecord(c) THEN detail.rec ELSE 0]}
          /\ Records!Act
          /\ UNCHANGED <<home, hidden, page, route, heading, rows, detail, listState,
                         detailState, instanceLoad, listLoad, detailLoad, reopened>>
      BY <1>2, PageTuples DEF Records!RunCommand
    <2>2. route.inst \in Records!Instances
      BY <2>1, Numbers DEF AddressTyped, Records!Routes
    <2>3. Records!NeedsRecord(c) => detail.rec \in Records!Records
      BY <2>1 DEF ShownTyped, Records!Details
    <2>4. CommandTyped'
      <3> DEFINE rec == IF Records!NeedsRecord(c) THEN detail.rec ELSE 0
                 run == [does |-> c, inst |-> route.inst, route |-> route, rec |-> rec]
      <3>1. commands' = commands \cup {run} /\ page' = page BY <2>1
      <3>2. /\ rec \in 0 .. RecordCount
            /\ Records!NeedsRecord(c) => rec \in Records!Records
        BY <2>3, Numbers
      <3> HIDE DEF rec
      <3>3. run \in [does : page.commands, inst : Records!Instances,
                     rec : 0 .. RecordCount, route : Records!Routes]
        BY <2>2, <3>2 DEF AddressTyped
      <3>4. run.does = c /\ run.rec = rec OBVIOUS
      <3> HIDE DEF run
      <3> QED BY <3>1, <3>2, <3>3, <3>4 DEF CommandTyped, Records!NeedsRecord
    <2>5. HistoryTyped' BY <1>1, <2>1 DEF HistoryTyped
    <2> QED BY <1>1, <2>1, <2>4, <2>5, RecordTypedKept
  <1>3. ASSUME NEW r \in Records!Routes, Records!Navigate(r)
        PROVE  RecordTyped' /\ ActsTyped' /\ UNCHANGED page
    <2>1. /\ heading' = r
          /\ reopened' = (reopened \/ r = route)
          /\ Records!Act
          /\ UNCHANGED <<home, hidden, page, route, rows, detail, listState, detailState,
                         instanceLoad, listLoad, detailLoad, commands>>
      BY <1>3, PageTuples DEF Records!Navigate
    <2>2. AddressTyped' BY <2>1 DEF AddressTyped
    <2>3. HistoryTyped' BY <1>1, <2>1, Zenon DEF HistoryTyped
    <2> QED BY <1>1, <2>1, <2>2, <2>3, RecordTypedKept
  <1>4. ASSUME NEW x \in Records!Records, NEW i \in 0 .. InstanceCount,
               Records!OthersChange(x, i)
        PROVE  RecordTyped' /\ ActsTyped' /\ UNCHANGED page
    <2>1. /\ home' = [home EXCEPT ![x] = i]
          /\ Records!Act
          /\ UNCHANGED <<hidden, page, route, heading, rows, detail, listState, detailState,
                         instanceLoad, listLoad, detailLoad, commands, reopened>>
      BY <1>4, PageTuples DEF Records!OthersChange
    <2>2. RowsTyped' BY <2>1 DEF RowsTyped
    <2>3. HistoryTyped' BY <1>1, <2>1 DEF HistoryTyped
    <2> QED BY <1>1, <2>1, <2>2, <2>3, RecordTypedKept
  <1> QED BY <1>2, <1>3, <1>4, PersonActs DEF RecordTyped

LEMMA RecordNextTyped ==
  ASSUME RecordTyped, ActsTyped, Records!Next
  PROVE  RecordTyped' /\ ActsTyped' /\ UNCHANGED page
  <1>1. ASSUME UNCHANGED acts PROVE ActsTyped' BY <1>1 DEF ActsTyped
  <1> QED BY <1>1, AnswerTyped, CommandEndsTyped, ActTyped DEF Records!Next

-----------------------------------------------------------------------------
(* What holds on the way to rest.  A load under way is the one the address  *)
(* calls for, and what is shown as loading is being loaded; a selection     *)
(* that is not in the list is about to move; a link that was followed waits *)
(* for nothing but its loads.                                               *)

Named == [inst |-> route.inst, rec |-> route.rec]

LoadsFit ==
    /\ instanceLoad # None => route.inst = 0
    /\ listLoad # None /\ page.follows => listLoad = route
    /\ detailLoad # None => detailLoad = Named

StatesEnd ==
    /\ "list" \in page.idles /\ listState = "loading" => listLoad # None
    /\ "detail" \in page.idles /\ detailState = "loading" => detailLoad # None

ShowsNamed ==
    Records!ReplacesItsRecord => detail \in {None, Named} \/ detailLoad # None

OnItsWay == heading # None /\ heading # route

Selects ==
    /\ Records!KeepsItsSelection /\ ~reopened
    /\ route.inst # 0 /\ listState = "success" /\ listLoad = None
    => Records!Selection(rows, route.rec) = route.rec \/ OnItsWay

LinkHolds ==
    /\ opened # None /\ page.selects # "effect"
    /\ opened.inst # 0 /\ opened.rec # 0 /\ home[opened.rec] = opened.inst

OpensLink ==
    /\ opened # None => commands = {} /\ opened.filter = "all"
    /\ LinkHolds => /\ route = opened /\ heading = None
                    /\ instanceLoad = None /\ listLoad \in {None, opened}

PageInv == LoadsFit /\ StatesEnd /\ ShowsNamed /\ Selects /\ OpensLink

LEMMA NoneIsElse == None \notin Records!Routes /\ None \notin Records!Details
  BY PagesAssumption

LEMMA SameAddress ==
  ASSUME NEW r \in Records!Routes, NEW q \in Records!Routes,
         r.inst = q.inst, r.rec = q.rec, r.filter = q.filter
  PROVE  r = q
  BY DEF Records!Routes

\* Selecting another record is going somewhere else.
LEMMA SelectingMoves ==
  ASSUME NEW r \in Records!Routes, NEW list \in SUBSET Records!Records,
         Records!Selection(list, r.rec) # r.rec
  PROVE  Records!Selecting(r, list) # None /\ Records!Selecting(r, list) # r
  BY SelectingTyped, NoneIsElse

\* The traits of the pages that keep their selection.
LEMMA KeepingPages ==
  ASSUME PageTyped, Records!KeepsItsSelection
  PROVE  /\ page.selects \in {"answer", "loaded"}
         /\ page.selects = "answer" => page.follows
         /\ \A c \in page.commands : c.refreshes \/ (~c.selects /\ "row" \notin c.writes)
  <1>1. PICK n \in DOMAIN Records!PageNamed : page = Records!PageNamed[n]
    BY PagesAssumption DEF PageTyped
  <1>2. page.selects = "answer" => page.follows
    BY DEF Records!KeepsItsSelection
  <1> DEFINE Plain ==
        {Records!TasksPage, Records!RemindersPage, Records!AutomationsPage,
         Records!ChannelsPage, Records!WorkspacesPage, Records!ArtifactsPage,
         Records!InboxPage, Records!ConversationsPage, Records!AssistantProfilesPage,
         Records!KnowledgeSourcesPage, Records!ContactsPage, Records!PluginsPage}
  <1>3. \/ page \in Plain
        \/ page = Records!NotificationsPage
        \/ page \in {Records!MemoryPage, Records!LearningPage, Records!SkillsPage}
        \/ page = Records!AgentsPage
        \/ page = Records!ExecutionPage
    BY <1>1 DEF Records!PageNamed
  <1>p. ASSUME NEW p \in Plain
        PROVE  \E C \in SUBSET {Records!Creates, Records!Edits, Records!Follows} :
                 p = Records!Page(C)
    <2>1. CASE p = Records!TasksPage
      BY <2>1 DEF Records!TasksPage, Records!TaskCommands
    <2>2. CASE p = Records!RemindersPage
      BY <2>2 DEF Records!RemindersPage, Records!ReminderCommands
    <2>3. CASE p = Records!AutomationsPage
      BY <2>3 DEF Records!AutomationsPage, Records!AutomationCommands
    <2>4. CASE p = Records!ChannelsPage
      BY <2>4 DEF Records!ChannelsPage, Records!ChannelCommands
    <2>5. CASE p = Records!WorkspacesPage
      BY <2>5 DEF Records!WorkspacesPage, Records!WorkspaceCommands
    <2>6. CASE p = Records!ArtifactsPage
      BY <2>6 DEF Records!ArtifactsPage, Records!ArtifactCommands
    <2>7. CASE p = Records!InboxPage
      BY <2>7 DEF Records!InboxPage, Records!InboxCommands
    <2>8. CASE p = Records!ConversationsPage
      BY <2>8 DEF Records!ConversationsPage, Records!ConversationCommands
    <2>9. CASE p = Records!AssistantProfilesPage
      BY <2>9 DEF Records!AssistantProfilesPage, Records!ProfileCommands
    <2>10. CASE p = Records!KnowledgeSourcesPage
      BY <2>10 DEF Records!KnowledgeSourcesPage, Records!SourceCommands
    <2>11. CASE p = Records!ContactsPage
      BY <2>11 DEF Records!ContactsPage, Records!ContactCommands
    <2>12. CASE p = Records!PluginsPage
      BY <2>12 DEF Records!PluginsPage, Records!PluginCommands
    <2> QED BY <2>1, <2>2, <2>3, <2>4, <2>5, <2>6, <2>7, <2>8, <2>9, <2>10, <2>11, <2>12
  <1>4. CASE page \in Plain
    <2>1. PICK C \in SUBSET {Records!Creates, Records!Edits, Records!Follows} :
            page = Records!Page(C)
      BY <1>p, <1>4
    <2> HIDE DEF Plain
    <2> QED BY <1>2, <2>1 DEF Records!Page, Records!Command, Records!Creates,
                              Records!Edits, Records!Follows
  <1>5. CASE page = Records!NotificationsPage
    BY <1>2, <1>5 DEF Records!Page, Records!Command, Records!NotificationsPage,
                      Records!NotificationCommands, Records!NotificationSync
  <1>6. page \notin {Records!MemoryPage, Records!LearningPage, Records!SkillsPage}
    BY DEF Records!KeepsItsSelection, Records!MemoryPage, Records!LearningPage,
           Records!SkillsPage, Records!Page
  <1>7. page # Records!AgentsPage
    <2> SUFFICES ASSUME page = Records!AgentsPage PROVE FALSE
      OBVIOUS
    <2>1. Records!AgentRepair \in page.commands
      BY DEF Records!AgentsPage, Records!AgentCommands, Records!Page
    <2>2. "list" \in Records!AgentRepair.writes BY DEF Records!AgentRepair, Records!Command
    <2> QED BY <2>1, <2>2 DEF Records!KeepsItsSelection
  <1>8. CASE page = Records!ExecutionPage
    BY <1>8 DEF Records!ExecutionPage, Records!ExecutionCommands, Records!Page,
                Records!Command, Records!Edits
  <1> QED BY <1>3, <1>4, <1>5, <1>6, <1>7, <1>8

-----------------------------------------------------------------------------
(* One commit of the page keeps all of it.                                  *)

LEMMA TraitsKept ==
  ASSUME UNCHANGED page
  PROVE  /\ Records!ReplacesItsRecord' = Records!ReplacesItsRecord
         /\ Records!KeepsItsSelection' = Records!KeepsItsSelection
  BY DEF Records!ReplacesItsRecord, Records!KeepsItsSelection

\* Invariants about loads depend on nothing else.
LEMMA LoadsKept ==
  ASSUME UNCHANGED <<page, route, instanceLoad, listLoad, detailLoad>>
  PROVE  LoadsFit => LoadsFit'
  BY DEF LoadsFit, Named

LEMMA StatesKept ==
  ASSUME UNCHANGED <<page, listState, detailState, listLoad, detailLoad>>
  PROVE  StatesEnd => StatesEnd'
  BY DEF StatesEnd

LEMMA ShownKept ==
  ASSUME UNCHANGED <<page, route, detail, detailLoad>>
  PROVE  ShowsNamed => ShowsNamed'
  BY TraitsKept DEF ShowsNamed, Named

LEMMA SelectsKept ==
  ASSUME UNCHANGED <<page, route, heading, rows, listState, listLoad, reopened>>
  PROVE  Selects => Selects'
  <1>1. Records!Selection(rows, route.rec)' = Records!Selection(rows, route.rec)
    BY DEF Records!Selection, Records!First
  <1> QED BY <1>1, TraitsKept DEF Selects, OnItsWay

LEMMA RunFits ==
  ASSUME RecordTyped, LoadsFit, StatesEnd, UNCHANGED page,
         NEW r \in Records!Routes, NEW again, NEW writes, NEW list, NEW item, NEW goal,
         Records!Run(r, again, writes, list, item, goal)
  PROVE  LoadsFit' /\ StatesEnd'
  <1>0. route' = r BY DEF Records!Run
  <1>1. instanceLoad' # None => route'.inst = 0
    BY <1>0 DEF Records!Run, Records!RunInstances, LoadsFit
  <1>2. Records!RunList(r, again, writes, list) BY DEF Records!Run
  <1>3. listLoad' # None /\ page.follows => listLoad' = r
    <2>1. CASE Records!ListReloads(r, again)
      BY <1>2, <2>1 DEF Records!RunList
    <2>2. CASE ~Records!ListReloads(r, again) /\ page.follows
      <3>1. r = route
        BY <2>2, SameAddress DEF Records!ListReloads, RecordTyped, AddressTyped
      <3> QED BY <1>2, <2>2, <3>1 DEF Records!RunList, LoadsFit
    <2> QED BY <2>1, <2>2
  <1>4. Records!RunDetail(r, again, writes, item) BY DEF Records!Run
  <1>5. detailLoad' # None => detailLoad' = [inst |-> r.inst, rec |-> r.rec]
    BY <1>4 DEF Records!RunDetail, Records!DetailReloads, LoadsFit, Named
  <1>6. LoadsFit' BY <1>0, <1>1, <1>3, <1>5 DEF LoadsFit, Named
  <1>7. "list" \in page.idles /\ listState' = "loading" => listLoad' # None
    BY <1>2, NoneIsElse DEF Records!RunList, Records!Brought, Records!Ended, StatesEnd
  <1>8. "detail" \in page.idles /\ detailState' = "loading" => detailLoad' # None
    <2>1. r.inst # 0 /\ r.rec # 0 =>
            [inst |-> r.inst, rec |-> r.rec] \in Records!Details
      BY Numbers DEF Records!Details, Records!Routes
    <2> QED BY <1>4, <2>1, NoneIsElse
            DEF Records!RunDetail, Records!Brought, Records!Ended, StatesEnd
  <1>9. StatesEnd' BY <1>7, <1>8 DEF StatesEnd
  <1> QED BY <1>6, <1>9

\* A commit that shows the record it showed.
LEMMA RunShows ==
  ASSUME RecordTyped, ShowsNamed, UNCHANGED page,
         NEW r \in Records!Routes, NEW again, NEW writes, NEW list, NEW item, NEW goal,
         Records!Run(r, again, writes, list, item, goal),
         Records!ReplacesItsRecord => item = detail
  PROVE  ShowsNamed'
  <1> SUFFICES ASSUME Records!ReplacesItsRecord
               PROVE  detail' \in {None, Named'} \/ detailLoad' # None
    BY TraitsKept DEF ShowsNamed
  <1>0. route' = r BY DEF Records!Run
  <1>1. Records!RunDetail(r, again, writes, detail) BY DEF Records!Run
  <1>2. CASE Records!DetailReloads(r, again)
    <2>1. r.inst # 0 /\ r.rec # 0 =>
            [inst |-> r.inst, rec |-> r.rec] \in Records!Details
      BY Numbers DEF Records!Details, Records!Routes
    <2> QED BY <1>1, <1>2, <2>1, NoneIsElse DEF Records!RunDetail
  <1>3. CASE ~Records!DetailReloads(r, again)
    <2>1. detail' = detail /\ detailLoad' = detailLoad
      BY <1>1, <1>3 DEF Records!RunDetail
    <2>2. Named' = Named BY <1>0, <1>3 DEF Records!DetailReloads, Named
    <2> QED BY <2>1, <2>2 DEF ShowsNamed
  <1> QED BY <1>2, <1>3

-----------------------------------------------------------------------------
(* Answers.                                                                *)

\* A list that is not loaded anew stays, and so does the state of its load.
LEMMA NotReloaded ==
  ASSUME NEW r \in Records!Routes, NEW again, NEW writes, NEW list, "list" \notin writes,
         Records!RunList(r, again, writes, list),
         r.inst # 0, listLoad' = None
  PROVE  /\ ~Records!ListReloads(r, again)
         /\ rows' = list /\ UNCHANGED <<listLoad, listState>>
  BY NoneIsElse DEF Records!RunList, Records!Brought

LEMMA NavigationSelects ==
  ASSUME RecordTyped, Selects, Records!NavigationArrives
  PROVE  Selects'
  <1>1. /\ heading # None /\ heading \in Records!Routes
        /\ Records!Run(heading, FALSE, {}, rows, detail, None)
        /\ UNCHANGED <<page, reopened>>
    BY PageTuples DEF Records!NavigationArrives, RecordTyped, AddressTyped
  <1>2. route' = heading /\ Records!RunList(heading, FALSE, {}, rows)
        /\ Records!RunSelection(heading, None)
    BY <1>1 DEF Records!Run
  <1> SUFFICES ASSUME Records!KeepsItsSelection, ~reopened,
                      heading.inst # 0, listState' = "success", listLoad' = None
               PROVE  Records!Selection(rows', heading.rec) = heading.rec \/ OnItsWay'
    BY <1>1, <1>2, TraitsKept DEF Selects, Records!Selection, Records!First
  <1>3. /\ ~Records!ListReloads(heading, FALSE)
        /\ rows' = rows /\ listState = "success" /\ listLoad = None
    BY <1>1, <1>2, NotReloaded
  <1>4. heading.inst = route.inst /\ heading.filter = route.filter
    BY <1>3 DEF Records!ListReloads
  <1>5. CASE heading = route
    BY <1>3, <1>5 DEF Selects, OnItsWay
  <1>6. CASE heading # route
    <2>1. heading.rec # route.rec
      BY <1>1, <1>4, <1>6, SameAddress DEF RecordTyped, AddressTyped
    <2>2. ~page.follows BY <1>3, <2>1 DEF Records!ListReloads
    <2>3. page.selects = "loaded" BY <2>2, KeepingPages DEF RecordTyped
    <2>4. heading' = IF Records!Selection(rows', heading.rec) # heading.rec
                     THEN Records!Selecting(heading, rows') ELSE None
      BY <1>2, <1>3, <1>6, <2>3 DEF Records!RunSelection
    <2>5. Records!Selection(rows', heading.rec) # heading.rec =>
            /\ Records!Selecting(heading, rows') # None
            /\ Records!Selecting(heading, rows') # heading
      BY <1>1, <1>3, SelectingMoves DEF RecordTyped, ShownTyped
    <2> QED BY <1>2, <2>4, <2>5 DEF OnItsWay
  <1> QED BY <1>5, <1>6

LEMMA ListSelects ==
  ASSUME RecordTyped, LoadsFit, Records!ListAnswered
  PROVE  Selects'
  <1>1. /\ listLoad # None /\ rows' = Records!Listed(listLoad)
        /\ UNCHANGED <<page, route, reopened>>
    BY PageTuples DEF Records!ListAnswered
  <1> SUFFICES ASSUME Records!KeepsItsSelection
               PROVE  Records!Selection(rows', route.rec) = route.rec \/ OnItsWay'
    BY <1>1, TraitsKept DEF Selects, Records!Selection, Records!First
  <1>2. page.selects = "answer" => listLoad = route
    BY <1>1, KeepingPages DEF LoadsFit, RecordTyped
  <1>3. heading' = IF Records!Selection(rows', route.rec) # route.rec
                   THEN Records!Selecting(route, rows') ELSE heading
    BY <1>2 DEF Records!ListAnswered
  <1>4. Records!Selection(rows', route.rec) # route.rec =>
          Records!Selecting(route, rows') # None /\ Records!Selecting(route, rows') # route
    BY <1>1, SelectingMoves DEF RecordTyped, AddressTyped, Records!Listed
  <1> QED BY <1>1, <1>3, <1>4 DEF OnItsWay

LEMMA ListOpens ==
  ASSUME RecordTyped, OpensLink, Records!ListAnswered
  PROVE  OpensLink'
  <1>1. /\ listLoad # None /\ rows' = Records!Listed(listLoad) /\ listLoad' = None
        /\ UNCHANGED <<home, page, route, instanceLoad, opened, commands>>
    BY PageTuples DEF Records!ListAnswered
  <1>2. ASSUME LinkHolds PROVE heading' = None
    <2>1. route = opened /\ heading = None /\ listLoad = opened /\ opened.filter = "all"
      BY <1>1, <1>2 DEF OpensLink, LinkHolds
    <2>2. opened.rec \in Records!Records
      BY <1>2, Numbers DEF LinkHolds, RecordTyped, HistoryTyped, Records!Routes
    <2>3. opened.rec \in rows'
      BY <1>1, <1>2, <2>1, <2>2 DEF Records!Listed, LinkHolds
    <2>4. Records!Selection(rows', opened.rec) = opened.rec
      BY <2>3 DEF Records!Selection
    <2> QED BY <2>1, <2>4 DEF Records!ListAnswered
  <1>3. LinkHolds' = LinkHolds BY <1>1 DEF LinkHolds
  <1> QED BY <1>1, <1>2, <1>3 DEF OpensLink

LEMMA AnswersKeep ==
  ASSUME RecordTyped, PageInv,
         \/ Records!NavigationArrives \/ Records!InstancesEnd
         \/ Records!ListEnds \/ Records!DetailEnds
  PROVE  PageInv'
  <1> USE DEF PageInv
  <1>1. CASE Records!NavigationArrives
    <2>1. /\ heading # None /\ heading \in Records!Routes
          /\ Records!Run(heading, FALSE, {}, rows, detail, None)
          /\ UNCHANGED <<home, page, commands, opened>>
      BY <1>1, PageTuples DEF Records!NavigationArrives, RecordTyped, AddressTyped
    <2>2. LoadsFit' /\ StatesEnd' BY <2>1, RunFits
    <2>3. ShowsNamed' BY <2>1, RunShows
    <2>4. Selects' BY <1>1, NavigationSelects
    <2>5. OpensLink' BY <2>1 DEF OpensLink, LinkHolds
    <2> QED BY <2>2, <2>3, <2>4, <2>5
  <1>2. CASE Records!InstancesEnd
    <2>1. /\ instanceLoad # None /\ instanceLoad' = None
          /\ UNCHANGED <<home, page, route, rows, detail, listState, detailState, listLoad,
                         detailLoad, commands, opened, reopened>>
      BY <1>2, PageTuples
         DEF Records!InstancesEnd, Records!InstancesAnswered, Records!InstancesFail
    <2>2. LoadsFit' BY <2>1 DEF LoadsFit, Named
    <2>3. StatesEnd' BY <2>1, StatesKept
    <2>4. ShowsNamed' BY <2>1, ShownKept
    <2>5. Selects' BY <2>1 DEF Selects, LoadsFit
    <2>6. OpensLink' BY <2>1 DEF OpensLink, LinkHolds
    <2> QED BY <2>2, <2>3, <2>4, <2>5, <2>6
  <1>3. CASE Records!ListAnswered
    <2>1. /\ listLoad' = None /\ listState' = "success"
          /\ UNCHANGED <<page, route, detail, detailState, instanceLoad, detailLoad>>
      BY <1>3, PageTuples DEF Records!ListAnswered
    <2>2. LoadsFit' BY <2>1 DEF LoadsFit, Named
    <2>3. StatesEnd' BY <2>1 DEF StatesEnd
    <2>4. ShowsNamed' BY <2>1, ShownKept
    <2> QED BY <1>3, <2>2, <2>3, <2>4, ListSelects, ListOpens
  <1>4. CASE Records!ListFails
    <2>1. /\ listLoad' = None /\ listState' = "error" /\ detail' \in {detail, None}
          /\ UNCHANGED <<home, page, route, heading, detailState, instanceLoad, detailLoad,
                         commands, opened, reopened>>
      BY <1>4, PageTuples DEF Records!ListFails
    <2>2. LoadsFit' BY <2>1 DEF LoadsFit, Named
    <2>3. StatesEnd' BY <2>1 DEF StatesEnd
    <2>4. ShowsNamed' BY <2>1, TraitsKept DEF ShowsNamed, Named
    <2>5. Selects' BY <2>1 DEF Selects
    <2>6. OpensLink' BY <2>1 DEF OpensLink, LinkHolds
    <2> QED BY <2>2, <2>3, <2>4, <2>5, <2>6
  <1>5. CASE Records!DetailEnds
    <2>1. /\ detailLoad # None /\ detailLoad' = None
          /\ detailState' \in {"success", "error"}
          /\ UNCHANGED <<home, page, route, heading, rows, listState, instanceLoad,
                         listLoad, commands, opened, reopened>>
      BY <1>5, PageTuples
         DEF Records!DetailEnds, Records!DetailAnswered, Records!DetailFails
    <2>2. Records!ReplacesItsRecord => detail' \in {detailLoad, None}
      BY <1>5 DEF Records!DetailEnds, Records!DetailAnswered, Records!DetailFails,
                  Records!ReplacesItsRecord
    <2>3. LoadsFit' BY <2>1 DEF LoadsFit, Named
    <2>4. StatesEnd' BY <2>1 DEF StatesEnd
    <2>5. ShowsNamed' BY <2>1, <2>2, TraitsKept DEF ShowsNamed, LoadsFit, Named
    <2>6. Selects' BY <2>1, SelectsKept
    <2>7. OpensLink' BY <2>1 DEF OpensLink, LinkHolds
    <2> QED BY <2>3, <2>4, <2>5, <2>6, <2>7
  <1> QED BY <1>1, <1>2, <1>3, <1>4, <1>5 DEF Records!ListEnds

-----------------------------------------------------------------------------
(* Commands and persons.                                                   *)

LEMMA CommandAnswerKeeps ==
  ASSUME RecordTyped, PageInv, NEW command \in commands,
         NEW answer \in 0 .. RecordCount, Records!CommandAnswered(command, answer)
  PROVE  PageInv'
  <1> USE DEF PageInv
  <1> DEFINE c == command.does
             list == {x \in Records!Records : home'[x] = command.inst
                        /\ (command.route.filter = "some" => x \notin hidden)}
             shows == IF "list" \in c.writes THEN list
                      ELSE IF "row" \in c.writes THEN rows \cup {answer} ELSE rows
             record_ == IF "detail" \in c.writes
                        THEN [inst |-> command.inst, rec |-> answer] ELSE detail
             goal == Records!Goal(command, list, answer)
  <1>1. /\ Records!Run(route, c.refreshes, c.writes, shows, record_, goal)
        /\ UNCHANGED <<page, opened, reopened>>
    BY PageTuples DEF Records!CommandAnswered
  <1>2. c \in page.commands /\ route \in Records!Routes
    BY DEF RecordTyped, CommandTyped, AddressTyped
  <1> HIDE DEF list
  <1>3. Records!ReplacesItsRecord => record_ = detail
    BY <1>2 DEF Records!ReplacesItsRecord
  <1>4. ASSUME Records!KeepsItsSelection, ~c.refreshes
        PROVE  shows = rows /\ goal = heading /\ "list" \notin c.writes
    <2>1. "list" \notin c.writes BY <1>2, <1>4 DEF Records!KeepsItsSelection
    <2>2. ~c.selects /\ "row" \notin c.writes
      BY <1>2, <1>4, KeepingPages DEF RecordTyped
    <2> QED BY <2>1, <2>2 DEF Records!Goal
  <1> HIDE DEF c, shows, record_, goal
  <1>5. LoadsFit' /\ StatesEnd' BY <1>1, <1>2, RunFits
  <1>6. ShowsNamed' BY <1>1, <1>2, <1>3, RunShows
  <1>7. Selects'
    <2>1. route' = route /\ Records!RunList(route, c.refreshes, c.writes, shows)
          /\ Records!RunSelection(route, goal)
      BY <1>1 DEF Records!Run
    <2> SUFFICES ASSUME Records!KeepsItsSelection, route.inst # 0, listLoad' = None
                 PROVE  Selects'
      BY <2>1, <1>1, TraitsKept DEF Selects
    <2>2. CASE c.refreshes
      <3>1. Records!ListReloads(route, c.refreshes) BY <2>2 DEF Records!ListReloads
      <3> QED BY <1>2, <2>1, <3>1, NoneIsElse DEF Records!RunList
    <2>3. CASE ~c.refreshes
      <3>1. shows = rows /\ goal = heading /\ "list" \notin c.writes BY <1>4, <2>3
      <3>2. rows' = rows /\ UNCHANGED <<listLoad, listState>>
        BY <1>2, <2>1, <3>1, NotReloaded
      <3>3. page.selects \in {"answer", "loaded"} BY KeepingPages DEF RecordTyped
      <3>4. heading' = heading BY <2>1, <3>1, <3>2, <3>3 DEF Records!RunSelection
      <3> QED BY <1>1, <2>1, <3>2, <3>4, SelectsKept
    <2> QED BY <2>2, <2>3
  <1>8. OpensLink'
    <2>1. opened = None BY DEF OpensLink
    <2> QED BY <1>1, <2>1 DEF OpensLink, LinkHolds
  <1> QED BY <1>5, <1>6, <1>7, <1>8

LEMMA CommandEndsKeep ==
  ASSUME RecordTyped, PageInv, Records!CommandEnds
  PROVE  PageInv'
  <1>1. ASSUME NEW command \in commands, Records!CommandFails(command)
        PROVE  PageInv'
    <2>1. UNCHANGED <<home, page, route, heading, rows, detail, listState, detailState,
                    instanceLoad, listLoad, detailLoad, opened, reopened>>
      BY <1>1, PageTuples DEF Records!CommandFails
    <2>2. OpensLink'
      <3>1. opened = None BY DEF PageInv, OpensLink
      <3> QED BY <2>1, <3>1 DEF OpensLink, LinkHolds
    <2> QED BY <2>1, <2>2, LoadsKept, StatesKept, ShownKept, SelectsKept DEF PageInv
  <1> QED BY <1>1, CommandAnswerKeeps DEF Records!CommandEnds

LEMMA PersonsKeep ==
  ASSUME RecordTyped, PageInv, Records!Person
  PROVE  PageInv'
  <1>1. /\ opened' = None
        /\ UNCHANGED <<page, route, rows, detail, listState, detailState, instanceLoad,
                       listLoad, detailLoad>>
        /\ \/ UNCHANGED <<heading, reopened>>
           \/ \E r \in Records!Routes : heading' = r /\ reopened' = (reopened \/ r = route)
    BY PersonActs, PageTuples DEF RecordTyped, Records!RunCommand, Records!OthersChange,
                                  Records!Navigate, Records!Act
  <1>2. Selects'
    <2>1. CASE UNCHANGED <<heading, reopened>>
      BY <1>1, <2>1, SelectsKept DEF PageInv
    <2>2. ASSUME NEW r \in Records!Routes, heading' = r,
                 reopened' = (reopened \/ r = route)
          PROVE  Selects'
      <3>1. reopened' \/ OnItsWay'
        BY <1>1, <2>2, NoneIsElse DEF OnItsWay
      <3> QED BY <3>1 DEF Selects
    <2> QED BY <1>1, <2>1, <2>2
  <1>3. OpensLink' BY <1>1 DEF OpensLink, LinkHolds
  <1> QED BY <1>1, <1>2, <1>3, LoadsKept, StatesKept, ShownKept DEF PageInv

LEMMA RecordNext ==
  ASSUME RecordTyped, PageInv, Records!Next
  PROVE  PageInv'
  BY AnswersKeep, CommandEndsKeep, PersonsKeep DEF Records!Next

LEMMA InitRecord ==
  ASSUME Records!Init
  PROVE  RecordTyped /\ ActsTyped /\ PageInv
  <1>1. route \in Records!Routes /\ route.filter = "all" BY DEF Records!Init
  <1>2. route.inst # 0 /\ route.rec # 0 =>
          [inst |-> route.inst, rec |-> route.rec] \in Records!Details
    BY <1>1, Numbers DEF Records!Details, Records!Routes
  <1>3. [route EXCEPT !.rec = 0] \in Records!Routes
    BY <1>1, Numbers DEF Records!Routes
  <1>4. PageTyped /\ RowsTyped BY DEF Records!Init, PageTyped, RowsTyped
  <1>5. AddressTyped BY <1>1, <1>3 DEF Records!Init, AddressTyped
  <1>6. ShownTyped BY DEF Records!Init, ShownTyped, Records!States
  <1>7. LoadsTyped BY <1>1, <1>2 DEF Records!Init, LoadsTyped
  <1>8. CommandTyped BY DEF Records!Init, CommandTyped
  <1>9. HistoryTyped BY <1>1 DEF Records!Init, HistoryTyped
  <1>10. ActsTyped BY PagesAssumption, LimitsAssumption DEF Records!Init, ActsTyped
  <1>11. LoadsFit BY DEF Records!Init, LoadsFit, Named
  <1>12. StatesEnd BY <1>1, NoneIsElse DEF Records!Init, StatesEnd
  <1>13. ShowsNamed /\ Selects BY DEF Records!Init, ShowsNamed, Selects
  <1>14. OpensLink BY <1>1 DEF Records!Init, OpensLink, LinkHolds
  <1> QED BY <1>4, <1>5, <1>6, <1>7, <1>8, <1>9, <1>10, <1>11, <1>12, <1>13, <1>14
          DEF RecordTyped, PageInv

-----------------------------------------------------------------------------
(* The tab: its session throughout, and its page while it shows one.       *)

PageKept == surface = "page" => RecordTyped /\ ActsTyped /\ PageInv

TabInv == SessionTyped /\ PageKept

LEMMA InitTab == TabInit => TabInv
  BY InitTyped, InitRecord DEF TabInit, TabInv, PageKept

LEMMA NextTab == TabInv /\ [TabNext]_tab => TabInv'
  <1> SUFFICES ASSUME TabInv, [TabNext]_tab PROVE TabInv'
    OBVIOUS
  <1> USE DEF TabInv
  <1>1. CASE surface = "session" /\ Next /\ UNCHANGED <<surface, record>>
    <2>1. SessionTyped' BY <1>1, NextTyped
    <2>2. PageKept' BY <1>1 DEF PageKept
    <2> QED BY <2>1, <2>2
  <1>2. CASE surface = "page" /\ Records!Next /\ UNCHANGED <<surface, session>>
    <2>1. RecordTyped' /\ ActsTyped' /\ PageInv'
      BY <1>2, RecordNextTyped, RecordNext DEF PageKept
    <2>2. acts' \in 0 .. ActLimit
      BY <2>1, PagesAssumption, LimitsAssumption DEF ActsTyped
    <2>3. TabTyped' BY <1>2, <2>2 DEF session, SessionTyped, TabTyped
    <2>4. SessionTyped'
      BY <1>2, <2>3, TypedKept DEF session, server, SessionTyped
    <2> QED BY <2>1, <2>4 DEF PageKept
  <1>3. CASE UNCHANGED tab
    <2>1. UNCHANGED vars /\ UNCHANGED record /\ UNCHANGED <<surface, acts>>
      BY <1>3 DEF tab, session, vars
    <2>2. SessionTyped' BY <2>1, NextTyped
    <2>3. RecordTyped => RecordTyped'
      BY <2>1, RecordTypedKept DEF RecordTyped, record
    <2>4. ActsTyped => ActsTyped' BY <2>1 DEF ActsTyped
    <2>5. PageInv => PageInv'
      <3>1. OpensLink => OpensLink' BY <2>1 DEF record, OpensLink, LinkHolds
      <3> QED BY <2>1, <3>1, LoadsKept, StatesKept, ShownKept, SelectsKept
              DEF PageInv, record
    <2>6. PageKept' BY <2>1, <2>3, <2>4, <2>5 DEF PageKept
    <2> QED BY <2>2, <2>6
  <1> QED BY <1>1, <1>2, <1>3 DEF TabNext

LEMMA TabKeeps == TabSpec => []TabInv
  BY InitTab, NextTab, PTL DEF TabSpec

(* Session and page keep to their types, whatever overtakes what.          *)
THEOREM TabTypeCorrect == TabSpec => []TabTypeOK
  <1>1. TabInv => TabTypeOK
    BY TypedSession, TypedRecord DEF TabInv, PageKept, TabTypeOK
  <1> QED BY <1>1, TabKeeps, PTL

(* At rest a page shows the record its address names, whatever was clicked *)
(* and answered on the way (the effects of the pages and their clean-up).  *)
THEOREM PagesShowTheSelected == TabSpec => []ShowsWhatIsSelected
  <1>1. TabInv => ShowsWhatIsSelected
    BY DEF TabInv, PageKept, PageInv, ShowsNamed, Named, ShowsWhatIsSelected,
           Records!ShowsWhatIsSelected, Records!AtRest
  <1> QED BY <1>1, TabKeeps, PTL

(* At rest nothing is shown as loading, on the pages that end the state of *)
(* a load they give up.                                                    *)
THEOREM LoadingEnds == TabSpec => []NoEndlessLoading
  <1>1. TabInv => NoEndlessLoading
    BY DEF TabInv, PageKept, PageInv, StatesEnd, NoEndlessLoading,
           Records!NoEndlessLoading, Records!AtRest
  <1> QED BY <1>1, TabKeeps, PTL

(* At rest the selection is in the list, and empty only for an empty list, *)
(* on the pages whose list comes from its load and moves the selection.    *)
THEOREM SelectionsAreListed == TabSpec => []SelectionIsListed
  <1>1. TabInv => SelectionIsListed
    <2> SUFFICES ASSUME TabInv, surface = "page", Records!AtRest,
                        Records!KeepsItsSelection, ~reopened, route.inst # 0,
                        listState = "success"
                 PROVE  IF rows = {} THEN route.rec = 0 ELSE route.rec \in rows
      BY DEF SelectionIsListed, Records!SelectionIsListed
    <2>1. Records!Selection(rows, route.rec) = route.rec
      BY DEF TabInv, PageKept, PageInv, Selects, OnItsWay, Records!AtRest
    <2>2. rows \in SUBSET Nat /\ route.rec \in Nat
      <3>1. rows \subseteq Records!Records /\ route.rec \in 0 .. RecordCount
        BY DEF TabInv, PageKept, RecordTyped, ShownTyped, AddressTyped, Records!Routes
      <3> QED BY <3>1, Numbers, PagesAssumption
    <2> QED BY <2>1, <2>2, SelectionOf
  <1> QED BY <1>1, TabKeeps, PTL

(* A link to a record that exists opens it, on the pages whose selection   *)
(* waits for the list: left alone, the page comes to rest at the address   *)
(* it was opened with.                                                     *)
THEOREM LinksAreFollowed == TabSpec => []LinksOpenTheirRecord
  <1>1. TabInv => LinksOpenTheirRecord
    BY DEF TabInv, PageKept, PageInv, OpensLink, LinkHolds, LinksOpenTheirRecord,
           Records!LinksOpenTheirRecord
  <1> QED BY <1>1, TabKeeps, PTL
=============================================================================
