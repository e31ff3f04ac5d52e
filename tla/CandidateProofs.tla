-------------------------- MODULE CandidateProofs --------------------------
(***************************************************************************)
(* What the candidate lists promise, for any number of text services,      *)
(* lists and connections, any size of lists, pages and columns, and every  *)
(* use of them.                                                            *)
(***************************************************************************)
EXTENDS CandidateProperties, WellFoundedInduction, FiniteSetTheorems, TLAPS

-----------------------------------------------------------------------------
(***************************************************************************)
(* Induction on numbers, in the form of the least element of a set.        *)
(***************************************************************************)
\* A set of numbers that is not empty has a least one.
LEMMA LeastNumber ==
  ASSUME NEW T, T \subseteq Nat, T # {}
  PROVE  \E x \in T : \A y \in T : x <= y
<1>1. IsWellFoundedOn(OpToRel(<, Nat), Nat) BY NatLessThanWellFounded
<1>2. PICK x \in T : \A y \in T : ~(<<y, x>> \in OpToRel(<, Nat)) BY <1>1, WFMin
<1>3. \A y \in T : ~(y < x) BY <1>2 DEF OpToRel
<1> QED BY <1>3

\* Induction over a set of numbers: it has all of them up to n if it has 0 and
\* with each number the next.
LEMMA UpTo ==
  ASSUME NEW n \in Nat, NEW Good, 0 \in Good,
         \A i \in 0..n : i \in Good /\ i # n => i + 1 \in Good
  PROVE  \A i \in 0..n : i \in Good
<1> DEFINE Bad == {i \in Nat : i <= n /\ i \notin Good}
<1> SUFFICES ASSUME Bad # {} PROVE FALSE
  OBVIOUS
<1>1. Bad \subseteq Nat OBVIOUS
<1>2. PICK x \in Bad : \A y \in Bad : x <= y
  <2> HIDE DEF Bad
  <2> QED BY <1>1, LeastNumber
<1>3. x \in 0..n /\ x \notin Good /\ x # 0 BY <1>2
<1>4. x - 1 \in 0..n /\ x - 1 # n /\ x - 1 + 1 = x BY <1>3
<1>5. x - 1 \in Good BY <1>2, <1>4
<1> QED BY <1>3, <1>4, <1>5

\* f begins with start and goes on with step.
Follows(f, V, start, n, step) ==
  f \in [0..n -> V] /\ f[0] = start /\ \A i \in 1..n : f[i] = step[i][f[i - 1]]

\* A value and a step from each value to the next define a function.
LEMMA Recursion ==
  ASSUME NEW V, NEW start \in V, NEW n \in Nat,
         NEW step, step \in [1..n -> [V -> V]]
  PROVE  \E f : Follows(f, V, start, n, step)
<1> DEFINE Good == {m \in 0..n : \E f : Follows(f, V, start, m, step)}
<1>1. 0 \in Good
  <2> DEFINE f == [i \in 0..0 |-> start]
  <2>1. Follows(f, V, start, 0, step) /\ 0 \in 0..n BY DEF Follows
  <2> HIDE DEF f
  <2> QED BY <2>1
<1>2. ASSUME NEW m \in 0..n, m \in Good, m # n PROVE m + 1 \in Good
  <2>1. PICK f : Follows(f, V, start, m, step)
    BY <1>2
  <2> DEFINE g == [i \in 0..(m + 1) |-> IF i = m + 1 THEN step[m + 1][f[m]] ELSE f[i]]
  <2>2. m + 1 \in 1..n /\ m + 1 \in 0..n BY <1>2
  <2>3. step[m + 1][f[m]] \in V BY <2>1, <2>2 DEF Follows
  <2>4. g \in [0..(m + 1) -> V] BY <2>1, <2>3 DEF Follows
  <2>5. g[0] = start BY <2>1 DEF Follows
  <2>6. ASSUME NEW i \in 1..(m + 1) PROVE g[i] = step[i][g[i - 1]]
    BY <2>1 DEF Follows
  <2>7. Follows(g, V, start, m + 1, step) BY <2>4, <2>5, <2>6 DEF Follows
  <2> HIDE DEF g
  <2> QED BY <2>2, <2>7
<1>3. \A i \in 0..n : i \in Good
  <2> HIDE DEF Good
  <2> QED BY <1>1, <1>2, UpTo
<1>4. n \in Good BY <1>3
<1> QED BY <1>4

-----------------------------------------------------------------------------
(***************************************************************************)
(* The invariant                                                           *)
(***************************************************************************)
\* What is written to a pipe: presentations the service takes, and the command
\* that hides them.
Presentations ==
  {p \in [do : {"present"}, list : Nat, begin : Nat, size : Nat, selection : Nat,
          columns : Nat, number : Nat] : ValidPresentation(p)}
Command    == Presentations \union {HideCommand}
Connection == [of : Clients, commands : Seq(Command), open : BOOLEAN]
Services   ==
  [up : BOOLEAN, connections : UNION {[D -> Connection] : D \in SUBSET (1..MaxConnections)},
   active : Nat, next : Nat]

\* The selection is on the current page.
Placed(e) == e.selection < e.size /\ HasPage(e, e.page) /\ e.selection \div PageSize = e.page

\* A list that may be shown has candidates and a place.
ElementOK(e) ==
  /\ e \in ElementType
  /\ e.size > 0 => Placed(e)
  /\ e.shown => e.placed /\ e.size > 0
ClientOK(s) ==
  /\ s \in ClientType
  /\ ElementOK(s.element)
  /\ s.begun => s.element.placed /\ s.element.size > 0
  /\ s.tested.action = "shiftDown" => s.tested.key = "shift"
  /\ s.tested \in {Untested} \union [key : AllKeys, repeated : BOOLEAN, action : Actions]

ClientsOK == client \in [Clients -> ClientType] /\ \A c \in Clients : ClientOK(client[c])
\* Connections have numbers of their own; the active one is there.
ServiceFits(s) ==
  /\ s \in Services
  /\ s.next \in 1..(MaxConnections + 1)
  /\ \A id \in DOMAIN s.connections : id < s.next
  /\ s.active \in {NoPipe} \union DOMAIN s.connections
ServiceOK == ServiceFits(service)
UiOK ==
  /\ ui = [pending |-> ui.pending, messages |-> ui.messages, window |-> ui.window]
  /\ ui.messages \in Seq({"present", "hide"})
  /\ ui.pending \in Seq([of : Clients, shows : Presentations]) /\ Len(ui.pending) <= 1

\* A connection is open as long as its text service writes to it, and what was
\* written last tells of the element as it is.
Telling(e) == {HideCommand} \union (IF e.shown THEN {Present(e)} ELSE {})
Linked(s, c, pipe) ==
  /\ pipe < s.next
  /\ pipe \in DOMAIN s.connections => s.connections[pipe].of = c /\ s.connections[pipe].open
  /\ \A id \in DOMAIN s.connections :
       s.connections[id].of = c /\ id # pipe => ~s.connections[id].open
Told(s, pipe, e) ==
  pipe \in DOMAIN s.connections /\ s.connections[pipe].commands # <<>> =>
    Last(s.connections[pipe].commands) \in Telling(e)
LinksOK ==
  \A c \in Clients : /\ Linked(service, c, client[c].pipe)
                     /\ Told(service, client[c].pipe, client[c].element)

\* What a message will show or hide.
WillShow == \E i \in DOMAIN ui.messages : ui.messages[i] = "present"
WillHide == \E i \in DOMAIN ui.messages : ui.messages[i] = "hide"
Shown(c) == [of |-> c, shows |-> Present(client[c].element)]
SlotOK ==
  /\ ui.pending # <<>> => WillShow
  /\ service.active = NoPipe => ui.pending = <<>> /\ (ui.window.visible => WillHide)

\* The list of c was presented last, and all that c wrote was read: then its list
\* is in the slot or on the screen, unless it will be hidden.
Caught(c) ==
  /\ client[c].pipe \in DOMAIN service.connections /\ service.active = client[c].pipe
  /\ service.connections[client[c].pipe].commands = <<>>
SeenOK ==
  \A c \in Clients : Caught(c) =>
    /\ ui.pending # <<>> => client[c].element.shown /\ ui.pending[1] = Shown(c)
    /\ ui.pending = <<>> /\ ui.window.visible /\ ~WillHide =>
         client[c].element.shown /\ ui.window = Windowed(Shown(c))

\* Where the host does not show a list it kept to itself.
Strict == "show" \notin calls.among
LockOK ==
  /\ calls \in Use
  /\ Strict => \A c \in Clients : client[c].element.shown =>
       client[c].composing /\ client[c].locked /\ client[c].tested.action # "escape"

CandidateInv == ClientsOK /\ ServiceOK /\ UiOK /\ LinksOK /\ SlotOK /\ SeenOK /\ LockOK

-----------------------------------------------------------------------------
(***************************************************************************)
(* Pages                                                                   *)
(***************************************************************************)
LEMMA MinOfTwo ==
  ASSUME NEW a \in Int, NEW b \in Int
  PROVE  Min({a, b}) = IF a <= b THEN a ELSE b
BY DEF Min

LEMMA MaxOfTwo ==
  ASSUME NEW a \in Int, NEW b \in Int
  PROVE  Max({a, b}) = IF a >= b THEN a ELSE b
BY DEF Max

\* Sizes are positive numbers.
LEMMA Sizes == PageSize \in Nat /\ PageSize > 0 /\ Columns \in Nat /\ Columns > 0
  BY SizesAssumption

\* Where pages begin.
LEMMA BeginIs ==
  ASSUME NEW p \in Int
  PROVE  PageBegin(p) \in Int /\ PageBegin(p + 1) = PageBegin(p) + PageSize
BY Sizes DEF PageBegin

\* Pages begin in order.
LEMMA BeginGrows ==
  ASSUME NEW p \in Int, NEW q \in Int, p <= q
  PROVE  PageBegin(p) <= PageBegin(q)
BY Sizes DEF PageBegin

LEMMA BeginIsPositive ==
  ASSUME NEW p \in Nat
  PROVE  PageBegin(p) \in Nat
BY Sizes DEF PageBegin

LEMMA BeginMinus ==
  ASSUME NEW p \in Int, NEW q \in Int
  PROVE  PageBegin(p - q) = PageBegin(p) - PageBegin(q)
BY Sizes DEF PageBegin

\* Two numbers less than a page apart are on one page.
LEMMA OnePage ==
  ASSUME NEW p \in Int, NEW q \in Int, NEW n \in Int,
         PageBegin(p) <= n, n < PageBegin(p + 1), PageBegin(q) <= n, n < PageBegin(q + 1)
  PROVE  p = q
<1>0. /\ PageBegin(p) \in Int /\ PageBegin(p + 1) \in Int
      /\ PageBegin(q) \in Int /\ PageBegin(q + 1) \in Int
  BY BeginIs
<1>1. CASE p < q
  BY <1>1, BeginGrows, <1>0
<1>2. CASE q < p
  BY <1>2, BeginGrows, <1>0
<1> QED BY <1>1, <1>2

\* The page of a candidate.
LEMMA PageOf ==
  ASSUME NEW n \in Nat, NEW p \in Int
  PROVE  /\ n \div PageSize \in Nat
         /\ n \div PageSize = p <=> PageBegin(p) <= n /\ n < PageBegin(p) + PageSize
         /\ n % PageSize \in 0..(PageSize - 1)
<1> DEFINE d == n \div PageSize
           r == n % PageSize
<1>1. d \in Int /\ r \in 0..(PageSize - 1) /\ n = PageSize * d + r
  BY Sizes
<1> HIDE DEF d, r
<1>2. PageBegin(d) <= n /\ n < PageBegin(d) + PageSize
  BY <1>1, Sizes DEF PageBegin
<1>3. d >= 0
  <2> SUFFICES ASSUME d + 1 <= 0 PROVE FALSE
    BY <1>1
  <2>1. PageBegin(d + 1) <= PageBegin(0) /\ PageBegin(0) = 0
    BY <1>1, BeginGrows, Sizes DEF PageBegin
  <2>2. PageBegin(d + 1) = PageBegin(d) + PageSize /\ PageBegin(d) \in Int
    BY <1>1, BeginIs
  <2> QED BY <1>2, <2>1, <2>2, Sizes
<1>4. PageBegin(p) <= n /\ n < PageBegin(p) + PageSize => d = p
  BY <1>1, <1>2, OnePage, BeginIs
<1> QED BY <1>1, <1>2, <1>3, <1>4 DEF d, r

\* A page is there if its first candidate is.
LEMMA PageIsThere ==
  ASSUME NEW e, e.size \in Nat, NEW p \in Int
  PROVE  HasPage(e, p) <=> 0 <= p /\ PageBegin(p) < e.size
<1> DEFINE x == e.size + PageSize - 1
           n == PageCount(e)
<1>1. x \in Nat
  BY Sizes
<1>2. n \in Nat /\ PageBegin(n) <= x /\ x < PageBegin(n) + PageSize
  BY <1>1, PageOf DEF PageCount
<1> HIDE DEF n
<1>3. PageBegin(n) \in Int /\ PageBegin(p) \in Int /\ PageBegin(p + 1) = PageBegin(p) + PageSize
  BY <1>2, BeginIs
<1>4. CASE p < n
  BY <1>2, <1>4, BeginGrows, <1>3, Sizes DEF HasPage, n
<1>5. CASE p >= n
  BY <1>2, <1>5, BeginGrows, <1>3, Sizes DEF HasPage, n
<1> QED BY <1>2, <1>4, <1>5

\* Placed, said without a division.
LEMMA PlacedIs ==
  ASSUME NEW e, e.size \in Nat, e.selection \in Nat, e.page \in Nat
  PROVE  Placed(e) <=> /\ e.selection < e.size
                       /\ PageBegin(e.page) <= e.selection
                       /\ e.selection < PageBegin(e.page) + PageSize
<1>1. e.page \in Int /\ PageBegin(e.page) \in Int
  BY BeginIs
<1>2. HasPage(e, e.page) <=> PageBegin(e.page) < e.size
  BY <1>1, PageIsThere
<1>3. e.selection \div PageSize = e.page
        <=> PageBegin(e.page) <= e.selection /\ e.selection < PageBegin(e.page) + PageSize
  BY <1>1, PageOf
<1> QED BY <1>1, <1>2, <1>3 DEF Placed

\* The end of a page that is there.
LEMMA PageEnds ==
  ASSUME NEW e, e.size \in Nat, NEW p \in Int
  PROVE  PageEnd(e, p) = IF PageBegin(p) + PageSize <= e.size THEN PageBegin(p) + PageSize
                         ELSE e.size
<1>1. PageBegin(p + 1) = PageBegin(p) + PageSize /\ PageBegin(p) \in Int
  BY BeginIs
<1> QED BY <1>1, MinOfTwo, Sizes DEF PageEnd

-----------------------------------------------------------------------------
(***************************************************************************)
(* What the element becomes                                                *)
(***************************************************************************)
\* A list with candidates that keeps its selection on its page, and its place.
Listed(e) == ElementOK(e) /\ e.size > 0 /\ e.placed

\* The same list in the same place.
Same(e, f) == f.list = e.list /\ f.size = e.size /\ f.shown = e.shown /\ f.placed = e.placed

\* The keys and calls that move the selection keep it on the current page.
LEMMA SelectKeeps ==
  ASSUME NEW e, ElementOK(e), NEW index \in 0..(e.size - 1)
  PROVE  ElementOK(Select(e, index)) /\ Same(e, Select(e, index))
<1> DEFINE f == Select(e, index)
<1>1. e \in ElementType /\ e.size \in Nat
  BY DEF ElementOK, ElementType
<1>2. index \in Nat /\ index \div PageSize \in Nat
  BY <1>1, PageOf
<1>3. f \in ElementType /\ Same(e, f) /\ f.selection = index /\ f.page = index \div PageSize
  BY <1>1, <1>2 DEF Select, Same, ElementType
<1> HIDE DEF f
<1>4. PageBegin(f.page) <= index /\ index < PageBegin(f.page) + PageSize
  BY <1>2, <1>3, PageOf
<1>5. Placed(f)
  BY <1>1, <1>2, <1>3, <1>4, PlacedIs DEF Same
<1> QED BY <1>3, <1>5 DEF ElementOK, Same, f

LEMMA OnPageKeeps ==
  ASSUME NEW e, ElementOK(e), NEW p \in Int, HasPage(e, p)
  PROVE  ElementOK(OnPage(e, p)) /\ Same(e, OnPage(e, p))
<1> DEFINE f == OnPage(e, p)
           s == Min({PageBegin(p) + (e.selection % PageSize), e.size - 1})
<1>1. e \in ElementType /\ e.size \in Nat /\ e.selection \in Nat
  BY DEF ElementOK, ElementType
<1>2. p \in Nat /\ PageBegin(p) < e.size /\ PageBegin(p) \in Int /\ PageBegin(p) >= 0
  BY <1>1, PageIsThere, BeginIsPositive
<1>3. e.selection % PageSize \in 0..(PageSize - 1)
  BY <1>1, PageOf
<1>4. s \in Nat /\ s < e.size /\ PageBegin(p) <= s /\ s < PageBegin(p) + PageSize
  BY <1>1, <1>2, <1>3, MinOfTwo, Sizes
<1> HIDE DEF s
<1>5. f = [e EXCEPT !.page = p, !.selection = s]
  BY DEF OnPage, s
<1> HIDE DEF f
<1>6. f \in ElementType /\ Same(e, f) /\ f.selection = s /\ f.page = p
  BY <1>1, <1>2, <1>4, <1>5 DEF Same, ElementType
<1>7. Placed(f)
  BY <1>1, <1>2, <1>4, <1>6, PlacedIs DEF Same
<1> QED BY <1>6, <1>7 DEF ElementOK, Same, f

LEMMA StepKeeps ==
  ASSUME NEW e, ElementOK(e), e.size > 0, NEW f, f = SelectPrevious(e) \/ f = SelectNext(e)
  PROVE  ElementOK(f) /\ Same(e, f)
<1>1. e \in ElementType /\ e.size \in Nat /\ e.selection \in Nat /\ e.page \in Nat /\ Placed(e)
  BY DEF ElementOK, ElementType
<1>2. /\ e.selection < e.size /\ PageBegin(e.page) <= e.selection
      /\ e.selection < PageBegin(e.page) + PageSize
      /\ PageBegin(e.page) \in Int /\ PageBegin(e.page) >= 0
  BY <1>1, BeginIsPositive, PlacedIs
<1>3. PICK s : f = [e EXCEPT !.selection = s] /\ s \in Nat /\ s < e.size
               /\ PageBegin(e.page) <= s /\ s < PageBegin(e.page) + PageSize
  <2>1. CASE f = SelectPrevious(e)
    <3> DEFINE s == IF e.selection <= PageBegin(e.page) THEN PageEnd(e, e.page) - 1
                    ELSE e.selection - 1
    <3>1. s \in Nat /\ s < e.size /\ PageBegin(e.page) <= s /\ s < PageBegin(e.page) + PageSize
      BY <1>1, <1>2, PageEnds, Sizes
    <3>2. f = [e EXCEPT !.selection = s]
      BY <2>1 DEF SelectPrevious
    <3> QED BY <3>1, <3>2
  <2>2. CASE f = SelectNext(e)
    <3> DEFINE s == IF e.selection + 1 >= PageEnd(e, e.page) THEN PageBegin(e.page)
                    ELSE e.selection + 1
    <3>1. s \in Nat /\ s < e.size /\ PageBegin(e.page) <= s /\ s < PageBegin(e.page) + PageSize
      BY <1>1, <1>2, PageEnds, Sizes
    <3>2. f = [e EXCEPT !.selection = s]
      BY <2>2 DEF SelectNext
    <3> QED BY <3>1, <3>2
  <2> QED BY <2>1, <2>2
<1>4. f \in ElementType /\ Same(e, f) /\ f.selection = s /\ f.page = e.page
  BY <1>1, <1>3 DEF Same, ElementType
<1>5. Placed(f)
  BY <1>1, <1>3, <1>4, PlacedIs DEF Same
<1> QED BY <1>4, <1>5 DEF ElementOK, Same

LEMMA ExpandKeeps ==
  ASSUME NEW e, ElementOK(e), NEW wide \in BOOLEAN
  PROVE  ElementOK([e EXCEPT !.expanded = wide]) /\ Same(e, [e EXCEPT !.expanded = wide])
<1> DEFINE f == [e EXCEPT !.expanded = wide]
<1>1. e \in ElementType
  BY DEF ElementOK
<1>2. /\ f \in ElementType /\ Same(e, f) /\ f.selection = e.selection /\ f.page = e.page
      /\ f.size = e.size
  BY <1>1 DEF Same, ElementType
<1> HIDE DEF f
<1>3. Placed(e) => Placed(f)
  BY <1>2 DEF Placed, HasPage, PageCount
<1> QED BY <1>2, <1>3 DEF ElementOK, Same, f

LEMMA TurnKeeps ==
  ASSUME NEW e, ElementOK(e), e.size > 0, NEW key
  PROVE  ElementOK(Turn(e, key)) /\ Same(e, Turn(e, key))
<1>1. e.page \in Int /\ e.size \in Nat /\ e.expanded \in BOOLEAN
  BY DEF ElementOK, ElementType
<1> DEFINE t == Turn(e, key)
           Moved == \/ t = SelectPrevious(e) \/ t = SelectNext(e)
                    \/ t = Select(e, 0) \/ t = Select(e, e.size - 1)
                    \/ HasPage(e, e.page - 1) /\ t = OnPage(e, e.page - 1)
                    \/ HasPage(e, e.page + 1) /\ t = OnPage(e, e.page + 1)
                    \/ t = e \/ \E wide \in BOOLEAN : t = [e EXCEPT !.expanded = wide]
<1>2. Moved
  <2>1. CASE key \in {"up", "down"}
    BY <2>1 DEF Turn
  <2>2. CASE key = "left"
    <3>1. CASE e.expanded /\ e.page = 0
      <4>1. t = [e EXCEPT !.expanded = FALSE]
        BY <1>1, <2>2, <3>1, PageIsThere DEF Turn
      <4> HIDE DEF t
      <4> QED BY <4>1
    <3>2. CASE ~(e.expanded /\ e.page = 0)
      <4>1. t = IF HasPage(e, e.page - 1) THEN OnPage(e, e.page - 1) ELSE e
        BY <2>2, <3>2 DEF Turn
      <4> HIDE DEF t
      <4> QED BY <4>1
    <3> QED BY <3>1, <3>2
  <2>3. CASE key = "right"
    <3>1. CASE ~e.expanded
      <4>1. t = [e EXCEPT !.expanded = TRUE]
        BY <2>3, <3>1 DEF Turn
      <4> HIDE DEF t
      <4> QED BY <4>1
    <3>2. CASE e.expanded
      <4>1. t = IF HasPage(e, e.page + 1) THEN OnPage(e, e.page + 1) ELSE e
        BY <2>3, <3>2 DEF Turn
      <4> HIDE DEF t
      <4> QED BY <4>1
    <3> QED BY <3>1, <3>2
  <2>4. CASE key \in {"prior", "next"}
    BY <2>4 DEF Turn
  <2>5. CASE key \in {"home", "end"}
    BY <2>5 DEF Turn
  <2>6. CASE key = "tab"
    <3>1. t = [e EXCEPT !.expanded = ~@]
      BY <2>6 DEF Turn
    <3> HIDE DEF t
    <3>2. CASE e.expanded
      BY <3>1, <3>2
    <3>3. CASE ~e.expanded
      BY <3>1, <3>3
    <3> QED BY <3>2, <3>3
  <2>7. CASE key \notin {"up", "down", "left", "right", "prior", "next", "home", "end", "tab"}
    BY <2>7 DEF Turn
  <2> QED BY <2>1, <2>2, <2>3, <2>4, <2>5, <2>6, <2>7
<1>3. Same(e, e)
  BY DEF Same
<1>4. 0 \in 0..(e.size - 1) /\ e.size - 1 \in 0..(e.size - 1)
  BY <1>1
<1> HIDE DEF t
<1>5. e.page - 1 \in Int /\ e.page + 1 \in Int
  BY <1>1
<1> QED BY <1>2, <1>3, <1>4, <1>5, SelectKeeps, OnPageKeeps, StepKeeps, ExpandKeeps DEF t

-----------------------------------------------------------------------------
(***************************************************************************)
(* What the service is told                                                *)
(***************************************************************************)
\* The pages that are shown: the first one, and how many.
First(e) == IF e.expanded THEN (e.page \div Columns) * Columns ELSE e.page
Pages(e) == IF e.expanded THEN Min({Columns, PageCount(e) - First(e)}) ELSE 1

\* The pages shown side by side are pages of the list, and the current one is among them.
LEMMA PagesShown ==
  ASSUME NEW e, ElementOK(e), e.size > 0
  PROVE  /\ First(e) \in Nat /\ First(e) <= e.page /\ e.page < First(e) + Pages(e)
         /\ Pages(e) \in 1..Columns
         /\ \A p \in First(e)..(First(e) + Pages(e) - 1) : HasPage(e, p)
<1>1. e.page \in Nat /\ e.size \in Nat /\ HasPage(e, e.page)
  BY DEF ElementOK, ElementType, Placed
<1>2. PageCount(e) \in Nat /\ e.page < PageCount(e)
  BY <1>1, PageOf, Sizes DEF PageCount, HasPage
<1>3. CASE ~e.expanded
  BY <1>1, <1>3, Sizes DEF First, Pages
<1>4. CASE e.expanded
  <2> DEFINE d == e.page \div Columns
             n == PageCount(e)
  <2>1. d \in Nat /\ d * Columns \in Nat /\ d * Columns <= e.page /\ e.page < d * Columns + Columns
    <3> DEFINE r == e.page % Columns
    <3>1. d \in Int /\ r \in 0..(Columns - 1) /\ e.page = Columns * d + r
      BY <1>1, Sizes
    <3> HIDE DEF d, r
    <3>2. d >= 0
      <4> SUFFICES ASSUME d + 1 <= 0 PROVE FALSE
        BY <3>1
      <4>1. -(d + 1) \in Nat
        BY <3>1
      <4>2. Columns * (-(d + 1)) >= 0
        BY <4>1, Sizes
      <4>3. Columns * d = -(Columns * (-(d + 1))) - Columns
        BY <3>1, Sizes
      <4> QED BY <1>1, <3>1, <4>2, <4>3, Sizes
    <3>3. d * Columns \in Nat /\ d * Columns = Columns * d
      BY <3>1, <3>2, Sizes
    <3> QED
      <4> DEFINE x == d * Columns
      <4>1. x \in Nat /\ e.page = x + r /\ r \in Int /\ 0 <= r /\ r < Columns /\ d \in Nat
        BY <3>1, <3>2, <3>3, Sizes
      <4> HIDE DEF x
      <4>2. x <= e.page /\ e.page < x + Columns
        BY <4>1, Sizes
      <4> QED BY <4>1, <4>2 DEF x
  <2> HIDE DEF d, n
  <2>2. First(e) = d * Columns /\ Pages(e) = Min({Columns, n - First(e)})
    BY <1>4 DEF First, Pages, d, n
  <2>3. n \in Nat /\ e.page < n /\ \A p \in Int : HasPage(e, p) <=> 0 <= p /\ p < n
    BY <1>2 DEF n, HasPage
  <2>4. Pages(e) = IF Columns <= n - First(e) THEN Columns ELSE n - First(e)
    BY <2>1, <2>2, <2>3, MinOfTwo, Sizes
  <2>5. /\ First(e) \in Nat /\ First(e) <= e.page /\ e.page < First(e) + Pages(e)
        /\ Pages(e) \in 1..Columns /\ First(e) + Pages(e) <= n
    BY <1>1, <2>1, <2>2, <2>3, <2>4, Sizes
  <2> QED BY <2>3, <2>5
<1> QED BY <1>3, <1>4

\* A presentation is what the service takes; it holds the selection, and its
\* numbered column is the current page.
LEMMA Presented ==
  ASSUME NEW e, ElementOK(e), e.size > 0
  PROVE  /\ Present(e) \in Presentations
         /\ Present(e).list = e.list
         /\ Present(e).begin + Present(e).selection = e.selection
         /\ Present(e).begin + PageBegin(Present(e).number) = PageBegin(e.page)
         /\ Present(e).begin + Present(e).size <= e.size
         /\ \A k \in 0..(PageSize - 1) :
              PageBegin(e.page) + k < e.size => PageBegin(e.page) + k < Present(e).begin + Present(e).size
<1> DEFINE a == First(e)
           m == Pages(e)
           z == a + m - 1
           place == Max({0, Min({e.selection - PageBegin(e.page),
                                 PageEnd(e, e.page) - PageBegin(e.page) - 1})})
           p == [do |-> "present", list |-> e.list, begin |-> PageBegin(a),
                 size |-> PageEnd(e, z) - PageBegin(a),
                 selection |-> PageBegin(e.page - a) + place, columns |-> m, number |-> e.page - a]
<1>1. Present(e) = p
  BY DEF Present, First, Pages
<1>2. /\ e.page \in Nat /\ e.size \in Nat /\ e.list \in Nat /\ e.selection \in Nat /\ Placed(e)
  BY DEF ElementOK, ElementType
<1>3. /\ a \in Nat /\ a <= e.page /\ e.page < a + m /\ m \in 1..Columns
      /\ \A q \in a..z : HasPage(e, q)
  BY PagesShown
<1> HIDE DEF a, m
<1>4. e.selection < e.size /\ PageBegin(e.page) <= e.selection
      /\ e.selection < PageBegin(e.page) + PageSize /\ e.page \in Int
  BY <1>2, PlacedIs
<1>5. /\ PageBegin(a) \in Nat /\ PageBegin(e.page) \in Nat
      /\ PageBegin(e.page - a) = PageBegin(e.page) - PageBegin(a)
      /\ PageBegin(a) <= PageBegin(e.page)
  <2>1. a \in Int /\ e.page \in Int
    BY <1>2, <1>3
  <2>2. PageBegin(a) \in Nat /\ PageBegin(e.page) \in Nat
    BY <1>2, <1>3, BeginIsPositive
  <2>3. PageBegin(e.page - a) = PageBegin(e.page) - PageBegin(a)
    BY <2>1, BeginMinus
  <2>4. PageBegin(a) <= PageBegin(e.page)
    BY <2>1, <1>3, BeginGrows
  <2> QED BY <2>2, <2>3, <2>4
<1>6. place = e.selection - PageBegin(e.page)
  <2>1. PageEnd(e, e.page) = IF PageBegin(e.page) + PageSize <= e.size
                             THEN PageBegin(e.page) + PageSize ELSE e.size
    BY <1>2, <1>4, PageEnds
  <2>2. PageEnd(e, e.page) \in Int /\ e.selection <= PageEnd(e, e.page) - 1
    BY <1>2, <1>4, <1>5, <2>1, Sizes
  <2>3. Min({e.selection - PageBegin(e.page), PageEnd(e, e.page) - PageBegin(e.page) - 1})
          = e.selection - PageBegin(e.page)
    BY <1>2, <1>5, <2>2, MinOfTwo
  <2>4. PICK x \in Int : x = e.selection - PageBegin(e.page)
    BY <1>2, <1>5
  <2>5. x >= 0
    BY <1>2, <1>4, <1>5, <2>4
  <2>6. Max({0, x}) = x
    BY <2>5, MaxOfTwo
  <2> QED BY <2>3, <2>4, <2>6
<1> HIDE DEF place
<1>7. z \in Nat /\ z \in a..z /\ e.page <= z /\ PageBegin(z) \in Nat /\ PageBegin(e.page) <= PageBegin(z)
      /\ PageBegin(z) < e.size
  <2>1. z \in Nat /\ z \in a..z /\ e.page <= z
    BY <1>2, <1>3
  <2>2. HasPage(e, z)
    BY <1>3, <2>1
  <2> HIDE DEF z
  <2> QED BY <1>2, <1>4, <2>1, <2>2, PageIsThere, BeginIsPositive, BeginGrows
<1>8. PageBegin(z) - PageBegin(a) = PageBegin(m - 1)
  <2>1. z \in Int /\ a \in Int /\ z - a = m - 1
    BY <1>3
  <2> HIDE DEF z
  <2> QED BY <2>1, BeginMinus
<1>9. PageBegin(m - 1) + PageSize = m * PageSize
  BY <1>3, Sizes DEF PageBegin
<1>10. m * PageSize <= Columns * PageSize /\ m * PageSize \in Nat
  BY <1>3, Sizes, BeginGrows DEF PageBegin
<1>11. PageEnd(e, z) = IF PageBegin(z) + PageSize <= e.size THEN PageBegin(z) + PageSize ELSE e.size
  <2> HIDE DEF z
  <2> QED BY <1>2, <1>7, PageEnds
<1> HIDE DEF z
<1>12. /\ PageEnd(e, z) \in Nat /\ PageEnd(e, z) > PageBegin(z) /\ PageEnd(e, z) <= e.size
       /\ PageEnd(e, z) - PageBegin(a) <= m * PageSize
       /\ e.selection < PageEnd(e, z)
  BY <1>2, <1>4, <1>5, <1>7, <1>8, <1>9, <1>10, <1>11, Sizes
<1>13. Columns * PageSize \in Nat
  BY Sizes
<1>14. /\ p.size \in 1..(Columns * PageSize) /\ p.columns \in 1..Columns
       /\ p.number < p.columns /\ p.selection < p.size /\ p.size <= p.columns * PageSize
       /\ p.number \in Nat /\ p.selection \in Nat /\ p.begin \in Nat /\ p.columns \in Nat
  BY <1>2, <1>3, <1>4, <1>5, <1>6, <1>7, <1>10, <1>12, <1>13, Sizes
<1>15. p \in Presentations
  BY <1>2, <1>14 DEF Presentations, ValidPresentation
<1>16. \A k \in 0..(PageSize - 1) :
         PageBegin(e.page) + k < e.size => PageBegin(e.page) + k < p.begin + p.size
  BY <1>2, <1>5, <1>7, <1>11, <1>12, Sizes
<1>17. p.begin + p.selection = e.selection /\ p.begin + p.size <= e.size
  BY <1>2, <1>5, <1>6, <1>12
<1>18. p.begin + PageBegin(p.number) = PageBegin(e.page)
  BY <1>5
<1> QED BY <1>1, <1>15, <1>16, <1>17, <1>18

\* The window takes a presentation as it is.
LEMMA WindowedIs ==
  ASSUME NEW p, p.shows \in Presentations
  PROVE  Windowed(p) = [visible |-> TRUE, of |-> p.of, list |-> p.shows.list,
                        begin |-> p.shows.begin, size |-> p.shows.size,
                        columns |-> p.shows.columns, number |-> p.shows.number,
                        selection |-> p.shows.selection]
<1> DEFINE q == p.shows
<1>1. /\ q.size \in 1..(Columns * PageSize) /\ q.columns \in 1..Columns
      /\ q.number < q.columns /\ q.selection < q.size
      /\ q.number \in Nat /\ q.selection \in Nat
  BY DEF Presentations, ValidPresentation
<1>2. Columns * PageSize \in Nat
  BY Sizes
<1>3. Min({q.columns, Columns}) = q.columns
  BY <1>1, MinOfTwo, Sizes
<1>4. Max({1, Min({q.columns, Columns})}) = q.columns
  BY <1>1, <1>3, MaxOfTwo, Sizes
<1>5. Min({q.size, Columns * PageSize}) = q.size
  BY <1>1, <1>2, MinOfTwo
<1>6. Min({q.number, q.columns - 1}) = q.number
  BY <1>1, MinOfTwo, Sizes
<1>7. Min({q.selection, q.size - 1}) = q.selection
  BY <1>1, <1>2, MinOfTwo
<1> HIDE DEF q
<1> QED BY <1>4, <1>5, <1>6, <1>7 DEF Windowed, q

-----------------------------------------------------------------------------
(***************************************************************************)
(* What a call makes of a text service                                     *)
(***************************************************************************)
Outcomes == {"shown", "declined", "failed", "unanchored"}

\* An open list is locked.
Locked(s) == s.element.shown => s.composing /\ s.locked /\ s.tested.action # "escape"

\* A text service as it was before the call, and its state after: the last thing
\* it sends tells of its element, and if it sends nothing there is nothing new to
\* tell.  What is kept between keys is as it was.
Handled(st, was, strict) ==
  /\ st = [client |-> st.client, sends |-> st.sends]
  /\ ClientOK(st.client)
  /\ st.client.keys = was.keys /\ st.client.mode = was.mode /\ st.client.tested = was.tested
  /\ st.sends \in Seq(Command)
  /\ st.sends = <<>> => st.client.element = was.element \/ ~was.element.shown
  /\ st.sends # <<>> => Last(st.sends) \in Telling(st.client.element)
  /\ strict => Locked(st.client)

\* Before its first command a call has promised nothing.
LEMMA NothingYet ==
  ASSUME NEW s, ClientOK(s), NEW strict \in BOOLEAN, strict => Locked(s)
  PROVE  Handled([client |-> s, sends |-> <<>>], s, strict)
BY DEF Handled

\* What a call does to its two parts.
LEMMA Sent ==
  ASSUME NEW s, NEW q, NEW more
  PROVE  Sending([client |-> s, sends |-> q], more) = [client |-> s, sends |-> q \o more]
BY SMTT(20) DEF Sending

LEMMA Put2 ==
  ASSUME NEW s, NEW q, NEW t
  PROVE  [[client |-> s, sends |-> q] EXCEPT !.client = t] = [client |-> t, sends |-> q]
OBVIOUS

LEMMA SentTo ==
  ASSUME NEW st, st = [client |-> st.client, sends |-> st.sends], NEW more
  PROVE  Sending(st, more) = [client |-> st.client, sends |-> st.sends \o more]
<1>1. PICK s, q : s = st.client /\ q = st.sends
  OBVIOUS
<1>2. st = [client |-> s, sends |-> q]
  BY <1>1
<1> QED BY <1>1, <1>2, Sent

LEMMA PutTo ==
  ASSUME NEW st, st = [client |-> st.client, sends |-> st.sends], NEW t
  PROVE  [st EXCEPT !.client = t] = [client |-> t, sends |-> st.sends]
<1>1. PICK s, q : s = st.client /\ q = st.sends
  OBVIOUS
<1>2. st = [client |-> s, sends |-> q]
  BY <1>1
<1> QED BY <1>1, <1>2, Put2

\* The parts are all that a Handled state is.
LEMMA HandledIs ==
  ASSUME NEW s, ClientOK(s), NEW q \in Seq(Command), NEW was, NEW strict,
         s.keys = was.keys, s.mode = was.mode, s.tested = was.tested,
         q = <<>> => s.element = was.element \/ ~was.element.shown,
         q # <<>> => Last(q) \in Telling(s.element),
         strict => Locked(s)
  PROVE  Handled([client |-> s, sends |-> q], was, strict)
BY DEF Handled

LEMMA HideIsCommand == HideCommand \in Command
BY DEF Command

\* A change of the client that leaves its element alone.
LEMMA ClientChanges ==
  ASSUME NEW st, NEW was, NEW strict, Handled(st, was, strict),
         NEW s, ClientOK(s), s.element = st.client.element, s.tested = st.client.tested,
         s.keys = st.client.keys, s.mode = st.client.mode,
         NEW hard, hard => Locked(s)
  PROVE  Handled([st EXCEPT !.client = s], was, hard)
BY PutTo, HandledIs DEF Handled

\* What is sent in addition.
LEMMA SendingHide ==
  ASSUME NEW st, NEW was, NEW strict, Handled(st, was, strict)
  PROVE  Handled(Sending(st, <<HideCommand>>), was, strict)
<1>1. Sending(st, <<HideCommand>>) = [client |-> st.client, sends |-> st.sends \o <<HideCommand>>]
  BY SentTo DEF Handled
<1>2. st.sends \in Seq(Command) /\ <<HideCommand>> \in Seq(Command)
  BY HideIsCommand DEF Handled
<1>3. st.sends \o <<HideCommand>> \in Seq(Command) /\ st.sends \o <<HideCommand>> # <<>>
      /\ Last(st.sends \o <<HideCommand>>) = HideCommand
  BY <1>2 DEF Last
<1>4. HideCommand \in Telling(st.client.element)
  BY DEF Telling
<1> HIDE DEF HideCommand
<1>5. PICK q : q = st.sends \o <<HideCommand>>
  OBVIOUS
<1>6. Handled([client |-> st.client, sends |-> q], was, strict)
  BY <1>3, <1>4, <1>5, HandledIs DEF Handled
<1> QED BY <1>1, <1>5, <1>6

LEMMA AbortKeeps ==
  ASSUME NEW st, NEW was, NEW strict, Handled(st, was, strict)
  PROVE  Handled(Abort(st), was, strict) /\ Abort(st).client = st.client
<1>1. Abort(st).client = st.client
  BY SentTo DEF Handled, Abort
<1> QED BY <1>1, SendingHide DEF Abort

\* Whatever is hidden, and told so, is locked.
LEMMA HiddenKeeps ==
  ASSUME NEW st, st = [client |-> st.client, sends |-> st.sends], st.sends \in Seq(Command),
         NEW s, ClientOK(s), ~s.element.shown, NEW was, NEW strict,
         s.keys = was.keys, s.mode = was.mode, s.tested = was.tested
  PROVE  Handled(Sending([st EXCEPT !.client = s], <<HideCommand>>), was, strict)
<1>1. Sending([st EXCEPT !.client = s], <<HideCommand>>)
        = [client |-> s, sends |-> st.sends \o <<HideCommand>>]
  <2>1. PICK q : q = st.sends
    OBVIOUS
  <2>2. [st EXCEPT !.client = s] = [client |-> s, sends |-> q]
    BY <2>1, PutTo
  <2>3. Sending([client |-> s, sends |-> q], <<HideCommand>>)
          = [client |-> s, sends |-> q \o <<HideCommand>>]
    BY Sent
  <2> QED BY <2>1, <2>2, <2>3
<1>2. st.sends \o <<HideCommand>> \in Seq(Command) /\ st.sends \o <<HideCommand>> # <<>>
      /\ Last(st.sends \o <<HideCommand>>) = HideCommand
  BY HideIsCommand DEF Last
<1>3. HideCommand \in Telling(s.element) /\ Locked(s)
  BY DEF Telling, Locked
<1> QED BY <1>1, <1>2, <1>3, HandledIs

LEMMA DismissKeeps ==
  ASSUME NEW st, NEW was, NEW hard, Handled(st, was, hard), NEW strict
  PROVE  /\ Handled(Dismiss(st), was, strict)
         /\ ~Dismiss(st).client.element.shown
         /\ Dismiss(st).client.composing = st.client.composing
         /\ Dismiss(st).client.tested = st.client.tested
<1> DEFINE f == [st.client.element EXCEPT !.shown = FALSE, !.placed = FALSE]
           s == [st.client EXCEPT !.element = f, !.begun = FALSE]
<1>1. st.client \in ClientType /\ st.client.element \in ElementType /\ ElementOK(st.client.element)
  BY DEF Handled, ClientOK, ElementOK
<1>2. ElementOK(f) /\ ~f.shown
  <2>1. /\ f \in ElementType /\ f.size = st.client.element.size /\ ~f.shown
        /\ f.selection = st.client.element.selection /\ f.page = st.client.element.page
    BY <1>1 DEF ElementType
  <2> HIDE DEF f
  <2> QED BY <1>1, <2>1 DEF ElementOK, Placed, HasPage, PageCount
<1>3. f \in ElementType
  BY <1>2 DEF ElementOK
<1>4. /\ s \in ClientType /\ s.element = f /\ ~s.begun /\ s.tested = st.client.tested
      /\ s.keys = st.client.keys /\ s.mode = st.client.mode
      /\ s.composing = st.client.composing
  <2> HIDE DEF f
  <2> QED BY <1>1, <1>3 DEF ClientType
<1>5. Dismiss(st) = Sending([st EXCEPT !.client = s], <<HideCommand>>)
  BY DEF Dismiss
<1> HIDE DEF f, s
<1>6. ClientOK(s)
  BY <1>2, <1>4 DEF ClientOK, Handled
<1>7. Handled(Dismiss(st), was, strict)
  <2>1. st = [client |-> st.client, sends |-> st.sends] /\ st.sends \in Seq(Command)
    BY DEF Handled
  <2>2. s.keys = was.keys /\ s.mode = was.mode /\ s.tested = was.tested
    BY <1>4 DEF Handled
  <2>3. ~s.element.shown
    BY <1>2, <1>4
  <2> QED BY <1>5, <1>6, <2>1, <2>2, <2>3, HiddenKeeps
<1>8. Dismiss(st).client = s
  BY <1>5 DEF Sending, Handled
<1> QED BY <1>2, <1>4, <1>7, <1>8

LEMMA FinalizeKeeps ==
  ASSUME NEW st, NEW was, NEW hard, Handled(st, was, hard), NEW strict
  PROVE  Handled(Finalize(st), was, strict)
BY DismissKeeps, SendingHide DEF Finalize

\* The element is changed; a list that was shown stays so.
LEMMA ChangedKeeps ==
  ASSUME NEW st, NEW was, NEW hard, Handled(st, was, hard), NEW strict,
         NEW f, ElementOK(f), f.size > 0, st.client.element.shown => f.shown,
         st.client.begun => f.placed,
         strict /\ f.shown =>
           st.client.composing /\ st.client.locked /\ st.client.tested.action # "escape"
  PROVE  /\ Handled(Changed(st, f), was, strict)
         /\ Changed(st, f).client = [st.client EXCEPT !.element = f]
<1> DEFINE s == [st.client EXCEPT !.element = f]
<1>1. f \in ElementType /\ st.client \in ClientType /\ f.size # 0
  BY DEF Handled, ClientOK, ElementOK, ElementType
<1>2. /\ s \in ClientType /\ s.element = f /\ s.begun = st.client.begun
      /\ s.tested = st.client.tested /\ s.composing = st.client.composing /\ s.locked = st.client.locked
      /\ s.keys = st.client.keys /\ s.mode = st.client.mode
  BY <1>1 DEF ClientType
<1>3. Changed(st, f) = [client |-> s, sends |-> st.sends \o Refresh(f)]
  <2>1. PICK a, q : a = st.client /\ q = st.sends
    OBVIOUS
  <2>2. st = [client |-> a, sends |-> q]
    BY <2>1 DEF Handled
  <2>3. WithElement(st, f) = [client |-> s, sends |-> q]
    BY <2>1, <2>2 DEF WithElement
  <2> HIDE DEF s
  <2> QED BY <2>1, <2>3, Sent DEF Changed
<1> HIDE DEF s
<1>4. ClientOK(s)
  BY <1>2 DEF ClientOK, Handled
<1>5. strict => Locked(s)
  BY <1>2 DEF Locked
<1>6. st.sends \in Seq(Command)
  BY DEF Handled
<1>9. s.keys = was.keys /\ s.mode = was.mode /\ s.tested = was.tested
  BY <1>2 DEF Handled
<1>7. CASE f.shown
  <2>1. Refresh(f) = <<Present(f)>>
    BY <1>1, <1>7 DEF Refresh, ElementOK
  <2>2. Present(f) \in Command /\ Present(f) \in Telling(f)
    BY <1>7, Presented DEF Command, Telling
  <2>3. /\ st.sends \o <<Present(f)>> \in Seq(Command) /\ st.sends \o <<Present(f)>> # <<>>
        /\ Last(st.sends \o <<Present(f)>>) = Present(f)
    BY <1>6, <2>2 DEF Last
  <2>4. Handled(Changed(st, f), was, strict)
    BY <1>2, <1>3, <1>4, <1>5, <1>9, <2>1, <2>2, <2>3, HandledIs
  <2> QED BY <1>3, <2>4 DEF s
<1>8. CASE ~f.shown
  <2>1. Refresh(f) = <<>>
    BY <1>1, <1>8 DEF Refresh
  <2>2. st.sends \o <<>> = st.sends
    BY <1>6
  <2>3. Changed(st, f) = [client |-> s, sends |-> st.sends]
    BY <1>3, <2>1, <2>2
  <2>4. ~st.client.element.shown
    BY <1>8
  <2>5. Telling(st.client.element) = {HideCommand} /\ Telling(s.element) = {HideCommand}
    BY <1>2, <1>8, <2>4 DEF Telling
  <2>6. st.sends = <<>> => ~was.element.shown
    BY <2>4 DEF Handled
  <2>7. Handled(Changed(st, f), was, strict)
    BY <1>4, <1>5, <1>6, <1>9, <2>3, <2>5, <2>6, HandledIs DEF Handled
  <2> QED BY <2>3, <2>7 DEF s
<1> QED BY <1>7, <1>8

\* A list that is shown has candidates and a place.
LEMMA ShowElementKeeps ==
  ASSUME NEW st, NEW was, NEW hard, Handled(st, was, hard), NEW strict,
         st.client.element.placed, st.client.element.size > 0,
         strict => st.client.composing /\ st.client.locked /\ st.client.tested.action # "escape"
  PROVE  Handled(ShowElement(st), was, strict)
<1> DEFINE o == st.client.element
           f == [o EXCEPT !.shown = TRUE]
<1>1. ElementOK(o) /\ o \in ElementType
  BY DEF Handled, ClientOK, ElementOK
<1>2. /\ f \in ElementType /\ f.size = o.size /\ f.shown /\ f.placed = o.placed
      /\ f.selection = o.selection /\ f.page = o.page
  BY <1>1 DEF ElementType
<1>3. ShowElement(st) = Changed(st, f)
  BY DEF ShowElement
<1> HIDE DEF f
<1>4. ElementOK(f)
  BY <1>1, <1>2 DEF ElementOK, Placed, HasPage, PageCount
<1>5. st.client.begun => f.placed
  BY <1>2
<1>6. f.size > 0
  BY <1>2
<1>7. Handled(Changed(st, f), was, strict)
  BY <1>2, <1>4, <1>5, <1>6, ChangedKeeps
<1> QED BY <1>3, <1>7

\* A list of its own for each showing.
LEMMA ShowListKeeps ==
  ASSUME NEW st, NEW was, NEW hard, Handled(st, was, hard), NEW strict,
         NEW size \in Nat \ {0}, NEW outcome \in Outcomes,
         st.client.element.list + 1 \in 0..MaxLists,
         strict => st.client.composing /\ st.client.locked /\ st.client.tested.action # "escape"
  PROVE  Handled(ShowList(st, size, outcome), was, strict)
<1> DEFINE old == st.client.element
           new == [NewElement EXCEPT !.list = old.list + 1, !.size = size,
                                     !.shown = old.shown, !.placed = TRUE]
           begun == outcome \in {"shown", "declined"}
<1>1. ElementOK(old) /\ old \in ElementType /\ st.client \in ClientType
  BY DEF Handled, ClientOK, ElementOK
<1>2. /\ new \in ElementType /\ new.size = size /\ new.size > 0 /\ new.shown = old.shown
      /\ new.placed /\ new.selection = 0 /\ new.page = 0
  <2>1. old.list + 1 \in 0..MaxLists /\ old.shown \in BOOLEAN /\ size \in Nat
    BY <1>1 DEF ElementType
  <2>2. NewElement \in ElementType /\ NewElement.selection = 0 /\ NewElement.page = 0
    BY BoundsAssumption DEF NewElement, NoList, ElementType
  <2>3. PICK l \in 0..MaxLists, h \in BOOLEAN : l = old.list + 1 /\ h = old.shown
    BY <2>1
  <2>4. PICK o \in ElementType : o = NewElement
    BY <2>2
  <2>5. new = [o EXCEPT !.list = l, !.size = size, !.shown = h, !.placed = TRUE]
    BY <2>3, <2>4
  <2> HIDE DEF new
  <2>6. o.selection = 0 /\ o.page = 0 /\ size \in Nat /\ size > 0
    BY <2>2, <2>4
  <2>7. /\ new \in ElementType /\ new.size = size /\ new.shown = h /\ new.placed
        /\ new.selection = o.selection /\ new.page = o.page
    BY <2>5, <2>6 DEF ElementType
  <2> QED BY <2>3, <2>6, <2>7
<1> HIDE DEF new
<1>3. ElementOK(new)
  BY Sizes, <1>2, PlacedIs DEF PageBegin, ElementType, ElementOK
<1>4. CASE outcome = "unanchored"
  BY <1>4, DismissKeeps DEF ShowList
<1>5. CASE outcome # "unanchored" /\ old.shown
  <2>1. ShowList(st, size, outcome) = ShowElement(Changed(st, new))
    BY <1>5 DEF ShowList, new
  <2>2. /\ Handled(Changed(st, new), was, strict)
        /\ Changed(st, new).client = [st.client EXCEPT !.element = new]
    BY ZenonT(30), <1>2, <1>3, <1>5, ChangedKeeps
  <2>3. /\ Changed(st, new).client.element = new
        /\ Changed(st, new).client.composing = st.client.composing
        /\ Changed(st, new).client.locked = st.client.locked
        /\ Changed(st, new).client.tested = st.client.tested
    BY <1>1, <2>2 DEF ClientType
  <2>4. PICK w : w = Changed(st, new)
    OBVIOUS
  <2>5. Handled(ShowElement(w), was, strict)
    <3>1. w.client.element.placed /\ w.client.element.size > 0
      BY <1>2, <2>3, <2>4
    <3>2. strict => w.client.composing /\ w.client.locked /\ w.client.tested.action # "escape"
      BY <2>3, <2>4
    <3>3. Handled(w, was, strict)
      BY <2>2, <2>4
    <3> QED BY <3>1, <3>2, <3>3, ShowElementKeeps
  <2> QED BY <2>1, <2>4, <2>5
<1>6. CASE outcome # "unanchored" /\ ~old.shown
  <2> DEFINE s == [st.client EXCEPT !.element = new, !.begun = begun]
             opened == [st EXCEPT !.client = s]
  <2>1. /\ s \in ClientType /\ s.element = new /\ s.tested = st.client.tested
  /\ s.keys = st.client.keys /\ s.mode = st.client.mode
        /\ s.composing = st.client.composing /\ s.locked = st.client.locked
    <3>1. PICK b \in BOOLEAN : b = begun
      <4>1. CASE outcome \in {"shown", "declined"}
        <5>1. begun = TRUE
          BY <4>1
        <5> HIDE DEF begun
        <5> QED BY <5>1
      <4>2. CASE outcome \notin {"shown", "declined"}
        <5>1. begun = FALSE
          BY <4>2
        <5> HIDE DEF begun
        <5> QED BY <5>1
      <4> QED BY <4>1, <4>2
    <3>2. s = [st.client EXCEPT !.element = new, !.begun = b]
      BY <3>1
    <3> HIDE DEF s
    <3> QED BY <1>1, <1>2, <3>2 DEF ClientType
  <2>2. ShowList(st, size, outcome) = IF outcome = "shown" THEN ShowElement(opened) ELSE opened
    BY <1>6 DEF Handled, WithElement, ShowList, new
  <2>3. opened = [client |-> s, sends |-> st.sends]
    BY DEF Handled
  <2> HIDE DEF s, opened
  <2>4. ClientOK(s)
    BY <1>2, <1>3, <2>1 DEF Handled, ClientOK
  <2>5. ~s.element.shown
    BY <1>2, <1>6, <2>1
  <2>6. Handled(opened, was, strict)
    BY <1>6, <2>1, <2>3, <2>4, <2>5 DEF Handled, Telling, Locked
  <2>7. opened.client = s
    BY <2>3
  <2> QED BY <1>2, <2>1, <2>2, <2>6, <2>7, ShowElementKeeps
<1> QED BY <1>4, <1>5, <1>6

-----------------------------------------------------------------------------
(***************************************************************************)
(* What a key makes of a text service                                      *)
(***************************************************************************)
LEMMA EndedKeeps ==
  ASSUME NEW st, NEW was, NEW hard, Handled(st, was, hard),
         NEW strict, strict => ~st.client.element.shown
  PROVE  Handled(Ended(st), was, strict)
<1> DEFINE s == [st.client EXCEPT !.composing = FALSE, !.locked = FALSE]
<1>1. st.client \in ClientType
  BY DEF Handled, ClientOK
<1>2. /\ s \in ClientType /\ s.element = st.client.element /\ s.begun = st.client.begun
      /\ s.tested = st.client.tested
      /\ s.keys = st.client.keys /\ s.mode = st.client.mode
  BY <1>1 DEF ClientType
<1>3. Ended(st) = [st EXCEPT !.client = s]
  BY DEF Ended, Handled
<1> HIDE DEF s
<1>4. ClientOK(s) /\ (strict => Locked(s))
  BY <1>2 DEF Handled, ClientOK, Locked
<1> QED BY <1>2, <1>3, <1>4, ClientChanges

LEMMA ComposedKeeps ==
  ASSUME NEW st, NEW was, NEW strict, Handled(st, was, strict)
  PROVE  Handled(Composed(st), was, strict)
<1> DEFINE s == [st.client EXCEPT !.composing = TRUE]
<1>1. st.client \in ClientType
  BY DEF Handled, ClientOK
<1>2. /\ s \in ClientType /\ s.element = st.client.element /\ s.begun = st.client.begun
      /\ s.tested = st.client.tested /\ s.composing /\ s.locked = st.client.locked
      /\ s.keys = st.client.keys /\ s.mode = st.client.mode
  BY <1>1 DEF ClientType
<1>3. Composed(st) = [st EXCEPT !.client = s]
  BY DEF Composed, Handled
<1> HIDE DEF s
<1>4. ClientOK(s) /\ (strict => Locked(s))
  BY <1>2 DEF Handled, ClientOK, Locked
<1> QED BY <1>2, <1>3, <1>4, ClientChanges

LEMMA MayEndKeeps ==
  ASSUME NEW st, NEW was, NEW strict, Handled(st, was, strict), ~st.client.element.shown,
         NEW after \in MayEnd(st)
  PROVE  Handled(after, was, strict)
BY EndedKeeps DEF MayEnd

\* The key is taken or passed on; the lock goes with the list.
LEMMA AfterKeyKeeps ==
  ASSUME NEW st, NEW was, NEW strict, Handled(st, was, strict)
  PROVE  Handled(AfterKey(st), was, strict)
<1>1. st.client \in ClientType /\ st.client.element \in ElementType
  BY DEF Handled, ClientOK, ElementOK
<1>2. PICK l \in BOOLEAN : l = (st.client.locked /\ st.client.element.shown)
  OBVIOUS
<1> DEFINE s == [st.client EXCEPT !.locked = l]
<1>3. /\ s \in ClientType /\ s.element = st.client.element /\ s.begun = st.client.begun
      /\ s.tested = st.client.tested /\ s.composing = st.client.composing /\ s.locked = l
      /\ s.keys = st.client.keys /\ s.mode = st.client.mode
  BY <1>1 DEF ClientType
<1>4. AfterKey(st) = [st EXCEPT !.client = s]
  BY <1>2 DEF AfterKey, Handled
<1> HIDE DEF s
<1>5. ClientOK(s)
  BY <1>3 DEF Handled, ClientOK
<1>6. ASSUME strict PROVE Locked(s)
  BY <1>6, <1>2, <1>3 DEF Handled, Locked
<1> QED BY <1>3, <1>4, <1>5, <1>6, ClientChanges

LEMMA OpenListKeeps ==
  ASSUME calls \in Use, NEW st, NEW was, NEW strict, Handled(st, was, strict),
         st.client.tested = Untested, NEW after \in OpenList(st)
  PROVE  Handled(after, was, strict)
<1>1. CASE after = Dismiss(st)
  BY <1>1, DismissKeeps
<1>2. CASE after # Dismiss(st)
  <2> DEFINE locked == [st EXCEPT !.client.locked = TRUE]
             s == [st.client EXCEPT !.locked = TRUE]
  <2>1. /\ st.client.composing /\ st.client.element.list < MaxLists
        /\ \E size \in calls.sizes, outcome \in calls.shows : after = ShowList(locked, size, outcome)
    <3>1. CASE st.client.composing /\ st.client.element.list < MaxLists
      <4> DEFINE Lists == {ShowList(locked, size, outcome) :
                             size \in calls.sizes, outcome \in calls.shows}
      <4>1. after \in Lists
        <5>1. OpenList(st) = {Dismiss(st)} \union (IF st.client.composing /\ st.client.element.list < MaxLists
                                                 THEN Lists ELSE {})
          BY DEF OpenList
        <5> HIDE DEF Lists
        <5> QED BY <1>2, <3>1, <5>1
      <4> HIDE DEF locked
      <4> QED BY <3>1, <4>1
    <3>2. CASE ~(st.client.composing /\ st.client.element.list < MaxLists)
      <4> HIDE DEF locked
      <4> QED BY <1>2, <3>2 DEF OpenList
    <3> QED BY <3>1, <3>2
  <2>2. PICK size \in calls.sizes, outcome \in calls.shows : after = ShowList(locked, size, outcome)
    BY <2>1
  <2>3. size \in Nat \ {0} /\ outcome \in Outcomes
    BY DEF Use, Outcomes
  <2>4. st.client \in ClientType /\ st.client.element \in ElementType
    BY DEF Handled, ClientOK, ElementOK
  <2>5. /\ s \in ClientType /\ s.element = st.client.element /\ s.begun = st.client.begun
        /\ s.tested = st.client.tested /\ s.composing /\ s.locked
        /\ s.keys = st.client.keys /\ s.mode = st.client.mode
    BY <2>1, <2>4 DEF ClientType
  <2>6. locked = [st EXCEPT !.client = s]
    BY DEF Handled
  <2>7. s.element.list + 1 \in 0..MaxLists
    BY <2>1, <2>4, <2>5, BoundsAssumption DEF ElementType
  <2>8. Untested.action # "escape"
    BY DEF Untested
  <2> HIDE DEF s, locked
  <2>9. ClientOK(s) /\ Locked(s)
    BY <2>5, <2>8 DEF Handled, ClientOK, Locked
  <2>10. Handled(locked, was, strict)
    BY <2>5, <2>6, <2>9, ClientChanges
  <2>11. locked.client = s
    BY <2>6, PutTo DEF Handled
  <2>12. Handled(ShowList(locked, size, outcome), was, strict)
    BY <2>3, <2>5, <2>7, <2>8, <2>10, <2>11, ShowListKeeps
  <2> QED BY <2>2, <2>12
<1> QED BY <1>1, <1>2

\* Whatever a key is decided to do.
LEMMA PerformKeeps ==
  ASSUME calls \in Use, NEW st, NEW was, NEW strict, Handled(st, was, strict),
         st.client.tested = Untested, NEW press, NEW action \in Actions \ {"candidates"},
         strict /\ action = "escape" => ~st.client.element.shown,
         NEW after \in Perform(st, press, action)
  PROVE  Handled(after, was, strict)
<1>1. CASE action \in {"pass", "shiftDown", "arm", "ignore", "backspaceInOrder"}
  BY <1>1 DEF Perform
<1>2. CASE action = "toggleWidth"
  <2>1. after = [st EXCEPT !.client.full = IF press.repeated THEN @ ELSE ~@]
    BY <1>2 DEF Perform
  <2>2. st.client \in ClientType
    BY DEF Handled, ClientOK
  <2>3. PICK f \in BOOLEAN : f = IF press.repeated THEN st.client.full ELSE ~st.client.full
    BY <2>2 DEF ClientType
  <2> DEFINE s == [st.client EXCEPT !.full = f]
  <2>4. /\ s \in ClientType /\ s.element = st.client.element /\ s.begun = st.client.begun
        /\ s.tested = st.client.tested /\ s.composing = st.client.composing
        /\ s.keys = st.client.keys /\ s.mode = st.client.mode
        /\ s.locked = st.client.locked
    BY <2>2 DEF ClientType
  <2>5. after = [st EXCEPT !.client = s]
    BY <2>1, <2>3 DEF Handled
  <2> HIDE DEF s
  <2>6. ClientOK(s) /\ (strict => Locked(s))
    BY <2>4 DEF Handled, ClientOK, Locked
  <2> QED BY <2>4, <2>5, <2>6, ClientChanges
<1>3. CASE action \in {"insert", "move"}
  BY <1>3, DismissKeeps DEF Perform
<1>4. CASE action \in {"compose", "composeEnglish", "reading"}
  BY <1>4, DismissKeeps, ComposedKeeps DEF Perform
<1>5. CASE action \in {"backspace", "enter"}
  BY <1>5, DismissKeeps, MayEndKeeps DEF Perform
<1>6. CASE action = "escape"
  BY <1>6, EndedKeeps, DismissKeeps DEF Perform
<1>7. CASE action = "openCandidates"
  BY <1>7, OpenListKeeps DEF Perform
<1> QED BY <1>1, <1>2, <1>3, <1>4, <1>5, <1>6, <1>7 DEF Actions

\* What is decided: the list has keys of its own only while it is open, and it
\* takes Escape before the composition does.
LEMMA Routed ==
  ASSUME NEW press, NEW context
  PROVE  /\ Route(press, context) \in Actions
         /\ Route(press, context) = "candidates" => context.open
         /\ Route(press, context) = "shiftDown" => press.key = "shift"
         /\ Route(press, context) = "escape" =>
              press.key = "escape" /\ ~(context.composing /\ context.open /\ context.takes)
<1> DEFINE d == Decisions(press, context)
           T == {k \in DOMAIN d : d[k][1]}
<1>1. /\ DOMAIN d = 1..27 /\ d[27][1]
      /\ \A k \in 1..27 : /\ d[k][2] \in Actions
                          /\ d[k][2] = "candidates" /\ d[k][1] => context.open
                          /\ d[k][2] = "shiftDown" /\ d[k][1] => press.key = "shift"
                          /\ d[k][2] = "escape" /\ d[k][1] => press.key = "escape" /\ k > 16
      /\ context.composing /\ context.open /\ context.takes => d[16][1]
  <2>1. DOMAIN d = 1..27 /\ d[27][1]
    BY DEF Decisions
  <2>2. /\ d[1][1] <=> press.key = "shift"
        /\ d[16][1] <=> context.composing /\ context.open /\ context.takes
        /\ d[20][1] <=> context.composing /\ press.key = "escape"
    BY DEF Decisions
  <2>3. /\ d[1][2] = "shiftDown" /\ d[2][2] = "toggleWidth" /\ d[3][2] = "compose"
        /\ d[4][2] = "arm" /\ d[5][2] = "backspaceInOrder" /\ d[6][2] = "compose"
        /\ d[7][2] = "compose" /\ d[8][2] = "insert" /\ d[9][2] = "composeEnglish"
        /\ d[10][2] = "compose" /\ d[11][2] = "pass" /\ d[12][2] = "compose"
        /\ d[13][2] = "insert" /\ d[14][2] = "insert" /\ d[15][2] = "pass"
        /\ d[16][2] = "candidates" /\ d[17][2] = "backspace" /\ d[18][2] = "pass"
        /\ d[19][2] = "enter" /\ d[20][2] = "escape" /\ d[21][2] = "backspace"
        /\ d[22][2] = "openCandidates" /\ d[23][2] = "move" /\ d[24][2] = "ignore"
        /\ d[25][2] = "compose" /\ d[26][2] = "reading" /\ d[27][2] = "pass"
    BY DEF Decisions
  <2> HIDE DEF d
  <2> QED BY <2>1, <2>2, <2>3 DEF Actions
<1> HIDE DEF d
<1>2. T \subseteq Nat /\ 27 \in T /\ T # {}
  BY <1>1
<1>3. \E m \in T : \A n \in T : m <= n
  <2> HIDE DEF T
  <2> QED BY <1>2, LeastNumber
<1>4. PICK m : m = Min(T)
  OBVIOUS
<1>5. m \in T /\ \A n \in T : m <= n
  <2> HIDE DEF T
  <2> QED BY <1>3, <1>4 DEF Min
<1>6. Route(press, context) = d[m][2]
  BY <1>4 DEF Route, d
<1>7. m \in 1..27 /\ d[m][1]
  BY <1>1, <1>5
<1>8. context.composing /\ context.open /\ context.takes => m <= 16
  BY <1>1, <1>5
<1> QED BY <1>1, <1>6, <1>7, <1>8

\* Keys of the open list; a key it does not take closes it and is decided anew.
LEMMA PerformCandidateKeyKeeps ==
  ASSUME calls \in Use, NEW st, NEW was, NEW strict, Handled(st, was, strict),
         st.client.tested = Untested, NEW press, NEW complete,
         NEW after \in PerformCandidateKey(st, press, complete)
  PROVE  Handled(after, was, strict)
<1> DEFINE o == st.client.element
           without == IF o.shown THEN Dismiss(st) ELSE st
           action == Route(press, Context(without.client, press, FALSE, FALSE, complete))
<1>1. ElementOK(o) /\ o \in ElementType /\ st.client \in ClientType
  BY DEF Handled, ClientOK, ElementOK
<1>2. o.shown => o.size > 0 /\ o.placed
  BY <1>1 DEF ElementOK
<1>3. strict => Locked(st.client)
  BY DEF Handled
<1>4. ASSUME NEW f, ElementOK(f), Same(o, f), o.shown
      PROVE  Handled(Changed(st, f), was, strict)
  BY <1>2, <1>3, <1>4, ChangedKeeps DEF Same, Locked
<1>5. CASE o.shown /\ press.key \in Turning
  <2>1. after = Sending(WithElement(st, Turn(o, press.key)), Turned(o, press.key))
    BY <1>5 DEF PerformCandidateKey
  <2>2. CASE Turned(o, press.key) = Refresh(Turn(o, press.key))
    BY <2>1, <2>2, <1>1, <1>2, <1>4, <1>5, TurnKeeps DEF Changed
  <2>3. CASE Turned(o, press.key) # Refresh(Turn(o, press.key))
    <3>1. Turned(o, press.key) = <<>> /\ Turn(o, press.key) = o
      BY <2>3 DEF Turned
    <3>2. PICK a, q : a = st.client /\ q = st.sends
      OBVIOUS
    <3>3. st = [client |-> a, sends |-> q]
      BY <3>2 DEF Handled
    <3>4. [a EXCEPT !.element = o] = a
      BY <1>1, <3>2 DEF ClientType
    <3>5. WithElement(st, o) = st
      BY <3>3, <3>4 DEF WithElement
    <3>6. Sending(st, <<>>) = [client |-> a, sends |-> q \o <<>>]
      BY <3>3, Sent
    <3>7. q \o <<>> = q
      BY <3>2 DEF Handled
    <3> QED BY <2>1, <3>1, <3>3, <3>5, <3>6, <3>7
  <2> QED BY <2>2, <2>3
<1>6. CASE o.shown /\ press.key \in {"return", "space"}
  BY <1>6, FinalizeKeeps DEF PerformCandidateKey, Turning
<1>7. CASE o.shown /\ press.key = "escape"
  BY <1>7, AbortKeeps, DismissKeeps DEF PerformCandidateKey, Turning
<1>8. CASE /\ o.shown /\ press.key \in Digits /\ Choice(o, press.key) >= 0
           /\ press.key \notin Turning \union {"return", "space", "escape"}
  <2> DEFINE index == Choice(o, press.key)
  <2>1. after = Finalize(Changed(st, Select(o, index)))
    BY <1>8 DEF PerformCandidateKey
  <2>2. Place(press.key) \in 1..PageSize
    BY <1>8 DEF Digits, Place
  <2>3. o.size \in Nat /\ PageBegin(o.page) \in Nat
    BY <1>1, BeginIsPositive DEF ElementType
  <2>4. index \in 0..(o.size - 1)
    BY <1>8, <2>2, <2>3, Sizes DEF Choice
  <2> HIDE DEF index
  <2>5. ElementOK(Select(o, index)) /\ Same(o, Select(o, index))
    BY <1>1, <2>4, SelectKeeps
  <2>6. Handled(Changed(st, Select(o, index)), was, strict)
    BY <1>4, <1>8, <2>5
  <2> QED BY <2>1, <2>6, FinalizeKeeps
<1>9. CASE after \in Perform(without, press, action)
  <2>1. Handled(without, was, strict) /\ ~without.client.element.shown
        /\ without.client.tested = Untested
    BY DismissKeeps
  <2>2. action \in Actions \ {"candidates"}
    BY Routed DEF Context
  <2> HIDE DEF without, action
  <2> QED BY <1>9, <2>1, <2>2, PerformKeeps
<1>10. \/ o.shown /\ press.key \in Turning
       \/ o.shown /\ press.key \in {"return", "space"}
       \/ o.shown /\ press.key = "escape"
       \/ /\ o.shown /\ press.key \in Digits /\ Choice(o, press.key) >= 0
          /\ press.key \notin Turning \union {"return", "space", "escape"}
       \/ after \in Perform(without, press, action)
  <2> HIDE DEF action
  <2> QED BY DEF PerformCandidateKey, action
<1> QED BY <1>5, <1>6, <1>7, <1>8, <1>9, <1>10

-----------------------------------------------------------------------------
(***************************************************************************)
(* What is kept between keys                                               *)
(***************************************************************************)
KeyStates == [alone : BOOLEAN, prefix : BOOLEAN]

\* What the key router remembers has its type, whatever it observes.
LEMMA Observed ==
  ASSUME NEW state \in KeyStates, NEW press
  PROVE  Observe(state, press) \in KeyStates
<1>1. PICK b \in BOOLEAN : b = (state.alone /\ ("shift" \notin press.held \/ press.key = "shift"))
  OBVIOUS
<1>2. Observe(state, press) = [state EXCEPT !.alone = b]
  BY <1>1 DEF Observe
<1> QED BY <1>2 DEF KeyStates

LEMMA KeyWasHandled ==
  ASSUME NEW state \in KeyStates, NEW press, NEW action
  PROVE  KeyHandled(state, press, action) \in KeyStates
<1>1. CASE action = "shiftDown"
  <2>1. PICK b \in BOOLEAN : b = (state.alone \/ ~press.repeated)
    OBVIOUS
  <2>2. KeyHandled(state, press, action) = [state EXCEPT !.alone = b]
    BY <1>1, <2>1 DEF KeyHandled
  <2> QED BY <2>2 DEF KeyStates
<1>2. CASE action # "shiftDown" /\ press.key \in Modifiers
  BY <1>2, Observed DEF KeyHandled
<1>3. CASE action # "shiftDown" /\ press.key \notin Modifiers
  <2>1. PICK b \in BOOLEAN : b = (action = "arm")
    OBVIOUS
  <2>2. KeyHandled(state, press, action) = [Observe(state, press) EXCEPT !.prefix = b]
    BY <1>3, <2>1 DEF KeyHandled
  <2> QED BY <2>2, Observed DEF KeyStates
<1> QED BY <1>1, <1>2, <1>3

LEMMA ModeWasChanged ==
  ASSUME NEW state \in KeyStates, NEW mode
  PROVE  ModeChanged(state, mode) \in KeyStates
<1>1. PICK b \in BOOLEAN : b = (state.prefix /\ mode = "chinese")
  OBVIOUS
<1>2. ModeChanged(state, mode) = [state EXCEPT !.prefix = b]
  BY <1>1 DEF ModeChanged
<1> QED BY <1>2 DEF KeyStates

-----------------------------------------------------------------------------
(***************************************************************************)
(* What is written to the service                                          *)
(***************************************************************************)
\* Other connections are put in place of those of s.
LEMMA Reconnected ==
  ASSUME NEW s \in Services, NEW D \in SUBSET (1..MaxConnections), NEW k \in [D -> Connection],
         NEW t, t = [s EXCEPT !.connections = k]
  PROVE  /\ t \in Services /\ t.connections = k /\ DOMAIN t.connections = D
         /\ t.up = s.up /\ t.active = s.active /\ t.next = s.next
BY DEF Services

\* Connections are numbered from one; no number is NoPipe.
LEMMA ConnectionsAre ==
  ASSUME NEW s \in Services
  PROVE  /\ DOMAIN s.connections \in SUBSET (1..MaxConnections)
         /\ s.connections \in [DOMAIN s.connections -> Connection]
         /\ NoPipe \notin DOMAIN s.connections
<1>1. s.connections \in UNION {[D -> Connection] : D \in SUBSET (1..MaxConnections)}
  BY DEF Services
<1>2. PICK D \in SUBSET (1..MaxConnections) : s.connections \in [D -> Connection]
  BY <1>1
<1>3. DOMAIN s.connections = D
  BY <1>2
<1>4. NoPipe \notin D
  BY BoundsAssumption DEF NoPipe
<1> QED BY <1>2, <1>3, <1>4

\* What c may make of its pipe and of the service: connections of its own only.
Ends(c) ==
  {w \in [pipe : 0..MaxConnections, service : Services] :
     /\ ServiceFits(w.service)
     /\ Linked(w.service, c, w.pipe)
     /\ \A id \in DOMAIN service.connections :
          /\ id \in DOMAIN w.service.connections
          /\ w.service.connections[id].of = service.connections[id].of
          /\ service.connections[id].of # c => w.service.connections[id] = service.connections[id]
     /\ \A id \in DOMAIN w.service.connections \ DOMAIN service.connections :
          w.service.connections[id].of = c /\ id >= service.next
     /\ w.service.active = service.active /\ w.service.next >= service.next}

\* The command is the last one in the pipe, or could not be written.
Wrote(w, command) ==
  w.pipe \in DOMAIN w.service.connections =>
    /\ w.service.connections[w.pipe].commands # <<>>
    /\ Last(w.service.connections[w.pipe].commands) = command

\* Writing nothing ends as it began.
LEMMA Unchanged ==
  ASSUME CandidateInv, NEW c \in Clients
  PROVE  [pipe |-> client[c].pipe, service |-> service] \in Ends(c)
<1>1. client[c].pipe \in 0..MaxConnections
  BY DEF CandidateInv, ClientsOK, ClientType
<1>2. service \in Services /\ ServiceFits(service) /\ Linked(service, c, client[c].pipe)
  BY DEF CandidateInv, ServiceOK, ServiceFits, LinksOK
<1>3. service.next \in Nat
  BY <1>2, BoundsAssumption DEF ServiceFits
<1> QED BY <1>1, <1>2, <1>3 DEF Ends

\* A command is written to an open connection, or to a new one.
LEMMA WriteKeeps ==
  ASSUME ServiceOK, NEW c \in Clients, NEW w \in Ends(c), NEW command \in Command
  PROVE  Write(w, command) \in Ends(c) /\ Wrote(Write(w, command), command)
<1> DEFINE s == w.service
           id == w.pipe
<1>1. /\ w \in [pipe : 0..MaxConnections, service : Services] /\ s \in Services /\ id \in 0..MaxConnections
      /\ ServiceFits(s) /\ Linked(s, c, id)
  BY DEF Ends
<1>2. /\ DOMAIN s.connections \in SUBSET (1..MaxConnections)
      /\ s.connections \in [DOMAIN s.connections -> Connection] /\ NoPipe \notin DOMAIN s.connections
  BY <1>1, ConnectionsAre
<1>3. CASE Connected(w)
  <2> DEFINE old == s.connections[id]
             k == [s.connections EXCEPT ![id] = [old EXCEPT !.commands = Append(@, command)]]
             t == [s EXCEPT !.connections = k]
             v == [w EXCEPT !.service = t]
  <2>1. id \in DOMAIN s.connections /\ old \in Connection /\ old.of = c /\ old.open
    BY <1>1, <1>2, <1>3 DEF Connected, Linked
  <2>2. Write(w, command) = v
    BY <1>1, <1>3, <2>1 DEF Write
  <2>3. PICK new \in Connection :
          /\ new = [old EXCEPT !.commands = Append(@, command)]
          /\ new.of = c /\ new.open /\ new.commands = Append(old.commands, command)
    <3>1. PICK p \in Connection : p = old
      BY <2>1
    <3>2. p.commands \in Seq(Command) /\ Append(p.commands, command) \in Seq(Command)
      BY DEF Connection
    <3>3. PICK q \in Seq(Command) : q = Append(p.commands, command)
      BY <3>2
    <3> DEFINE x == [p EXCEPT !.commands = q]
    <3>4. x \in Connection /\ x.of = p.of /\ x.open = p.open /\ x.commands = q
      BY DEF Connection
    <3>5. x = [old EXCEPT !.commands = Append(@, command)]
      BY <3>1, <3>3
    <3> HIDE DEF x
    <3> QED BY <2>1, <3>1, <3>3, <3>4, <3>5
  <2>4. /\ k \in [DOMAIN s.connections -> Connection] /\ k[id] = new
        /\ \A x \in DOMAIN s.connections : x # id => k[x] = s.connections[x]
    BY <1>2, <2>1, <2>3
  <2> HIDE DEF k
  <2>5. /\ t \in Services /\ t.connections = k /\ DOMAIN t.connections = DOMAIN s.connections
        /\ t.active = s.active /\ t.next = s.next
    BY <1>1, <1>2, <2>4, Reconnected
  <2> HIDE DEF t
  <2>6. v \in [pipe : 0..MaxConnections, service : Services] /\ v.pipe = id /\ v.service = t
    BY <1>1, <2>5
  <2> HIDE DEF v
  <2>7. ServiceFits(t)
    BY <1>1, <2>5 DEF ServiceFits
  <2>8. Linked(t, c, id)
    BY <1>1, <2>1, <2>3, <2>4, <2>5 DEF Linked
  <2>9. \A x \in DOMAIN service.connections :
          /\ x \in DOMAIN t.connections /\ t.connections[x].of = service.connections[x].of
          /\ service.connections[x].of # c => t.connections[x] = service.connections[x]
    <3> TAKE x \in DOMAIN service.connections
    <3>1. /\ x \in DOMAIN s.connections /\ s.connections[x].of = service.connections[x].of
          /\ service.connections[x].of # c => s.connections[x] = service.connections[x]
      BY DEF Ends
    <3>2. CASE x = id
      BY <2>1, <2>3, <2>4, <2>5, <3>1, <3>2
    <3>3. CASE x # id
      BY <2>4, <2>5, <3>1, <3>3
    <3> QED BY <3>2, <3>3
  <2>10. \A x \in DOMAIN t.connections \ DOMAIN service.connections :
           t.connections[x].of = c /\ x >= service.next
    <3> TAKE x \in DOMAIN t.connections \ DOMAIN service.connections
    <3>1. x \in DOMAIN s.connections /\ s.connections[x].of = c /\ x >= service.next
      BY <2>5 DEF Ends
    <3>2. CASE x = id
      BY <2>3, <2>4, <2>5, <3>1, <3>2
    <3>3. CASE x # id
      BY <2>4, <2>5, <3>1, <3>3
    <3> QED BY <3>2, <3>3
  <2>11. t.active = service.active /\ t.next >= service.next
    BY <2>5 DEF Ends
  <2>12. v \in Ends(c)
    BY <2>6, <2>7, <2>8, <2>9, <2>10, <2>11 DEF Ends
  <2>13. new.commands # <<>> /\ Last(new.commands) = command
    <3>1. old.commands \in Seq(Command)
      BY <2>1 DEF Connection
    <3>2. PICK q \in Seq(Command) : q = old.commands
      BY <3>1
    <3>3. Append(q, command) # <<>> /\ Last(Append(q, command)) = command
      BY DEF Last
    <3> QED BY <2>3, <3>2, <3>3
  <2>14. Wrote(v, command)
    BY <2>4, <2>5, <2>6, <2>13 DEF Wrote
  <2> QED BY <2>2, <2>12, <2>14
<1>4. CASE ~Connected(w)
  <2> DEFINE v == [w EXCEPT !.pipe = NoPipe]
  <2>1. Write(w, command) = v
    BY <1>4 DEF Write
  <2>2. v \in [pipe : 0..MaxConnections, service : Services] /\ v.pipe = NoPipe /\ v.service = s
    BY <1>1, BoundsAssumption DEF NoPipe
  <2> HIDE DEF v
  <2>3. Linked(s, c, NoPipe)
    BY <1>4, <1>1, BoundsAssumption, <1>2 DEF Connected, ServiceFits, NoPipe, Linked
  <2>4. v \in Ends(c)
    BY <1>1, <2>2, <2>3 DEF Ends
  <2>5. Wrote(v, command)
    BY <1>2, <2>2 DEF Wrote
  <2> QED BY <2>1, <2>4, <2>5
<1> QED BY <1>3, <1>4

LEMMA ConnectKeeps ==
  ASSUME ServiceOK, NEW c \in Clients, NEW w \in Ends(c), w.pipe = NoPipe, NEW starts
  PROVE  Connect(w, c, starts) \in Ends(c)
<1> DEFINE s == w.service
           n == s.next
<1>1. /\ w \in [pipe : 0..MaxConnections, service : Services] /\ s \in Services
      /\ ServiceFits(s) /\ Linked(s, c, NoPipe)
  BY DEF Ends
<1>2. /\ DOMAIN s.connections \in SUBSET (1..MaxConnections)
      /\ s.connections \in [DOMAIN s.connections -> Connection] /\ NoPipe \notin DOMAIN s.connections
  BY <1>1, ConnectionsAre
<1>3. n \in 1..(MaxConnections + 1) /\ MaxConnections \in Nat /\ \A id \in DOMAIN s.connections : id < n
  BY <1>1, BoundsAssumption DEF ServiceFits
<1>4. CASE (s.up \/ starts) /\ n <= MaxConnections
  <2> DEFINE fresh == [of |-> c, commands |-> <<>>, open |-> TRUE]
             k == Put(s.connections, n, fresh)
             D == DOMAIN s.connections \union {n}
             t == [s EXCEPT !.up = TRUE, !.next = n + 1, !.connections = k]
             v == [pipe |-> n, service |-> t]
  <2>1. Connect(w, c, starts) = v
    BY <1>4 DEF Connect
  <2>2. fresh \in Connection /\ fresh.of = c /\ fresh.open
    BY DEF Connection
  <2>3. D \in SUBSET (1..MaxConnections) /\ n \notin DOMAIN s.connections
    BY <1>2, <1>3, <1>4
  <2>4. /\ k \in [D -> Connection] /\ k[n] = fresh
        /\ \A x \in DOMAIN s.connections : k[x] = s.connections[x]
    <3> HIDE DEF fresh
    <3> QED BY <1>2, <2>2, <2>3 DEF Put
  <2> HIDE DEF fresh, k, D
  <2>5. k \in UNION {[E -> Connection] : E \in SUBSET (1..MaxConnections)}
    BY <2>3, <2>4
  <2>6. /\ t \in Services /\ t.connections = k /\ t.active = s.active /\ t.next = n + 1
    <3>1. n + 1 \in Nat
      BY <1>3
    <3> QED BY <1>1, <2>5, <3>1 DEF Services
  <2>7. DOMAIN t.connections = D
    BY <2>4, <2>6
  <2> HIDE DEF t
  <2>8. n \in 0..MaxConnections
    BY <1>3, <1>4
  <2>9. ServiceFits(t)
    BY <1>3, <1>4, <2>6, <1>2, <1>1, <2>7 DEF D, ServiceFits
  <2>10. Linked(t, c, n)
    <3>1. n < t.next
      BY <1>3, <2>6
    <3>2. \A id \in D : t.connections[id].of = c /\ id # n => ~t.connections[id].open
      <4> TAKE id \in D
      <4> HAVE t.connections[id].of = c /\ id # n
      <4>1. id \in DOMAIN s.connections /\ id # NoPipe
        BY <1>2 DEF D
      <4>2. t.connections[id] = s.connections[id]
        BY <2>4, <2>6, <4>1
      <4> QED BY <1>1, <4>1, <4>2 DEF Linked
    <3> QED BY <2>2, <2>4, <2>6, <2>7, <3>1, <3>2 DEF Linked
  <2>11. n >= service.next
    BY DEF Ends
  <2>12. \A x \in DOMAIN service.connections :
           /\ x \in D /\ t.connections[x].of = service.connections[x].of
           /\ service.connections[x].of # c => t.connections[x] = service.connections[x]
    BY <2>4, <2>6 DEF Ends, D
  <2>13. \A x \in D \ DOMAIN service.connections : t.connections[x].of = c /\ x >= service.next
    BY <2>2, <2>4, <2>6, <2>11 DEF Ends, D
  <2>14. t.active = service.active /\ t.next >= service.next
    BY BoundsAssumption, <1>3, <2>6, <2>11 DEF ServiceOK, ServiceFits, Ends
  <2>15. v \in [pipe : 0..MaxConnections, service : Services] /\ v.pipe = n /\ v.service = t
    BY <2>6, <2>8
  <2> HIDE DEF v
  <2>16. v \in Ends(c)
    BY <2>7, <2>9, <2>10, <2>12, <2>13, <2>14, <2>15 DEF Ends
  <2> QED BY <2>1, <2>16
<1>5. CASE ~((s.up \/ starts) /\ n <= MaxConnections)
  BY <1>5 DEF Connect
<1> QED BY <1>4, <1>5

\* One command of a call, with the starts of the service it may need.
LEMMA TransmitKeeps ==
  ASSUME ServiceOK, NEW c \in Clients, NEW w \in Ends(c), NEW command \in Command, NEW starts
  PROVE  Transmit(w, c, command, starts) \in Ends(c) /\ Wrote(Transmit(w, c, command, starts), command)
BY WriteKeeps, ConnectionsAre, ConnectKeeps DEF Transmit, Ends, Wrote

\* All commands are written, one after the other.
LEMMA TransmittedIs ==
  ASSUME CandidateInv, NEW c \in Clients, NEW sends \in Seq(Command), NEW starts
  PROVE  /\ Transmitted(c, sends, starts) \in Ends(c)
         /\ sends = <<>> => Transmitted(c, sends, starts) = [pipe |-> client[c].pipe, service |-> service]
         /\ sends # <<>> => Wrote(Transmitted(c, sends, starts), Last(sends))
         /\ Len(sends) = 1 =>
              Transmitted(c, sends, starts) =
                Transmit([pipe |-> client[c].pipe, service |-> service], c, sends[1], starts)
<1> DEFINE n == Len(sends)
           V == Ends(c)
           start == [pipe |-> client[c].pipe, service |-> service]
           Next1(i, w) == Transmit(w, c, sends[i], starts)
           step == [i \in 1..n |-> [w \in V |-> Next1(i, w)]]
           Is(f) == f = [i \in 0..n |-> IF i = 0 THEN start ELSE Next1(i, f[i - 1])]
<1>1. n \in Nat /\ \A i \in 1..n : sends[i] \in Command
  OBVIOUS
<1>2. \A i \in 1..n : \A w \in V : Next1(i, w) \in V /\ Wrote(Next1(i, w), sends[i])
  BY <1>1, TransmitKeeps DEF CandidateInv
<1>3. start \in V
  BY Unchanged
<1>4. \E f : Follows(f, V, start, n, step)
  <2> HIDE DEF V, Next1, n, Is, start
  <2>1. step \in [1..n -> [V -> V]]
    BY <1>2
  <2> HIDE DEF step
  <2> QED BY <1>1, <1>3, <2>1, Recursion
<1>5. PICK f \in [0..n -> V] : f[0] = start /\ \A i \in 1..n : f[i] = step[i][f[i - 1]]
  <2> HIDE DEF V, Next1, n, Is, start, step
  <2> QED BY <1>4 DEF Follows
<1>6. ASSUME NEW i \in 1..n PROVE f[i] = Next1(i, f[i - 1])
  <2>1. i - 1 \in 0..n
    BY <1>1
  <2>2. f[i - 1] \in V
    BY <1>5, <2>1
  <2> HIDE DEF V, Next1, n, start
  <2>3. step[i][f[i - 1]] = Next1(i, f[i - 1])
    BY <2>2
  <2> QED BY <1>5, <2>3
<1>7. Is(f)
  <2>1. \A i \in 0..n : f[i] = IF i = 0 THEN start ELSE Next1(i, f[i - 1])
    <3> HIDE DEF V, Next1, start
    <3> QED BY <1>1, <1>5, <1>6
  <2> HIDE DEF V, Next1, start
  <2> QED BY <1>5, <2>1
<1>8. Is(Transmission(c, sends, starts))
  BY <1>7 DEF Transmission
<1>9. ASSUME NEW g, Is(g) PROVE g = f
  <2> DEFINE Good == {m \in 0..n : g[m] = f[m]}
  <2>0. g = [i \in 0..n |-> IF i = 0 THEN start ELSE Next1(i, g[i - 1])]
    BY <1>9
  <2> HIDE DEF Next1, V, Is, n, start
  <2>1. 0 \in Good
    BY <1>1, <1>5, <2>0
  <2>2. ASSUME NEW m \in 0..n, m \in Good, m # n PROVE m + 1 \in Good
    BY <1>1, <2>2, <2>0, <1>6
  <2>3. \A i \in 0..n : i \in Good
    <3> HIDE DEF Good
    <3> QED BY <1>1, <2>1, <2>2, UpTo
  <2> QED BY <1>5, <2>0, <2>3
<1>10. Transmission(c, sends, starts) = f
  <2> HIDE DEF Is
  <2> QED BY <1>8, <1>9
<1>11. Transmitted(c, sends, starts) = f[n]
  BY <1>10 DEF Transmitted
<1>12. n \in 0..n /\ f[n] \in V
  BY <1>1, <1>5
<1>13. sends = <<>> => n = 0
  OBVIOUS
<1>14. ASSUME sends # <<>> PROVE Wrote(f[n], Last(sends))
  <2>1. n \in 1..n /\ n - 1 \in 0..n /\ Last(sends) = sends[n]
    BY <1>14 DEF Last
  <2>2. f[n - 1] \in V
    BY <1>5, <2>1
  <2>3. f[n] = Next1(n, f[n - 1])
    BY <1>6, <2>1
  <2> HIDE DEF n, V, Next1
  <2> QED BY <1>2, <2>1, <2>2, <2>3
<1>15. ASSUME n = 1 PROVE f[n] = Next1(1, start)
  <2>1. 1 \in 1..n /\ 1 - 1 = 0
    BY <1>15
  <2>2. f[1] = Next1(1, f[1 - 1])
    BY <1>6, <2>1
  <2> HIDE DEF Next1
  <2> QED BY <1>5, <1>15, <2>1, <2>2
<1> HIDE DEF Is, step
<1> QED BY <1>5, <1>11, <1>12, <1>13, <1>14, <1>15

-----------------------------------------------------------------------------
(***************************************************************************)
(* The calls of a text service                                             *)
(***************************************************************************)
\* What is written for one text service is nothing to another.
LEMMA OthersStay ==
  ASSUME CandidateInv, NEW c \in Clients, NEW w \in Ends(c), NEW d \in Clients, d # c
  PROVE  /\ Linked(w.service, d, client[d].pipe)
         /\ client[d].pipe \in DOMAIN w.service.connections =>
              /\ client[d].pipe \in DOMAIN service.connections
              /\ w.service.connections[client[d].pipe] = service.connections[client[d].pipe]
<1> DEFINE p == client[d].pipe
           k == w.service.connections
<1>1. Linked(service, d, p)
  BY DEF CandidateInv, LinksOK
<1>2. p \in Int /\ service.next \in Int /\ w.service.next \in Int /\ w.service.next >= service.next
  <2>1. client[d].pipe \in 0..MaxConnections /\ MaxConnections \in Nat
    BY BoundsAssumption DEF CandidateInv, ClientsOK, ClientType
  <2>2. service.next \in 1..(MaxConnections + 1)
    BY DEF CandidateInv, ServiceOK, ServiceFits
  <2>3. w.service.next \in 1..(MaxConnections + 1) /\ w.service.next >= service.next
    BY DEF Ends, ServiceFits
  <2> QED BY <2>1, <2>2, <2>3
<1>3. DOMAIN k \in SUBSET (1..MaxConnections)
  BY ConnectionsAre DEF Ends
<1>4. \A id \in DOMAIN k : id \in Int
  BY <1>3
<1>5. \A id \in DOMAIN k : id \in DOMAIN service.connections \/ (k[id].of = c /\ id >= service.next)
  BY DEF Ends
<1>6. \A id \in DOMAIN service.connections :
        /\ id \in DOMAIN k /\ k[id].of = service.connections[id].of
        /\ service.connections[id].of # c => k[id] = service.connections[id]
  BY DEF Ends
<1>7. p < service.next
  BY <1>1 DEF Linked
<1> HIDE DEF p, k
<1>8. p \in DOMAIN k => p \in DOMAIN service.connections /\ k[p] = service.connections[p]
  BY <1>2, <1>5, <1>7, <1>1, <1>6 DEF Linked
<1>9. \A id \in DOMAIN k : k[id].of = d /\ id # p => ~k[id].open
  <2> TAKE id \in DOMAIN k
  <2> HAVE k[id].of = d /\ id # p
  <2>1. id \in DOMAIN service.connections
    BY <1>5
  <2>2. k[id] = service.connections[id]
    BY <1>6, <2>1
  <2> QED BY <1>1, <2>1, <2>2 DEF Linked
<1>10. p < w.service.next
  BY <1>2, <1>7
<1> QED BY <1>1, <1>8, <1>9, <1>10 DEF Linked, p, k

\* What is open stays locked.
LEMMA LockKept ==
  ASSUME CandidateInv, NEW c \in Clients, NEW s, Strict => Locked(s),
         client' = [client EXCEPT ![c] = s], calls' \in Use, calls'.among = calls.among
  PROVE  LockOK'
BY DEF CandidateInv, ClientsOK, Strict, LockOK, Locked

\* A call of one text service: it writes what tells of its element, or neither
\* writes nor has anything to tell.
LEMMA ClientBecomes ==
  ASSUME CandidateInv, NEW c \in Clients, NEW w \in Ends(c), NEW s, ClientOK(s), s.pipe = w.pipe,
         Strict => Locked(s),
         \/ /\ w = [pipe |-> client[c].pipe, service |-> service]
            /\ s.element = client[c].element \/ ~client[c].element.shown
         \/ \E x \in Telling(s.element) : Wrote(w, x),
         client' = [client EXCEPT ![c] = s], service' = w.service, ui' = ui,
         calls' \in Use, calls'.among = calls.among
  PROVE  CandidateInv'
<1> DEFINE e == client[c].element
<1>1. client \in [Clients -> ClientType] /\ \A d \in Clients : ClientOK(client[d])
  BY DEF CandidateInv, ClientsOK
<1>2. s \in ClientType
  BY DEF ClientOK
<1>3. /\ client' \in [Clients -> ClientType] /\ client'[c] = s
      /\ \A d \in Clients : d # c => client'[d] = client[d]
  BY <1>1, <1>2
<1>4. ClientsOK'
  BY <1>1, <1>3 DEF ClientsOK
<1>5. ServiceOK'
  BY DEF ServiceOK, Ends
<1>6. UiOK'
  BY DEF CandidateInv, UiOK
<1>7. Linked(w.service, c, w.pipe) /\ w.service.active = service.active
  BY DEF Ends
<1>8. Told(service, client[c].pipe, e)
  BY DEF CandidateInv, LinksOK
<1>9. CASE /\ w = [pipe |-> client[c].pipe, service |-> service]
           /\ s.element = e \/ ~e.shown
  <2>1. w.pipe = client[c].pipe /\ w.service = service
    BY <1>9
  <2>2. Telling(e) \subseteq Telling(s.element)
    BY <1>9 DEF Telling
  <2>3. Told(w.service, w.pipe, s.element)
    BY <1>8, <2>1, <2>2 DEF Told
  <2>4. LinksOK'
    <3> SUFFICES ASSUME NEW d \in Clients
                 PROVE  /\ Linked(service', d, client'[d].pipe)
                        /\ Told(service', client'[d].pipe, client'[d].element)
      BY DEF LinksOK
    <3>1. CASE d = c
      BY <1>3, <1>7, <2>3, <3>1
    <3>2. CASE d # c
      BY <1>3, <2>1, <3>2 DEF CandidateInv, LinksOK
    <3> QED BY <3>1, <3>2
  <2>5. SlotOK'
    BY <2>1 DEF CandidateInv, SlotOK, WillShow, WillHide
  <2>6. SeenOK'
    <3> SUFFICES ASSUME NEW d \in Clients, Caught(d)'
                 PROVE  /\ (ui.pending # <<>> => client[d].element.shown /\ ui.pending[1] = Shown(d))'
                        /\ (ui.pending = <<>> /\ ui.window.visible /\ ~WillHide =>
                             client[d].element.shown /\ ui.window = Windowed(Shown(d)))'
      BY DEF SeenOK
    <3>1. client'[d].pipe = client[d].pipe /\ service' = service
      BY <1>3, <2>1
    <3>2. Caught(d)
      BY <3>1 DEF Caught
    <3>3. /\ ui.pending # <<>> => client[d].element.shown /\ ui.pending[1] = Shown(d)
          /\ ui.pending = <<>> /\ ui.window.visible /\ ~WillHide =>
               client[d].element.shown /\ ui.window = Windowed(Shown(d))
      BY <3>2 DEF CandidateInv, SeenOK
    <3>4. client'[d].element = client[d].element \/ ~client[d].element.shown
      BY <1>3, <1>9
    <3>5. CASE ~client[d].element.shown
      BY <3>3, <3>5 DEF WillHide
    <3>6. CASE client'[d].element = client[d].element
      BY <3>6, <3>3 DEF Shown, Windowed, WillHide
    <3> QED BY <3>4, <3>5, <3>6
  <2> QED BY <1>4, <1>5, <1>6, <2>4, <2>5, <2>6, LockKept DEF CandidateInv
<1>10. CASE \E x \in Telling(s.element) : Wrote(w, x)
  <2>1. PICK x \in Telling(s.element) : Wrote(w, x)
    BY <1>10
  <2>2. LinksOK'
    <3> SUFFICES ASSUME NEW d \in Clients
                 PROVE  /\ Linked(service', d, client'[d].pipe)
                        /\ Told(service', client'[d].pipe, client'[d].element)
      BY DEF LinksOK
    <3>1. CASE d = c
      BY <1>3, <1>7, <2>1, <3>1 DEF Told, Wrote
    <3>2. CASE d # c
      BY <1>3, <3>2, OthersStay DEF CandidateInv, LinksOK, Told
    <3> QED BY <3>1, <3>2
  <2>3. SlotOK'
    BY <1>7 DEF CandidateInv, SlotOK, WillShow, WillHide
  <2>4. SeenOK'
    <3> SUFFICES ASSUME NEW d \in Clients, Caught(d)'
                 PROVE  /\ (ui.pending # <<>> => client[d].element.shown /\ ui.pending[1] = Shown(d))'
                        /\ (ui.pending = <<>> /\ ui.window.visible /\ ~WillHide =>
                             client[d].element.shown /\ ui.window = Windowed(Shown(d)))'
      BY DEF SeenOK
    <3>1. d # c
      BY <1>3, <2>1 DEF Caught, Wrote
    <3>2. client'[d] = client[d] /\ service'.active = service.active
      BY <1>3, <1>7, <3>1
    <3>3. client[d].pipe \in DOMAIN w.service.connections =>
            /\ client[d].pipe \in DOMAIN service.connections
            /\ w.service.connections[client[d].pipe] = service.connections[client[d].pipe]
      BY <3>1, OthersStay
    <3>4. Caught(d)
      BY <3>2, <3>3 DEF Caught
    <3>5. Shown(d)' = Shown(d)
      BY <3>2 DEF Shown
    <3>6. Windowed(Shown(d))' = Windowed(Shown(d))
      BY <3>5 DEF Windowed
    <3> QED BY <3>2, <3>4, <3>5, <3>6 DEF CandidateInv, SeenOK, WillHide
  <2> QED BY <1>4, <1>5, <1>6, <2>2, <2>3, <2>4, LockKept DEF CandidateInv
<1> QED BY <1>9, <1>10

\* What is kept between keys at c is as it was.
KeysStay(c, was) ==
  \E s : /\ client' = [client EXCEPT ![c] = s]
         /\ s.keys = was.keys /\ s.mode = was.mode /\ s.tested = was.tested

\* A call that is carried out and sends what it has to send.
LEMMA BecomeKeeps ==
  ASSUME CandidateInv, NEW c \in Clients, NEW st, NEW was, Handled(st, was, Strict),
         was.element = client[c].element,
         Become(c, st), ui' = ui, calls' \in Use, calls'.among = calls.among
  PROVE  CandidateInv' /\ KeysStay(c, was)
<1>1. PICK starts, w :
        /\ starts \in BOOLEAN /\ w = Transmitted(c, st.sends, starts)
        /\ client' = [client EXCEPT ![c] = [st.client EXCEPT !.pipe = w.pipe]]
        /\ service' = w.service
  BY DEF Become
<1>2. st.sends \in Seq(Command) /\ ClientOK(st.client) /\ st.client \in ClientType
  BY DEF Handled, ClientOK
<1>3. /\ w \in Ends(c)
      /\ st.sends = <<>> => w = [pipe |-> client[c].pipe, service |-> service]
      /\ st.sends # <<>> => Wrote(w, Last(st.sends))
  BY <1>1, <1>2, TransmittedIs
<1>4. w.pipe \in 0..MaxConnections
  BY <1>3 DEF Ends
<1>5. PICK s : s = [st.client EXCEPT !.pipe = w.pipe]
  OBVIOUS
<1>6. /\ s \in ClientType /\ s.element = st.client.element /\ s.begun = st.client.begun
      /\ s.tested = st.client.tested /\ s.composing = st.client.composing
      /\ s.locked = st.client.locked /\ s.pipe = w.pipe
      /\ s.keys = st.client.keys /\ s.mode = st.client.mode
  BY <1>2, <1>4, <1>5 DEF ClientType
<1>7. ClientOK(s) /\ (Strict => Locked(s))
  BY <1>2, <1>6 DEF ClientOK, Handled, Locked
<1>8. \/ /\ w = [pipe |-> client[c].pipe, service |-> service]
         /\ s.element = client[c].element \/ ~client[c].element.shown
      \/ \E x \in Telling(s.element) : Wrote(w, x)
  BY <1>3, <1>6 DEF Handled
<1>9. client' = [client EXCEPT ![c] = s]
  BY <1>1, <1>5
<1>10. KeysStay(c, was)
  BY <1>6, <1>9 DEF Handled, KeysStay
<1> QED BY <1>1, <1>3, <1>6, <1>7, <1>8, <1>9, <1>10, ClientBecomes

\* A call that changes neither the element nor the pipe, and sends nothing.
LEMMA QuietKeeps ==
  ASSUME CandidateInv, NEW c \in Clients, NEW s, ClientOK(s), Strict => Locked(s),
         s.element = client[c].element, s.pipe = client[c].pipe,
         client' = [client EXCEPT ![c] = s], service' = service, ui' = ui,
         calls' \in Use, calls'.among = calls.among
  PROVE  CandidateInv'
<1>1. PICK w : w = [pipe |-> client[c].pipe, service |-> service]
  OBVIOUS
<1>2. w \in Ends(c) /\ w.pipe = client[c].pipe /\ w.service = service
  BY <1>1, Unchanged
<1> QED BY <1>1, <1>2, ClientBecomes

\* A call of a text service is one that is used, and uses up one.
LEMMA Counted ==
  ASSUME CandidateInv, NEW operation, Call(operation)
  PROVE  calls' \in Use /\ calls'.among = calls.among /\ operation \in calls.among
<1>1. calls \in Use /\ calls.left \in Nat /\ calls.left > 0
  BY DEF CandidateInv, LockOK, Use, Call
<1>2. PICK n \in Nat : n = calls.left - 1
  BY <1>1
<1>3. calls' = [calls EXCEPT !.left = n]
  BY <1>2 DEF Call
<1> QED BY <1>1, <1>3 DEF Use, Call

\* What the invariant says of one text service.
LEMMA ClientIs ==
  ASSUME CandidateInv, NEW c \in Clients
  PROVE  /\ ClientOK(client[c]) /\ client[c] \in ClientType /\ ElementOK(client[c].element)
         /\ client[c].element \in ElementType /\ client[c].keys \in KeyStates
         /\ Strict => Locked(client[c])
         /\ Handled(Now(c), client[c], Strict) /\ Now(c).client = client[c]
BY NothingYet DEF CandidateInv, ClientsOK, LockOK, Locked, Now, Strict, ClientOK, ElementOK,
   ClientType, KeyStates

\* Keys.
LEMMA DecideIs ==
  ASSUME NEW s, NEW press, NEW behind, NEW complete
  PROVE  /\ Decide(s, press, behind, complete) \in Actions
         /\ Decide(s, press, behind, complete) = "escape" => ~(s.composing /\ s.element.shown)
         /\ Decide(s, press, behind, complete) = "shiftDown" => press.key = "shift"
<1> DEFINE context == Context(s, press, s.element.shown, behind, complete)
<1>1. /\ context.composing = s.composing /\ context.open = s.element.shown
      /\ context.takes <=> s.element.shown /\ press.key \in ListKeys
  BY DEF Context
<1>2. Decide(s, press, behind, complete) = Route(press, context)
  BY DEF Decide
<1> HIDE DEF context
<1>3. "escape" \in ListKeys
  BY DEF ListKeys
<1> QED BY <1>1, <1>2, <1>3, Routed

LEMMA TestKeyKeeps ==
  ASSUME CandidateInv, NEW c \in Clients, NEW key, NEW behind, NEW complete,
         TestKey(c, key, behind, complete)
  PROVE  /\ CandidateInv'
         /\ \E was :
              /\ KeysStay(c, was) /\ was.mode = client[c].mode
              /\ was.keys = ModeChanged(Observe(client[c].keys, Press(key)), client[c].mode)
              /\ was.tested.key = key /\ was.tested.repeated = Press(key).repeated
              /\ was.tested.action = "shiftDown" => key = "shift"
<1>1. ClientOK(client[c]) /\ client[c] \in ClientType /\ client[c].keys \in KeyStates
  BY ClientIs
<1>2. PICK keys \in KeyStates : keys = ModeChanged(Observe(client[c].keys, Press(key)), client[c].mode)
  BY <1>1, Observed, ModeWasChanged
<1>3. PICK action : action = Decide([client[c] EXCEPT !.keys = keys], Press(key), behind, complete)
  OBVIOUS
<1>4. PICK repeated \in BOOLEAN : repeated = IF key \in keyboard.held THEN TRUE ELSE FALSE
  OBVIOUS
<1>14. Press(key).repeated = repeated
  <2>1. Press(key).repeated = (key \in keyboard.held)
    BY DEF Press
  <2>2. CASE key \in keyboard.held
    BY <1>4, <2>1, <2>2
  <2>3. CASE key \notin keyboard.held
    <3>1. (key \in keyboard.held) = FALSE
      BY <2>3
    <3>2. repeated = FALSE
      BY <1>4, <2>3
    <3> QED BY <2>1, <3>1, <3>2
  <2> QED BY <2>2, <2>3
<1> DEFINE tested == [key |-> key, repeated |-> repeated, action |-> action]
<1>5. PICK s : s = [client[c] EXCEPT !.keys = keys, !.tested = tested]
  OBVIOUS
<1>6. client' = [client EXCEPT ![c] = s] /\ service' = service /\ ui' = ui
  BY <1>2, <1>3, <1>14, <1>1, <1>5 DEF TestKey, CandidateInv, ClientsOK
<1>7. key \in AllKeys
  BY DEF TestKey, CandidateInv, LockOK, Use
<1>8. /\ action \in Actions
      /\ action = "escape" => ~(client[c].composing /\ client[c].element.shown)
      /\ action = "shiftDown" => key = "shift"
  <2>1. PICK t : t = [client[c] EXCEPT !.keys = keys]
    OBVIOUS
  <2>2. t.composing = client[c].composing /\ t.element = client[c].element
    BY <1>1, <2>1 DEF ClientType
  <2>3. Press(key).key = key
    BY DEF Press
  <2>4. /\ Decide(t, Press(key), behind, complete) \in Actions
        /\ Decide(t, Press(key), behind, complete) = "escape" => ~(t.composing /\ t.element.shown)
        /\ Decide(t, Press(key), behind, complete) = "shiftDown" => Press(key).key = "shift"
    BY DecideIs
  <2> QED BY <1>3, <2>1, <2>2, <2>3, <2>4
<1>9. /\ tested \in [key : AllKeys, repeated : BOOLEAN, action : Actions]
      /\ tested \in [key : AllKeys \union {""}, repeated : BOOLEAN, action : Actions \union {""}]
      /\ tested.action = "escape" => action = "escape"
      /\ tested.action = "shiftDown" => tested.key = "shift"
      /\ tested.key = key /\ tested.repeated = repeated
  BY <1>7, <1>8
<1> HIDE DEF tested
<1>10. /\ s \in ClientType /\ s.element = client[c].element /\ s.begun = client[c].begun
       /\ s.tested = tested /\ s.composing = client[c].composing /\ s.locked = client[c].locked
       /\ s.pipe = client[c].pipe /\ s.keys = keys /\ s.mode = client[c].mode
  BY <1>1, <1>5, <1>9 DEF ClientType, KeyStates
<1>11. ClientOK(s)
  BY <1>1, <1>9, <1>10 DEF ClientOK
<1>12. Strict => Locked(s)
  BY <1>8, <1>9, <1>10, ClientIs DEF Locked
<1>13. calls' \in Use /\ calls'.among = calls.among
  BY Counted DEF TestKey
<1>15. CandidateInv'
  BY <1>6, <1>10, <1>11, <1>12, <1>13, QuietKeeps
<1>16. KeysStay(c, s)
  BY <1>6 DEF KeysStay
<1> QED BY <1>2, <1>9, <1>10, <1>14, <1>15, <1>16

\* What handling a key makes of what is kept.
Handles(s, press, action) ==
  [s EXCEPT !.tested = Untested, !.keys = KeyHandled(@, press, action)]

\* A context that takes no input: what was decided is forgotten, and nothing else.
LEMMA DeclineKeeps ==
  ASSUME CandidateInv, NEW c \in Clients,
         (\E key : DeclineKey(c, key)) \/ DeclineTested(c)
  PROVE  /\ CandidateInv'
         /\ \E was : /\ KeysStay(c, was) /\ was.keys = client[c].keys
                     /\ was.mode = client[c].mode /\ was.tested = Untested
<1>1. /\ ClientOK(client[c]) /\ client[c] \in ClientType
      /\ (Strict => Locked(client[c]))
  BY ClientIs
<1>2. /\ client' = [client EXCEPT ![c].tested = Untested] /\ service' = service /\ ui' = ui
      /\ calls' \in Use /\ calls'.among = calls.among
  BY Counted DEF DeclineKey, DeclineTested, Declines, CandidateInv, LockOK
<1>3. PICK s : s = [client[c] EXCEPT !.tested = Untested]
  OBVIOUS
<1>4. /\ s \in ClientType /\ s.element = client[c].element /\ s.begun = client[c].begun
      /\ s.tested = Untested /\ s.composing = client[c].composing
      /\ s.locked = client[c].locked /\ s.pipe = client[c].pipe
      /\ s.keys = client[c].keys /\ s.mode = client[c].mode
  BY <1>1, <1>3 DEF ClientType, Untested
<1>5. ClientOK(s) /\ (Strict => Locked(s))
  <2>1. Untested.action # "shiftDown" /\ Untested.action # "escape"
    BY DEF Untested
  <2> QED BY <1>1, <1>4, <2>1 DEF ClientOK, Locked
<1>6. client' = [client EXCEPT ![c] = s]
  BY <1>2, <1>3 DEF CandidateInv, ClientsOK
<1>7. KeysStay(c, s)
  BY <1>6 DEF KeysStay
<1> QED BY <1>2, <1>4, <1>5, <1>6, <1>7, QuietKeeps

LEMMA HandleKeyKeeps ==
  ASSUME CandidateInv, NEW c \in Clients, NEW press, NEW action \in Actions, NEW complete,
         Strict /\ action = "escape" => ~client[c].element.shown,
         HandleKey(c, press, action, complete), ui' = ui, calls' \in Use, calls'.among = calls.among
  PROVE  CandidateInv' /\ KeysStay(c, Handles(client[c], press, action))
<1>1. ClientOK(client[c]) /\ client[c] \in ClientType /\ client[c].keys \in KeyStates
      /\ (Strict => Locked(client[c]))
  BY ClientIs
<1>2. PICK keys \in KeyStates : keys = KeyHandled(client[c].keys, press, action)
  BY <1>1, KeyWasHandled
<1>3. PICK s : s = [client[c] EXCEPT !.tested = Untested, !.keys = keys]
  OBVIOUS
<1>4. Untested \in [key : AllKeys \union {""}, repeated : BOOLEAN, action : Actions \union {""}] /\ Untested.action = ""
  BY DEF Untested
<1>5. /\ s \in ClientType /\ s.element = client[c].element /\ s.begun = client[c].begun
      /\ s.tested = Untested /\ s.composing = client[c].composing /\ s.locked = client[c].locked
  BY <1>1, <1>3, <1>4 DEF ClientType, KeyStates
<1>6. ClientOK(s) /\ (Strict => Locked(s))
  BY <1>1, <1>4, <1>5 DEF ClientOK, Locked
<1>7. PICK st : st = [client |-> s, sends |-> <<>>]
  OBVIOUS
<1>8. Handled(st, s, Strict) /\ st.client = s /\ s = Handles(client[c], press, action)
  BY <1>2, <1>3, <1>5, <1>6, <1>7, NothingYet DEF Strict, Handles
<1>9. PICK after : /\ after \in IF action = "candidates" THEN PerformCandidateKey(st, press, complete)
                                ELSE Perform(st, press, action)
                   /\ Become(c, AfterKey(after))
  BY <1>2, <1>3, <1>7 DEF HandleKey
<1>10. calls \in Use
  BY DEF CandidateInv, LockOK
<1>11. CASE action = "candidates"
  BY <1>5, <1>8, <1>9, <1>10, <1>11, PerformCandidateKeyKeeps, AfterKeyKeeps, BecomeKeeps
<1>12. CASE action # "candidates"
  BY <1>12, <1>5, <1>8, <1>9, <1>10, PerformKeeps, AfterKeyKeeps, BecomeKeeps
<1> QED BY <1>11, <1>12

LEMMA TestedKeyKeeps ==
  ASSUME CandidateInv, NEW c \in Clients, TestedKey(c)
  PROVE  /\ CandidateInv'
         /\ \E press : /\ press.key = client[c].tested.key
                       /\ press.repeated = client[c].tested.repeated
                       /\ press.held = keyboard.held
                       /\ KeysStay(c, Handles(client[c], press, client[c].tested.action))
<1>1. PICK press, complete :
        /\ HandleKey(c, press, client[c].tested.action, complete)
        /\ press = [key |-> client[c].tested.key, held |-> keyboard.held,
                    repeated |-> client[c].tested.repeated]
  BY DEF TestedKey
<1>2. client[c].tested.action \in Actions
  BY ClientIs DEF ClientOK, TestedKey
<1>3. Strict /\ client[c].tested.action = "escape" => ~client[c].element.shown
  BY ClientIs DEF Locked
<1>4. ui' = ui /\ calls' = calls
  BY DEF TestedKey
<1>5. calls' \in Use /\ calls'.among = calls.among
  BY <1>4 DEF CandidateInv, LockOK
<1> QED BY <1>1, <1>2, <1>3, <1>4, <1>5, HandleKeyKeeps

LEMMA DirectKeyKeeps ==
  ASSUME CandidateInv, NEW c \in Clients, NEW key, NEW behind, NEW complete,
         DirectKey(c, key, behind, complete)
  PROVE  /\ CandidateInv'
         /\ \E action : /\ action = "shiftDown" => key = "shift"
                        /\ KeysStay(c, Handles(client[c], Press(key), action))
<1>1. PICK t : t = [client[c] EXCEPT !.keys = ModeChanged(client[c].keys, client[c].mode)]
  OBVIOUS
<1>2. PICK decided : decided = Decide(t, Press(key), behind, complete)
  OBVIOUS
<1>8. PICK action : action =
        IF client[c].tested # Untested /\ client[c].tested.key = key THEN client[c].tested.action
        ELSE decided
  OBVIOUS
<1>3. HandleKey(c, Press(key), action, complete)
  BY <1>1, <1>2, <1>8 DEF DirectKey
<1>4. t.composing = client[c].composing /\ t.element = client[c].element
  BY <1>1, ClientIs DEF ClientType
<1>9. /\ decided \in Actions
      /\ decided = "escape" => ~(client[c].composing /\ client[c].element.shown)
      /\ decided = "shiftDown" => key = "shift"
  BY <1>2, <1>4, DecideIs DEF Press
<1>5. action \in Actions
  <2>1. client[c].tested # Untested => client[c].tested.action \in Actions
    BY ClientIs DEF ClientOK
  <2> QED BY <1>8, <1>9, <2>1
<1>6. Strict /\ action = "escape" => ~client[c].element.shown
  BY <1>8, <1>9, ClientIs DEF Locked
<1>10. action = "shiftDown" => key = "shift"
  BY <1>8, <1>9, ClientIs DEF ClientOK
<1>7. ui' = ui /\ calls' \in Use /\ calls'.among = calls.among
  BY Counted DEF DirectKey
<1> QED BY <1>3, <1>5, <1>6, <1>7, <1>10, HandleKeyKeeps

\* The mode is switched by a tap of Shift.
LEMMA ReleaseKeyKeeps ==
  ASSUME CandidateInv, NEW c \in Clients, NEW key, ReleaseKey(c, key)
  PROVE  /\ CandidateInv'
         /\ \E was :
              /\ KeysStay(c, was) /\ was.tested = client[c].tested
              /\ was.keys.alone => client[c].keys.alone
              /\ was.mode # client[c].mode => client[c].keys.alone
<1>1. /\ ClientOK(client[c]) /\ client[c] \in ClientType /\ client[c].keys \in KeyStates
      /\ (Strict => Locked(client[c]))
  BY ClientIs
<1>2. PICK b \in BOOLEAN : b = (client[c].keys.alone /\ key # "shift")
  OBVIOUS
<1>3. PICK keys \in KeyStates : keys = [client[c].keys EXCEPT !.alone = b]
  BY <1>1 DEF KeyStates
<1>4. PICK other \in {"chinese", "english"} :
        other = IF client[c].mode = "chinese" THEN "english" ELSE "chinese"
  OBVIOUS
<1> DEFINE tap == key = "shift" /\ client[c].keys.alone
<1>5. PICK kept \in KeyStates : kept = IF tap THEN ModeChanged(keys, other) ELSE keys
  BY ModeWasChanged
<1>6. PICK mode \in {"chinese", "english"} : mode = IF tap THEN other ELSE client[c].mode
  BY <1>1 DEF ClientType
<1>7. PICK s : s = [client[c] EXCEPT !.keys = kept, !.mode = mode]
  OBVIOUS
<1>8. PICK st : st = [client |-> s, sends |-> <<>>]
  OBVIOUS
<1>9. st = [client |-> [client[c] EXCEPT !.keys = IF tap THEN ModeChanged(keys, other) ELSE keys,
                                         !.mode = IF tap THEN other ELSE @],
            sends |-> <<>>]
  BY <1>5, <1>6, <1>7, <1>8
<1>10. /\ s \in ClientType /\ s.element = client[c].element /\ s.begun = client[c].begun
       /\ s.tested = client[c].tested /\ s.composing = client[c].composing
       /\ s.locked = client[c].locked /\ s.keys = kept /\ s.mode = mode
  BY <1>1, <1>7 DEF ClientType, KeyStates
<1>11. ClientOK(s) /\ (Strict => Locked(s))
  BY <1>1, <1>10 DEF ClientOK, Locked
<1>12. Handled(st, s, Strict)
  BY <1>8, <1>10, <1>11, NothingYet DEF Strict
<1>13. \E after \in IF tap /\ client[c].composing /\ other = "english" THEN MayEnd(Dismiss(st)) ELSE {st} :
         Become(c, after)
  BY <1>2, <1>3, <1>4, <1>9 DEF ReleaseKey
<1>14. PICK after : /\ after \in MayEnd(Dismiss(st)) \/ after = st
                    /\ Become(c, after)
  BY <1>13
<1>15. Handled(after, s, Strict)
  BY <1>12, <1>14, DismissKeeps, MayEndKeeps
<1>16. ui' = ui /\ calls' \in Use /\ calls'.among = calls.among
  BY Counted DEF ReleaseKey
<1>17. CandidateInv' /\ KeysStay(c, s)
  BY <1>10, <1>14, <1>15, <1>16, BecomeKeeps
<1>18. s.keys.alone => client[c].keys.alone
  BY <1>1, <1>3, <1>2, <1>5, <1>10 DEF KeyStates, ModeChanged
<1>19. s.mode # client[c].mode => client[c].keys.alone
  BY <1>6, <1>10
<1> QED BY <1>10, <1>17, <1>18, <1>19

\* The host's calls: it has an element that was begun, which has candidates.
LEMMA Begun ==
  ASSUME CandidateInv, NEW c \in Clients, client[c].begun
  PROVE  client[c].element.placed /\ client[c].element.size > 0
BY ClientIs DEF ClientOK

LEMMA SameKeeps ==
  ASSUME CandidateInv, NEW c \in Clients, client[c].begun, NEW f, ElementOK(f), Same(client[c].element, f)
  PROVE  Handled(Changed(Now(c), f), client[c], Strict)
<1>1. PICK st : st = Now(c)
  OBVIOUS
<1>2. Handled(st, client[c], Strict) /\ st.client = client[c] /\ (Strict => Locked(client[c]))
  BY <1>1, ClientIs
<1>3. f.size > 0 /\ f.placed /\ f.shown = client[c].element.shown
  BY Begun DEF Same
<1>4. Handled(Changed(st, f), client[c], Strict)
  BY <1>2, <1>3, ChangedKeeps DEF Locked
<1> QED BY <1>1, <1>4

LEMMA HostSelectsKeeps ==
  ASSUME CandidateInv, NEW c \in Clients, HostSelects(c)
  PROVE  CandidateInv' /\ KeysStay(c, client[c])
<1>1. PICK index \in 0..(client[c].element.size - 1) :
        Become(c, Changed(Now(c), Select(client[c].element, index)))
  BY DEF HostSelects
<1>2. Handled(Changed(Now(c), Select(client[c].element, index)), client[c], Strict)
  BY <1>1, ClientIs, SelectKeeps, SameKeeps DEF HostSelects
<1>3. ui' = ui /\ calls' \in Use /\ calls'.among = calls.among
  BY Counted DEF HostSelects
<1> QED BY <1>1, <1>2, <1>3, BecomeKeeps

LEMMA HostTurnsKeeps ==
  ASSUME CandidateInv, NEW c \in Clients, HostTurns(c)
  PROVE  CandidateInv' /\ KeysStay(c, client[c])
<1>1. PICK index \in 0..(client[c].element.size - 1) :
        Become(c, Changed(Now(c), OnPage(client[c].element, index \div PageSize)))
  BY DEF HostTurns
<1>2. ElementOK(client[c].element) /\ client[c].element.size \in Nat
  BY ClientIs DEF ElementType
<1>3. index \in Nat /\ index < client[c].element.size
  BY <1>1, <1>2
<1>4. PICK p \in Nat : p = index \div PageSize
  BY <1>3, PageOf
<1>5. PageBegin(p) <= index /\ PageBegin(p) \in Nat
  BY <1>3, <1>4, PageOf, BeginIsPositive
<1>6. HasPage(client[c].element, p)
  BY <1>2, <1>3, <1>5, PageIsThere
<1>7. Handled(Changed(Now(c), OnPage(client[c].element, p)), client[c], Strict)
  BY <1>2, <1>6, OnPageKeeps, SameKeeps DEF HostTurns
<1>8. ui' = ui /\ calls' \in Use /\ calls'.among = calls.among
  BY Counted DEF HostTurns
<1> QED BY <1>1, <1>4, <1>7, <1>8, BecomeKeeps

LEMMA HostFinishesKeeps ==
  ASSUME CandidateInv, NEW c \in Clients, HostFinishes(c)
  PROVE  CandidateInv' /\ KeysStay(c, client[c])
BY ClientIs, FinalizeKeeps, AbortKeeps, Counted, BecomeKeeps DEF HostFinishes

LEMMA HostShowsKeeps ==
  ASSUME CandidateInv, NEW c \in Clients, HostShows(c)
  PROVE  CandidateInv' /\ KeysStay(c, client[c])
<1>1. ui' = ui /\ calls' \in Use /\ calls'.among = calls.among /\ "show" \in calls.among /\ client[c].begun
  BY Counted DEF HostShows
<1>2. ~Strict
  BY <1>1 DEF Strict
<1>3. PICK st : st = Now(c)
  OBVIOUS
<1>4. /\ Handled(st, client[c], Strict) /\ st.client = client[c]
      /\ client[c] \in ClientType /\ client[c].element \in ElementType
      /\ ClientOK(client[c]) /\ ElementOK(client[c].element)
  BY <1>3, ClientIs
<1>5. CASE Become(c, ShowElement(Now(c)))
  BY <1>1, <1>2, <1>4, Begun, ShowElementKeeps, <1>3, <1>5, BecomeKeeps
<1>6. CASE Become(c, Abort([Now(c) EXCEPT !.client.element.shown = FALSE]))
  <2>1. PICK f : f = [client[c].element EXCEPT !.shown = FALSE]
    OBVIOUS
  <2>2. /\ f \in ElementType /\ f.size = client[c].element.size /\ f.placed = client[c].element.placed
        /\ f.selection = client[c].element.selection /\ f.page = client[c].element.page /\ ~f.shown
    BY <1>4, <2>1 DEF ElementType
  <2>3. ElementOK(f)
    BY <1>4, <2>2 DEF ElementOK, Placed, HasPage, PageCount
  <2>4. PICK s : s = [client[c] EXCEPT !.element = f]
    OBVIOUS
  <2>5. s \in ClientType /\ s.element = f /\ s.begun = client[c].begun /\ s.tested = client[c].tested
        /\ s.keys = client[c].keys /\ s.mode = client[c].mode
    BY <1>4, <2>2, <2>4 DEF ClientType
  <2>6. ClientOK(s)
    BY <1>4, <2>2, <2>3, <2>5 DEF ClientOK
  <2>7. [Now(c) EXCEPT !.client.element.shown = FALSE] = [st EXCEPT !.client = s]
    BY <1>3, <2>1, <2>4 DEF Now
  <2>8. Handled(Sending([st EXCEPT !.client = s], <<HideCommand>>), client[c], Strict)
    <3>1. st = [client |-> st.client, sends |-> st.sends] /\ st.sends \in Seq(Command)
      BY <1>4 DEF Handled
    <3>2. ~s.element.shown
      BY <2>2, <2>5
    <3> QED BY <2>5, <2>6, <3>1, <3>2, HiddenKeeps
  <2>9. Become(c, Sending([st EXCEPT !.client = s], <<HideCommand>>))
    BY <1>6, <2>7 DEF Abort
  <2> QED BY <1>1, <2>8, <2>9, BecomeKeeps
<1> QED BY <1>5, <1>6 DEF HostShows

LEMMA TerminateKeeps ==
  ASSUME CandidateInv, NEW c \in Clients, Terminate(c)
  PROVE  CandidateInv' /\ KeysStay(c, client[c])
BY ClientIs, DismissKeeps, EndedKeeps, Counted, BecomeKeeps DEF Terminate

LEMMA GrantEditKeeps ==
  ASSUME CandidateInv, NEW c \in Clients, GrantEdit(c)
  PROVE  CandidateInv' /\ KeysStay(c, client[c])
BY ClientIs, DismissKeeps, Counted, BecomeKeeps DEF GrantEdit

\* A text service that leaves: its pipe ends when all in it was read.
LEMMA NewClientIs ==
  ClientOK(NewClient) /\ NewClient.pipe = NoPipe /\ ~NewClient.element.shown
<1>1. NewElement \in ElementType /\ ~NewElement.shown /\ NewElement.size = 0
  BY BoundsAssumption DEF NewElement, NoList, ElementType
<1>2. ElementOK(NewElement)
  BY <1>1 DEF ElementOK
<1>3. NoPipe \in 0..MaxConnections
  BY BoundsAssumption DEF NoPipe
<1>4. [alone |-> FALSE, prefix |-> FALSE] \in [alone : BOOLEAN, prefix : BOOLEAN]
  OBVIOUS
<1>5. Untested \in [key : AllKeys \union {""}, repeated : BOOLEAN, action : Actions \union {""}]
  BY DEF Untested
<1> HIDE DEF NewElement, Untested, NoPipe
<1>6. NewClient \in ClientType
  BY <1>1, <1>3, <1>4, <1>5 DEF NewClient, NewKeyState, ClientType
<1>7. /\ NewClient.element = NewElement /\ ~NewClient.begun /\ NewClient.tested = Untested
      /\ NewClient.pipe = NoPipe /\ Untested.action # "shiftDown"
  BY DEF NewClient, Untested
<1> QED BY <1>1, <1>2, <1>6, <1>7 DEF ClientOK

LEMMA ClosedKeeps ==
  ASSUME CandidateInv, NEW c \in Clients, NEW w \in Ends(c), w.pipe \in {client[c].pipe, NoPipe}
  PROVE  [pipe |-> NoPipe, service |-> Closed(w.service, client[c].pipe)] \in Ends(c)
<1> DEFINE s == w.service
           p == client[c].pipe
           t == Closed(s, p)
           v == [pipe |-> NoPipe, service |-> t]
<1>1. /\ s \in Services /\ ServiceFits(s) /\ Linked(s, c, w.pipe)
      /\ Linked(service, c, p)
  BY DEF Ends, CandidateInv, LinksOK
<1>2. /\ DOMAIN s.connections \in SUBSET (1..MaxConnections)
      /\ s.connections \in [DOMAIN s.connections -> Connection] /\ NoPipe \notin DOMAIN s.connections
  BY <1>1, ConnectionsAre
<1>3. NoPipe \in 0..MaxConnections /\ NoPipe < s.next
  BY <1>1, BoundsAssumption DEF ServiceFits, NoPipe
<1>5. CASE p \in DOMAIN s.connections
  <2> DEFINE old == s.connections[p]
             k == [s.connections EXCEPT ![p] = [old EXCEPT !.open = FALSE]]
  <2>1. PICK new \in Connection : new = [old EXCEPT !.open = FALSE] /\ new.of = old.of /\ ~new.open
    <3>1. PICK x \in Connection : x = old
      BY <1>2, <1>5
    <3>2. [x EXCEPT !.open = FALSE] \in Connection
      BY DEF Connection
    <3>3. [x EXCEPT !.open = FALSE].of = x.of /\ ~[x EXCEPT !.open = FALSE].open
      BY DEF Connection
    <3> QED BY <3>1, <3>2, <3>3
  <2>2. /\ k \in [DOMAIN s.connections -> Connection] /\ k[p] = new
        /\ \A x \in DOMAIN s.connections : x # p => k[x] = s.connections[x]
    BY <1>2, <1>5, <2>1
  <2>3. t = [s EXCEPT !.connections = k]
    BY <1>1, <1>5 DEF Closed
  <2>4. old.of = c
    BY <1>1, <1>5 DEF Linked, Ends
  <2> HIDE DEF k, t
  <2>5. /\ t \in Services /\ t.connections = k /\ DOMAIN t.connections = DOMAIN s.connections
        /\ t.active = s.active /\ t.next = s.next
    BY <1>1, <1>2, <2>2, <2>3, Reconnected
  <2>6. ServiceFits(t)
    BY <1>1, <2>5 DEF ServiceFits
  <2>7. Linked(t, c, NoPipe)
    <3>1. \A id \in DOMAIN s.connections : k[id].of = c => ~k[id].open
      <4> TAKE id \in DOMAIN s.connections
      <4> HAVE k[id].of = c
      <4>1. CASE id = p
        BY <2>1, <2>2, <4>1
      <4>2. CASE id # p
        BY <2>2, <4>2, <1>2, <1>1 DEF Linked
      <4> QED BY <4>1, <4>2
    <3> QED BY <1>2, <1>3, <2>5, <3>1 DEF Linked
  <2>8. \A x \in DOMAIN service.connections :
          /\ x \in DOMAIN t.connections /\ t.connections[x].of = service.connections[x].of
          /\ service.connections[x].of # c => t.connections[x] = service.connections[x]
    <3> TAKE x \in DOMAIN service.connections
    <3>1. /\ x \in DOMAIN s.connections /\ s.connections[x].of = service.connections[x].of
          /\ service.connections[x].of # c => s.connections[x] = service.connections[x]
      BY DEF Ends
    <3>2. CASE x = p
      BY <2>1, <2>2, <2>4, <2>5, <3>1, <3>2
    <3>3. CASE x # p
      BY <2>2, <2>5, <3>1, <3>3
    <3> QED BY <3>2, <3>3
  <2>9. \A x \in DOMAIN t.connections \ DOMAIN service.connections :
          t.connections[x].of = c /\ x >= service.next
    <3> TAKE x \in DOMAIN t.connections \ DOMAIN service.connections
    <3>1. x \in DOMAIN s.connections /\ s.connections[x].of = c /\ x >= service.next
      BY <2>5 DEF Ends
    <3>2. CASE x = p
      BY <2>1, <2>2, <2>4, <2>5, <3>1, <3>2
    <3>3. CASE x # p
      BY <2>2, <2>5, <3>1, <3>3
    <3> QED BY <3>2, <3>3
  <2>10. t.active = service.active /\ t.next >= service.next
    BY <2>5 DEF Ends
  <2>11. v \in [pipe : 0..MaxConnections, service : Services] /\ v.pipe = NoPipe /\ v.service = t
    BY <1>3, <2>5
  <2> HIDE DEF v
  <2>12. v \in Ends(c)
    BY <2>6, <2>7, <2>8, <2>9, <2>10, <2>11 DEF Ends
  <2> QED BY <2>12 DEF v, t
<1>6. CASE p \notin DOMAIN s.connections
  <2>1. t = s
    BY <1>6 DEF Closed
  <2>2. Linked(s, c, NoPipe)
    BY <1>1, <1>2, <1>3, <1>6 DEF Linked
  <2> HIDE DEF t
  <2>3. v \in [pipe : 0..MaxConnections, service : Services] /\ v.pipe = NoPipe /\ v.service = s
    BY <1>1, <1>3, <2>1
  <2> HIDE DEF v
  <2>4. v \in Ends(c)
    BY <2>2, <2>3 DEF Ends
  <2> QED BY <2>4 DEF v, t
<1> QED BY <1>5, <1>6

LEMMA LeaveKeeps ==
  ASSUME CandidateInv, NEW c \in Clients, Leave(c)
  PROVE  CandidateInv'
<1>1. PICK sends \in {<<HideCommand>>, <<>>} :
        service' = Closed(Transmitted(c, sends, FALSE).service, client[c].pipe)
  BY DEF Leave
<1>2. sends \in Seq(Command)
  <2>1. <<HideCommand>> \in Seq(Command)
    BY HideIsCommand
  <2>2. <<>> \in Seq(Command)
    OBVIOUS
  <2> QED BY <2>1, <2>2
<1>3. PICK w : w = Transmitted(c, sends, FALSE)
  OBVIOUS
<1>4. w \in Ends(c)
  BY <1>2, <1>3, TransmittedIs
<1>5. PICK start : start = [pipe |-> client[c].pipe, service |-> service]
  OBVIOUS
<1>6. w.pipe \in {client[c].pipe, NoPipe}
  <2>1. CASE sends = <<>>
    <3>1. sends = <<>> => w = start
      BY <1>2, <1>3, <1>5, TransmittedIs
    <3>2. w = start
      BY <2>1, <3>1
    <3> QED BY <1>5, <3>2
  <2>2. CASE sends = <<HideCommand>>
    <3>1. Len(sends) = 1 /\ sends[1] = HideCommand
      BY <2>2
    <3>2. w = Transmit(start, c, HideCommand, FALSE)
      BY <1>2, <1>3, <1>5, <3>1, TransmittedIs
    <3>3. w = start \/ w = Write(start, HideCommand)
      BY <1>5, <3>2 DEF Transmit, HideCommand
    <3>4. Write(start, HideCommand).pipe \in {client[c].pipe, NoPipe}
      BY <1>5 DEF Write
    <3> QED BY <1>5, <3>3, <3>4
  <2> QED BY <2>1, <2>2
<1>7. PICK v : v = [pipe |-> NoPipe, service |-> Closed(w.service, client[c].pipe)]
  OBVIOUS
<1>8. v \in Ends(c) /\ v.pipe = NoPipe /\ service' = v.service
  BY <1>1, <1>3, <1>4, <1>6, <1>7, ClosedKeeps
<1>9. PICK s : s = NewClient
  OBVIOUS
<1>10. ClientOK(s) /\ s.pipe = v.pipe /\ Locked(s)
  BY <1>8, <1>9, NewClientIs DEF Locked
<1>11. Wrote(v, HideCommand) /\ HideCommand \in Telling(s.element)
  BY <1>8, ConnectionsAre DEF Wrote, Telling, Ends
<1>12. client' = [client EXCEPT ![c] = s] /\ ui' = ui /\ calls' \in Use /\ calls'.among = calls.among
  BY <1>9, Counted DEF Leave
<1> QED BY <1>8, <1>10, <1>11, <1>12, ClientBecomes

-----------------------------------------------------------------------------
(***************************************************************************)
(* The service and its UI thread                                           *)
(***************************************************************************)
\* A step of the service or of its UI thread.
LEMMA ServiceMoves ==
  ASSUME CandidateInv, client' = client, calls' \in Use, calls'.among = calls.among,
         ServiceFits(service'), UiOK', LinksOK', SlotOK', SeenOK'
  PROVE  CandidateInv'
BY DEF CandidateInv, ClientsOK, LockOK, Strict, ServiceOK

\* The first command of a connection is taken.
Taken(id) == [service EXCEPT !.connections[id].commands = Tail(@)]

LEMMA TakenIs ==
  ASSUME CandidateInv, NEW id \in DOMAIN service.connections, service.connections[id].commands # <<>>
  PROVE  /\ ServiceFits(Taken(id)) /\ Taken(id).active = service.active
         /\ DOMAIN Taken(id).connections = DOMAIN service.connections
         /\ Taken(id).connections[id].commands = Tail(service.connections[id].commands)
         /\ \A x \in DOMAIN service.connections :
              x # id => Taken(id).connections[x] = service.connections[x]
         /\ \A c \in Clients : /\ Linked(Taken(id), c, client[c].pipe)
                               /\ Told(Taken(id), client[c].pipe, client[c].element)
<1>1. /\ service \in Services /\ ServiceFits(service)
      /\ DOMAIN service.connections \in SUBSET (1..MaxConnections)
      /\ service.connections \in [DOMAIN service.connections -> Connection]
  BY ConnectionsAre DEF CandidateInv, ServiceOK, ServiceFits
<1> DEFINE old == service.connections[id]
           k == [service.connections EXCEPT ![id] = [old EXCEPT !.commands = Tail(@)]]
           t == Taken(id)
<1>2. PICK q \in Seq(Command) : q = old.commands
  BY <1>1 DEF Connection
<1>3. q # <<>> /\ Tail(q) \in Seq(Command)
  BY <1>2
<1>4. PICK new \in Connection :
        /\ new = [old EXCEPT !.commands = Tail(@)]
        /\ new.of = old.of /\ new.open = old.open /\ new.commands = Tail(q)
  <2>1. PICK p \in Connection : p = old
    BY <1>1
  <2>2. PICK r \in Seq(Command) : r = Tail(q)
    BY <1>3
  <2> DEFINE x == [p EXCEPT !.commands = r]
  <2>3. x \in Connection /\ x.of = p.of /\ x.open = p.open /\ x.commands = r
    BY DEF Connection
  <2>4. x = [old EXCEPT !.commands = Tail(@)]
    BY <1>2, <2>1, <2>2
  <2> HIDE DEF x
  <2> QED BY <2>1, <2>2, <2>3, <2>4
<1>5. /\ k \in [DOMAIN service.connections -> Connection] /\ k[id] = new
      /\ \A x \in DOMAIN service.connections : x # id => k[x] = service.connections[x]
  BY <1>1, <1>4
<1>6. t = [service EXCEPT !.connections = k]
  BY <1>1 DEF Taken
<1> HIDE DEF k, t
<1>7. /\ t \in Services /\ t.connections = k /\ DOMAIN t.connections = DOMAIN service.connections
      /\ t.active = service.active /\ t.next = service.next
  <2>1. PICK v \in Services : v = service
    BY <1>1
  <2>2. PICK D \in SUBSET (1..MaxConnections) : D = DOMAIN service.connections
    BY <1>1
  <2>3. PICK j \in [D -> Connection] : j = k
    BY <1>5, <2>2
  <2>4. PICK w : w = [v EXCEPT !.connections = j]
    OBVIOUS
  <2>5. /\ w \in Services /\ w.connections = j /\ DOMAIN w.connections = D
        /\ w.active = v.active /\ w.next = v.next
    BY <2>2, <2>3, <2>1, <2>4 DEF Services
  <2> QED BY <1>6, <2>1, <2>2, <2>3, <2>4, <2>5
<1>8. ServiceFits(t)
  BY <1>1, <1>7 DEF ServiceFits
<1>9. ASSUME NEW c \in Clients
      PROVE  Linked(t, c, client[c].pipe) /\ Told(t, client[c].pipe, client[c].element)
  <2>1. Linked(service, c, client[c].pipe) /\ Told(service, client[c].pipe, client[c].element)
    BY DEF CandidateInv, LinksOK
  <2>2. \A x \in DOMAIN service.connections :
          k[x].of = service.connections[x].of /\ k[x].open = service.connections[x].open
    BY <1>4, <1>5
  <2>3. Linked(t, c, client[c].pipe)
    BY <1>7, <2>1, <2>2 DEF Linked
  <2>4. Told(t, client[c].pipe, client[c].element)
    <3>1. CASE client[c].pipe = id
      <4>1. Tail(q) # <<>> => Last(Tail(q)) = Last(q)
        BY <1>3 DEF Last
      <4> QED BY <1>2, <1>3, <1>4, <1>5, <1>7, <2>1, <3>1, <4>1 DEF Told
    <3>2. CASE client[c].pipe # id
      BY <1>5, <1>7, <2>1, <3>2 DEF Told
    <3> QED BY <3>1, <3>2
  <2> QED BY <2>3, <2>4
<1>10. t.connections[id].commands = Tail(service.connections[id].commands)
  BY <1>2, <1>4, <1>5, <1>7
<1> QED BY <1>5, <1>7, <1>8, <1>9, <1>10 DEF t

\* What is hidden is not on the screen for long, and nobody's is active.
LEMMA HidingKeeps ==
  ASSUME CandidateInv, NEW s \in Services, NEW id, s.active = service.active,
         s.next \in 1..(MaxConnections + 1), \A x \in DOMAIN s.connections : x < s.next,
         s.active # id => s.active \in {NoPipe} \union DOMAIN s.connections,
         \A c \in Clients : Linked(s, c, client[c].pipe) /\ Told(s, client[c].pipe, client[c].element),
         \A x \in DOMAIN s.connections : x # id =>
           x \in DOMAIN service.connections /\ s.connections[x] = service.connections[x],
         Take(HideIfActive(id, s)), client' = client, calls' = calls
  PROVE  CandidateInv'
<1>1. calls' \in Use /\ calls'.among = calls.among
  BY DEF CandidateInv, LockOK
<1>2. s \in Services /\ NoPipe \notin DOMAIN s.connections
  BY ConnectionsAre
<1>3. CASE s.active = id
  <2>1. service' = [s EXCEPT !.active = NoPipe] /\ ui' = HideUi(ui)
    BY <1>3 DEF Take, HideIfActive
  <2>2. /\ service' \in Services /\ service'.connections = s.connections /\ service'.active = NoPipe
        /\ service'.next = s.next
    BY <1>2, <2>1 DEF Services, NoPipe
  <2>3. ServiceFits(service')
    BY <2>2 DEF ServiceFits
  <2>4. /\ ui = [pending |-> ui.pending, messages |-> ui.messages, window |-> ui.window]
        /\ ui.messages \in Seq({"present", "hide"})
    BY DEF CandidateInv, UiOK
  <2>5. ui'.pending = <<>> /\ ui'.messages = Append(ui.messages, "hide") /\ ui'.window = ui.window
        /\ ui' = [pending |-> ui'.pending, messages |-> ui'.messages, window |-> ui'.window]
    <3>1. PICK p, m, w : p = ui.pending /\ m = ui.messages /\ w = ui.window
      OBVIOUS
    <3>2. ui = [pending |-> p, messages |-> m, window |-> w]
      BY <2>4, <3>1
    <3>3. ui' = [pending |-> <<>>, messages |-> Append(m, "hide"), window |-> w]
      BY <2>1, <3>2 DEF HideUi
    <3> QED BY <3>1, <3>3
  <2>6. UiOK'
    BY <2>4, <2>5 DEF UiOK
  <2>7. WillHide'
    BY <2>4, <2>5 DEF WillHide
  <2>8. SlotOK'
    BY <2>5, <2>7 DEF SlotOK
  <2>9. SeenOK'
    BY <1>2, <2>2 DEF SeenOK, Caught
  <2>10. LinksOK'
    BY <2>2 DEF LinksOK, Linked, Told
  <2> QED BY <1>1, <2>3, <2>6, <2>8, <2>9, <2>10, ServiceMoves
<1>4. CASE s.active # id
  <2>1. service' = s /\ ui' = ui
    BY <1>4 DEF Take, HideIfActive
  <2>2. UiOK' /\ SlotOK' /\ LinksOK'
    BY <2>1 DEF CandidateInv, UiOK, SlotOK, WillShow, WillHide, LinksOK
  <2>3. SeenOK'
    <3> SUFFICES ASSUME NEW c \in Clients, Caught(c)'
                 PROVE  /\ (ui.pending # <<>> => client[c].element.shown /\ ui.pending[1] = Shown(c))'
                        /\ (ui.pending = <<>> /\ ui.window.visible /\ ~WillHide =>
                             client[c].element.shown /\ ui.window = Windowed(Shown(c)))'
      BY DEF SeenOK
    <3>1. /\ client[c].pipe \in DOMAIN s.connections /\ client[c].pipe # id
          /\ s.connections[client[c].pipe].commands = <<>> /\ service.active = client[c].pipe
      BY <1>4, <2>1 DEF Caught
    <3>2. Caught(c)
      BY <3>1 DEF Caught
    <3>3. Shown(c)' = Shown(c)
      BY DEF Shown
    <3>4. Windowed(Shown(c))' = Windowed(Shown(c))
      BY <3>3 DEF Windowed
    <3> QED BY <2>1, <3>2, <3>3, <3>4 DEF CandidateInv, SeenOK, WillHide
  <2>4. ServiceFits(s)
    BY <1>4 DEF ServiceFits
  <2> QED BY <1>1, <2>1, <2>2, <2>3, <2>4, ServiceMoves
<1> QED BY <1>3, <1>4

\* The first command of a connection is one the service knows.
LEMMA FirstCommand ==
  ASSUME CandidateInv, NEW id \in DOMAIN service.connections, service.connections[id].commands # <<>>
  PROVE  /\ service.connections[id].of \in Clients /\ id # NoPipe
         /\ service.connections[id].commands \in Seq(Command)
         /\ Head(service.connections[id].commands) \in Command
BY ConnectionsAre DEF CandidateInv, ServiceOK, ServiceFits, Connection

LEMMA ServePresentKeeps ==
  ASSUME CandidateInv, NEW id \in DOMAIN service.connections, ServePresent(id),
         client' = client, calls' = calls
  PROVE  CandidateInv'
<1> DEFINE old == service.connections[id]
<1>1. old.commands # <<>> /\ Head(old.commands).do = "present"
  BY DEF ServePresent
<1>2. /\ old.of \in Clients /\ id # NoPipe /\ old.commands \in Seq(Command)
      /\ Head(old.commands) \in Command
  BY <1>1, FirstCommand
<1>3. PICK p \in Presentations : p = Head(old.commands)
  BY <1>1, <1>2 DEF Command, HideCommand
<1>4. PICK presentation \in [of : Clients, shows : Presentations] :
        presentation = [of |-> old.of, shows |-> p]
  BY <1>2
<1>5. PICK s : s = Taken(id)
  OBVIOUS
<1>6. /\ service' = [s EXCEPT !.active = id]
      /\ ui' = [ui EXCEPT !.pending = <<presentation>>, !.messages = Append(@, "present")]
  BY <1>3, <1>4, <1>5 DEF Presentations, ServePresent, Take, Taken
<1>7. /\ ServiceFits(s) /\ s.active = service.active
      /\ DOMAIN s.connections = DOMAIN service.connections
      /\ s.connections[id].commands = Tail(old.commands)
      /\ \A c \in Clients : Linked(s, c, client[c].pipe) /\ Told(s, client[c].pipe, client[c].element)
  BY <1>1, <1>5, TakenIs
<1>8. /\ service' \in Services /\ service'.connections = s.connections /\ service'.active = id
      /\ service'.next = s.next
  BY <1>7, ConnectionsAre, <1>6 DEF ServiceFits, Services
<1>9. ServiceFits(service')
  BY <1>7, <1>8 DEF ServiceFits
<1>10. /\ ui = [pending |-> ui.pending, messages |-> ui.messages, window |-> ui.window]
       /\ ui.messages \in Seq({"present", "hide"})
  BY DEF CandidateInv, UiOK
<1>11. /\ ui'.pending = <<presentation>> /\ ui'.messages = Append(ui.messages, "present")
       /\ ui' = [pending |-> ui'.pending, messages |-> ui'.messages, window |-> ui'.window]
  <2>1. PICK q, m, w : q = ui.pending /\ m = ui.messages /\ w = ui.window
    OBVIOUS
  <2>2. ui = [pending |-> q, messages |-> m, window |-> w]
    BY <1>10, <2>1
  <2>3. ui' = [pending |-> <<presentation>>, messages |-> Append(m, "present"), window |-> w]
    BY <1>6, <2>2
  <2> QED BY <2>1, <2>3
<1>12. ui'.pending # <<>> /\ ui'.pending[1] = presentation /\ Len(ui'.pending) = 1
       /\ ui'.pending \in Seq([of : Clients, shows : Presentations])
  BY <1>11
<1>13. UiOK'
  BY <1>10, <1>11, <1>12 DEF UiOK
<1>14. WillShow'
  BY <1>10, <1>11 DEF WillShow
<1>15. SlotOK'
  BY <1>2, <1>8, <1>14 DEF SlotOK
<1>16. SeenOK'
  <2> SUFFICES ASSUME NEW c \in Clients, Caught(c)'
               PROVE  client[c].element.shown /\ presentation = Shown(c)
    BY <1>12 DEF Shown, SeenOK
  <2>1. client[c].pipe = id /\ Tail(old.commands) = <<>>
    BY <1>7, <1>8 DEF Caught
  <2>2. Last(old.commands) = p
    <3>1. ASSUME NEW q \in Seq(Command), q # <<>>, Tail(q) = <<>> PROVE Len(q) = 1
      <4>1. Len(Tail(q)) = Len(q) - 1 /\ Len(q) \in Nat
        BY <3>1
      <4>2. PICK r : r = Tail(q)
        OBVIOUS
      <4>3. r = <<>> => Len(r) = 0
        OBVIOUS
      <4> QED BY <3>1, <4>1, <4>2, <4>3
    <3>2. Len(old.commands) = 1
      BY <1>1, <1>2, <2>1, <3>1
    <3> QED BY <1>2, <1>3, <3>2 DEF Last
  <2>3. p \in Telling(client[c].element) /\ old.of = c
    BY <1>1, <2>1, <2>2 DEF CandidateInv, LinksOK, Linked, Told
  <2>4. p # HideCommand
    BY <1>1, <1>3 DEF HideCommand
  <2> QED BY <1>4, <2>3, <2>4 DEF Telling, Shown
<1>17. LinksOK'
  BY <1>7, <1>8 DEF LinksOK, Linked, Told
<1>18. calls' \in Use /\ calls'.among = calls.among
  BY DEF CandidateInv, LockOK
<1> QED BY <1>9, <1>13, <1>15, <1>16, <1>17, <1>18, ServiceMoves

LEMMA ServeHideKeeps ==
  ASSUME CandidateInv, NEW id \in DOMAIN service.connections, ServeHide(id),
         client' = client, calls' = calls
  PROVE  CandidateInv'
<1>1. service.connections[id].commands # <<>>
  BY DEF ServeHide
<1>2. PICK s : s = Taken(id)
  OBVIOUS
<1>3. Take(HideIfActive(id, s))
  BY <1>2 DEF ServeHide, Taken
<1>4. /\ ServiceFits(s) /\ s.active = service.active
      /\ DOMAIN s.connections = DOMAIN service.connections
      /\ \A x \in DOMAIN service.connections : x # id => s.connections[x] = service.connections[x]
      /\ \A c \in Clients : Linked(s, c, client[c].pipe) /\ Told(s, client[c].pipe, client[c].element)
  BY <1>1, <1>2, TakenIs
<1>5. /\ s \in Services /\ s.next \in 1..(MaxConnections + 1) /\ \A x \in DOMAIN s.connections : x < s.next
      /\ s.active \in {NoPipe} \union DOMAIN s.connections
  BY <1>4 DEF ServiceFits
<1>6. \A x \in DOMAIN s.connections : x # id =>
        x \in DOMAIN service.connections /\ s.connections[x] = service.connections[x]
  BY <1>4
<1> QED BY <1>3, <1>4, <1>5, <1>6, HidingKeeps

LEMMA EndClientKeeps ==
  ASSUME CandidateInv, NEW id \in DOMAIN service.connections, EndClient(id),
         client' = client, calls' = calls
  PROVE  CandidateInv'
<1> DEFINE D == DOMAIN service.connections \ {id}
           k == Restrict(service.connections, D)
<1>1. /\ service \in Services /\ ServiceFits(service)
      /\ DOMAIN service.connections \in SUBSET (1..MaxConnections)
      /\ service.connections \in [DOMAIN service.connections -> Connection]
  BY ConnectionsAre DEF CandidateInv, ServiceOK, ServiceFits
<1>2. /\ k \in [D -> Connection] /\ D \in SUBSET (1..MaxConnections)
      /\ \A x \in D : k[x] = service.connections[x]
  BY <1>1 DEF Restrict
<1>3. PICK t : t = [service EXCEPT !.connections = k]
  OBVIOUS
<1> HIDE DEF k
<1>4. /\ t \in Services /\ t.connections = k /\ DOMAIN t.connections = D
      /\ t.active = service.active /\ t.next = service.next
  BY <1>1, <1>2, <1>3, Reconnected
<1>5. Take(HideIfActive(id, t)) /\ ~service.connections[id].open
  BY <1>3 DEF EndClient, Disconnected, k
<1>6. ASSUME NEW c \in Clients
      PROVE  Linked(t, c, client[c].pipe) /\ Told(t, client[c].pipe, client[c].element)
  BY <1>2, <1>4, <1>5 DEF CandidateInv, LinksOK, Linked, Told
<1>7. /\ t.next \in 1..(MaxConnections + 1) /\ \A x \in DOMAIN t.connections : x < t.next
      /\ t.active # id => t.active \in {NoPipe} \union DOMAIN t.connections
  BY <1>1, <1>4 DEF ServiceFits
<1>8. \A x \in DOMAIN t.connections : x # id =>
        x \in DOMAIN service.connections /\ t.connections[x] = service.connections[x]
  BY <1>2, <1>4
<1> QED BY <1>4, <1>5, <1>6, <1>7, <1>8, HidingKeeps

\* The first message of the UI thread is taken; the others stay.
LEMMA MessageTaken ==
  ASSUME NEW q \in Seq({"present", "hide"}), q # <<>>, NEW m \in {"present", "hide"}, Head(q) # m
  PROVE  /\ Tail(q) \in Seq({"present", "hide"})
         /\ (\E i \in DOMAIN q : q[i] = m) => \E i \in DOMAIN Tail(q) : Tail(q)[i] = m
<1>1. Tail(q) \in Seq({"present", "hide"}) /\ DOMAIN q = 1..Len(q) /\ DOMAIN Tail(q) = 1..(Len(q) - 1)
      /\ Len(q) \in Nat /\ q[1] # m
  OBVIOUS
<1>2. ASSUME NEW i \in DOMAIN q, q[i] = m PROVE \E j \in DOMAIN Tail(q) : Tail(q)[j] = m
  <2>1. i \in 2..Len(q)
    BY <1>1, <1>2
  <2>2. i - 1 \in DOMAIN Tail(q) /\ Tail(q)[i - 1] = q[i]
    BY <1>1, <2>1
  <2> QED BY <1>2, <2>2
<1> QED BY <1>1, <1>2

LEMMA PresentOnThreadKeeps ==
  ASSUME CandidateInv, PresentOnThread, client' = client, service' = service, calls' = calls
  PROVE  CandidateInv'
<1>1. ui.messages # <<>> /\ Head(ui.messages) = "present" /\ ui.messages \in Seq({"present", "hide"})
  BY DEF PresentOnThread, CandidateInv, UiOK
<1>2. PICK window :
        /\ window \in IF ui.pending = <<>> THEN {ui.window}
                      ELSE {Windowed(ui.pending[1])} \union (IF "throw" \in calls.among THEN {Hidden} ELSE {})
        /\ ui' = [pending |-> <<>>, messages |-> Tail(ui.messages), window |-> window]
  BY DEF PresentOnThread
<1>3. ui'.pending = <<>> /\ ui'.messages = Tail(ui.messages) /\ ui'.window = window
  BY <1>2
<1>4. Tail(ui.messages) \in Seq({"present", "hide"}) /\ (WillHide => WillHide')
  BY <1>1, <1>3, MessageTaken DEF WillHide
<1>5. UiOK'
  BY <1>2, <1>3, <1>4 DEF UiOK
<1>6. SlotOK'
  BY <1>2, <1>4, <1>3 DEF CandidateInv, SlotOK
<1>7. SeenOK'
  <2> SUFFICES ASSUME NEW c \in Clients, Caught(c)', window.visible, ~WillHide'
               PROVE  client[c].element.shown /\ window = Windowed(Shown(c))
    BY <1>3 DEF Windowed, Shown, SeenOK
  <2>1. Caught(c)
    BY DEF Caught
  <2>2. ~WillHide
    BY <1>4
  <2>3. CASE ui.pending = <<>>
    BY <1>2, <2>1, <2>2, <2>3 DEF CandidateInv, SeenOK
  <2>4. CASE ui.pending # <<>>
    BY <2>1, <2>4, <1>2 DEF CandidateInv, SeenOK, Hidden
  <2> QED BY <2>3, <2>4
<1>8. ServiceFits(service') /\ LinksOK' /\ calls' \in Use /\ calls'.among = calls.among
  BY DEF CandidateInv, ServiceOK, LinksOK, LockOK
<1> QED BY <1>5, <1>6, <1>7, <1>8, ServiceMoves

LEMMA HideOnThreadKeeps ==
  ASSUME CandidateInv, HideOnThread, client' = client, service' = service, calls' = calls
  PROVE  CandidateInv'
<1>1. /\ ui.messages # <<>> /\ Head(ui.messages) = "hide" /\ ui.messages \in Seq({"present", "hide"})
      /\ ui = [pending |-> ui.pending, messages |-> ui.messages, window |-> ui.window]
  BY DEF HideOnThread, CandidateInv, UiOK
<1>2. /\ ui'.pending = ui.pending /\ ui'.messages = Tail(ui.messages) /\ ui'.window = Hidden
      /\ ui' = [pending |-> ui'.pending, messages |-> ui'.messages, window |-> ui'.window]
  <2>1. PICK q, m, w : q = ui.pending /\ m = ui.messages /\ w = ui.window
    OBVIOUS
  <2>2. ui = [pending |-> q, messages |-> m, window |-> w]
    BY <1>1, <2>1
  <2>3. ui' = [pending |-> q, messages |-> Tail(m), window |-> Hidden]
    BY <2>2 DEF HideOnThread
  <2> QED BY <2>1, <2>3
<1>3. Tail(ui.messages) \in Seq({"present", "hide"}) /\ (WillShow => WillShow')
  BY <1>1, <1>2, MessageTaken DEF WillShow
<1>4. UiOK'
  BY <1>2, <1>3 DEF CandidateInv, UiOK
<1>5. ~ui'.window.visible
  BY <1>2 DEF Hidden
<1>6. SlotOK'
  BY <1>2, <1>3, <1>5 DEF CandidateInv, SlotOK
<1>7. SeenOK'
  <2> SUFFICES ASSUME NEW c \in Clients, Caught(c)', ui'.pending # <<>>
               PROVE  client[c].element.shown /\ ui'.pending[1] = Shown(c)
    BY <1>5 DEF Shown, SeenOK
  <2>1. Caught(c)
    BY DEF Caught
  <2> QED BY <1>2, <2>1 DEF CandidateInv, SeenOK
<1>8. ServiceFits(service') /\ LinksOK' /\ calls' \in Use /\ calls'.among = calls.among
  BY DEF CandidateInv, ServiceOK, LinksOK, LockOK
<1> QED BY <1>4, <1>6, <1>7, <1>8, ServiceMoves

\* A service without connections, and its UI.
LEMMA Empty ==
  ASSUME NEW next \in 1..(MaxConnections + 1), NEW up \in BOOLEAN, NEW s,
         s = [up |-> up, connections |-> NewService.connections, active |-> NoPipe, next |-> next]
  PROVE  ServiceFits(s) /\ DOMAIN s.connections = {}
<1>1. NewService.connections \in [{} -> Connection] /\ {} \in SUBSET (1..MaxConnections)
  BY DEF NewService
<1>2. NewService.connections \in UNION {[D -> Connection] : D \in SUBSET (1..MaxConnections)}
  BY <1>1
<1>3. NoPipe \in Nat /\ next \in Nat
  BY BoundsAssumption DEF NoPipe
<1>4. s \in Services
  BY <1>2, <1>3 DEF Services
<1>5. DOMAIN s.connections = {} /\ s.next = next /\ s.active = NoPipe
  BY <1>1
<1> QED BY <1>4, <1>5 DEF ServiceFits

\* A new UI thread has nothing to show.
LEMMA NewUiIs ==
  ASSUME NEW u, u = NewUi
  PROVE  /\ u = [pending |-> u.pending, messages |-> u.messages, window |-> u.window]
         /\ u.messages = <<>> /\ u.pending = <<>> /\ ~u.window.visible
BY DEF NewUi, Hidden

LEMMA CrashKeeps ==
  ASSUME CandidateInv, Crash
  PROVE  CandidateInv'
<1>1. calls' \in Use /\ calls'.among = calls.among /\ client' = client
  BY Counted DEF Crash
<1>2. service.next \in 1..(MaxConnections + 1)
  BY DEF CandidateInv, ServiceOK, ServiceFits
<1>3. service' = [up |-> FALSE, connections |-> NewService.connections, active |-> NoPipe,
                  next |-> service.next]
  BY DEF Crash, NewService
<1>4. ServiceFits(service') /\ DOMAIN service'.connections = {}
  BY <1>2, <1>3, Empty
<1>5. service'.next = service.next
  BY <1>3
<1>6. /\ ui' = [pending |-> ui'.pending, messages |-> ui'.messages, window |-> ui'.window]
      /\ ui'.messages = <<>> /\ ui'.pending = <<>> /\ ~ui'.window.visible
  BY NewUiIs DEF Crash
<1>7. UiOK'
  BY <1>6 DEF UiOK
<1>8. SlotOK'
  BY <1>6 DEF SlotOK
<1>9. SeenOK'
  BY <1>4 DEF SeenOK, Caught
<1>10. LinksOK'
  BY <1>1, <1>4, <1>5 DEF CandidateInv, LinksOK, Linked, Told
<1> QED BY <1>1, <1>4, <1>7, <1>8, <1>9, <1>10, ServiceMoves

-----------------------------------------------------------------------------
(***************************************************************************)
(* The invariant is inductive                                              *)
(***************************************************************************)
LEMMA CandidateInit ==
  ASSUME Init
  PROVE  CandidateInv
<1>1. calls \in Use
  BY UsesAssumption DEF Init
<1>2. /\ client \in [Clients -> ClientType] /\ \A c \in Clients : ClientOK(client[c])
      /\ \A c \in Clients : client[c] = NewClient
  BY NewClientIs DEF Init, ClientOK
<1>3. service = [up |-> TRUE, connections |-> NewService.connections, active |-> NoPipe, next |-> 1]
  BY DEF Init, NewService
<1>4. 1 \in 1..(MaxConnections + 1)
  BY BoundsAssumption
<1>5. ServiceFits(service) /\ DOMAIN service.connections = {}
  BY <1>3, <1>4, Empty
<1>6. /\ ui = [pending |-> ui.pending, messages |-> ui.messages, window |-> ui.window]
      /\ ui.messages = <<>> /\ ui.pending = <<>> /\ ~ui.window.visible
  BY NewUiIs DEF Init
<1>7. UiOK
  BY <1>6 DEF UiOK
<1>8. SlotOK
  BY <1>6 DEF SlotOK
<1>9. SeenOK
  BY <1>5 DEF SeenOK, Caught
<1>10. LinksOK
  BY <1>3, <1>2, <1>5, NewClientIs DEF NoPipe, LinksOK, Linked, Told
<1>11. LockOK
  BY <1>1, <1>2, NewClientIs DEF LockOK
<1> QED BY <1>2, <1>5, <1>7, <1>8, <1>9, <1>10, <1>11 DEF CandidateInv, ClientsOK, ServiceOK

\* Every step keeps the invariant.
LEMMA CandidateStep ==
  ASSUME CandidateInv, [Next]_vars
  PROVE  CandidateInv'
<1>1. CASE UNCHANGED vars
  BY <1>1
     DEF vars, CandidateInv, ClientsOK, ServiceOK, UiOK, LinksOK, SlotOK, WillShow, WillHide,
         SeenOK, Caught, Shown, LockOK, Strict
<1>2. ASSUME NEW c \in calls.clients, NEW key \in calls.keys,
             Key(c, key) \/ DeclineKey(c, key) \/ ReleaseKey(c, key)
      PROVE  CandidateInv'
  BY <1>2, TestKeyKeeps, DirectKeyKeeps, DeclineKeeps, ReleaseKeyKeeps
     DEF CandidateInv, LockOK, Use, Key
<1>3. ASSUME NEW c \in calls.clients, TestedKey(c) \/ DeclineTested(c) \/ Host(c)
      PROVE  CandidateInv'
  <2>1. c \in Clients
    BY DEF CandidateInv, LockOK, Use
  <2> QED BY <1>3, <2>1, TestedKeyKeeps, DeclineKeeps, HostSelectsKeeps, HostTurnsKeeps, HostFinishesKeeps,
             HostShowsKeeps, TerminateKeeps, GrantEditKeeps, LeaveKeeps DEF Host
<1>4. ASSUME NEW id \in DOMAIN service.connections, Serve(id)
      PROVE  CandidateInv'
  BY <1>4, ServePresentKeeps, ServeHideKeeps, EndClientKeeps DEF Serve
<1>5. CASE UiThread
  BY <1>5, PresentOnThreadKeeps, HideOnThreadKeeps DEF UiThread
<1>6. CASE Crash
  BY <1>6, CrashKeeps
<1> QED BY <1>1, <1>2, <1>3, <1>4, <1>5, <1>6 DEF Next

\* The invariant holds in every state.
LEMMA CandidateInvariant == Spec => []CandidateInv
<1>1. Init => CandidateInv
  BY CandidateInit
<1>2. CandidateInv /\ [Next]_vars => CandidateInv'
  BY CandidateStep
<1> QED BY <1>1, <1>2, PTL DEF Spec

-----------------------------------------------------------------------------
(***************************************************************************)
(* The theorems                                                            *)
(***************************************************************************)
\* The selection is on the current page of every list, and whatever was
\* written to a pipe the service accepts, however its text services, their
\* hosts, the service and its UI thread interleave.
THEOREM CandidatesAreOK == Spec => []CandidatesOK
<1>1. CandidateInv => CandidatesOK
  <2> SUFFICES ASSUME CandidateInv PROVE CandidatesOK
    OBVIOUS
  <2>1. /\ client \in [Clients -> ClientType]
        /\ \A c \in Clients : client[c].element.size > 0 => Placed(client[c].element)
    BY DEF CandidateInv, ClientsOK, ClientOK, ElementOK
  <2>2. \A command \in Commands : command = HideCommand \/ ValidPresentation(command)
    <3> TAKE command \in Commands
    <3>1. PICK id \in DOMAIN service.connections : command \in Range(service.connections[id].commands)
      BY DEF Commands
    <3>2. service.connections[id].commands \in Seq(Command)
      BY ConnectionsAre DEF CandidateInv, ServiceOK, ServiceFits, Connection
    <3>3. command \in Command
      BY <3>1, <3>2 DEF Range
    <3> QED BY <3>3 DEF Command, Presentations
  <2>3. /\ service.active \in {NoPipe} \union DOMAIN service.connections
        /\ \A id \in DOMAIN service.connections : id < service.next
    BY DEF CandidateInv, ServiceOK, ServiceFits
  <2>4. Len(ui.pending) <= 1 /\ Range(ui.messages) \subseteq {"present", "hide"}
    BY DEF CandidateInv, UiOK, Range
  <2> QED BY <2>1, <2>2, <2>3, <2>4 DEF CandidatesOK, Placed
<1> QED BY <1>1, CandidateInvariant, PTL

\* The digits of the window choose what they number.
LEMMA NumbersAreTrue ==
  ASSUME NEW e, ElementOK(e), e.size > 0, ui.window.begin = Present(e).begin,
         ui.window.size = Present(e).size, ui.window.number = Present(e).number,
         NEW digit \in Digits
  PROVE  Numbered(digit) = Choice(e, digit)
<1>1. Place(digit) \in 1..PageSize
  BY DEF Digits, Place
<1>2. PICK k \in 0..(PageSize - 1) : k = Place(digit) - 1
  BY <1>1, Sizes
<1>3. /\ Present(e).begin + PageBegin(Present(e).number) = PageBegin(e.page)
      /\ Present(e).begin + Present(e).size <= e.size
      /\ PageBegin(e.page) + k < e.size => PageBegin(e.page) + k < Present(e).begin + Present(e).size
      /\ Present(e) \in Presentations
  BY Presented
<1>4. /\ Present(e).begin \in Int /\ Present(e).size \in Int /\ e.size \in Int
      /\ PageBegin(Present(e).number) \in Int /\ PageBegin(e.page) \in Int
  BY <1>3, BeginIs DEF Presentations, ElementOK, ElementType
<1>5. PICK b, n, p, q, z \in Int :
        /\ b = Present(e).begin /\ n = Present(e).size /\ z = e.size
        /\ p = PageBegin(Present(e).number) /\ q = PageBegin(e.page)
  BY <1>4
<1>6. b + p = q /\ b + n <= z /\ (q + k < z => q + k < b + n)
  BY <1>3, <1>5
<1>7. Numbered(digit) = IF p + k < n THEN b + (p + k) ELSE -1
  BY <1>1, <1>2, <1>5, Sizes DEF Numbered
<1>8. Choice(e, digit) = IF q + k < z THEN q + k ELSE -1
  BY <1>1, <1>2, <1>5, Sizes DEF Choice
<1> QED BY <1>2, <1>5, <1>6, <1>7, <1>8, Sizes

\* Once all was read, what the screen shows is the open list of the text
\* service that presented last, as it is now.
THEOREM ScreenIsAlwaysTrue == Spec => []ScreenIsTrue
<1>1. CandidateInv => ScreenIsTrue
  <2> SUFFICES ASSUME CandidateInv, Drained, ui.window.visible
               PROVE  /\ service.active # NoPipe
                      /\ service.connections[service.active].of = ui.window.of
                      /\ client[ui.window.of].pipe = service.active
                      /\ client[ui.window.of].element.shown
                      /\ client[ui.window.of].element.list = ui.window.list
                      /\ ui.window.begin + ui.window.selection = client[ui.window.of].element.selection
                      /\ \A digit \in Digits : Numbered(digit) = Choice(client[ui.window.of].element, digit)
    BY DEF ScreenIsTrue
  <2>1. ~WillShow /\ ~WillHide
    BY DEF Drained, WillShow, WillHide
  <2>2. ui.pending = <<>> /\ service.active # NoPipe
    BY <2>1 DEF CandidateInv, SlotOK
  <2>3. PICK a \in DOMAIN service.connections : a = service.active
    BY <2>2 DEF CandidateInv, ServiceOK, ServiceFits
  <2>4. service.connections[a].open /\ service.connections[a].commands = <<>>
    BY DEF Drained
  <2>5. PICK d \in Clients : d = service.connections[a].of
    BY ConnectionsAre DEF CandidateInv, ServiceOK, ServiceFits, Connection
  <2>6. client[d].pipe = a
    BY <2>4, <2>5 DEF CandidateInv, LinksOK, Linked
  <2>7. client[d].element.shown /\ ui.window = Windowed(Shown(d))
    BY <2>1, <2>2, <2>3, <2>4, <2>6 DEF CandidateInv, SeenOK, Caught
  <2>8. PICK e : e = client[d].element
    OBVIOUS
  <2>9. ElementOK(e) /\ e.size > 0
    BY <2>7, <2>8, ClientIs DEF ElementOK
  <2>10. /\ Present(e) \in Presentations /\ Present(e).list = e.list
         /\ Present(e).begin + Present(e).selection = e.selection
    BY <2>9, Presented
  <2>11. PICK p : p = [of |-> d, shows |-> Present(e)]
    OBVIOUS
  <2>12. p.of = d /\ p.shows = Present(e) /\ Shown(d) = p
    BY <2>8, <2>11 DEF Shown
  <2>13. Windowed(p) = [visible |-> TRUE, of |-> p.of, list |-> p.shows.list,
                        begin |-> p.shows.begin, size |-> p.shows.size,
                        columns |-> p.shows.columns, number |-> p.shows.number,
                        selection |-> p.shows.selection]
    BY <2>10, <2>12, WindowedIs
  <2>14. /\ ui.window.of = d /\ ui.window.list = Present(e).list
         /\ ui.window.begin = Present(e).begin /\ ui.window.size = Present(e).size
         /\ ui.window.number = Present(e).number /\ ui.window.selection = Present(e).selection
    BY <2>7, <2>12, <2>13
  <2>15. \A digit \in Digits : Numbered(digit) = Choice(e, digit)
    BY <2>9, <2>14, NumbersAreTrue
  <2> QED BY <2>2, <2>3, <2>5, <2>6, <2>7, <2>8, <2>10, <2>14, <2>15
<1> QED BY <1>1, CandidateInvariant, PTL

\* An open list belongs to an open composition that holds its results back.
THEOREM ListIsAlwaysLocked == Spec => []ListIsLocked
<1>1. CandidateInv => ListIsLocked
  BY DEF CandidateInv, LockOK, Strict, ListIsLocked
<1> QED BY <1>1, CandidateInvariant, PTL


-----------------------------------------------------------------------------
(***************************************************************************)
(* Taps of Shift                                                           *)
(***************************************************************************)
\* A release of Shift would switch the mode, or will once the press that was
\* tested is handled.
Tapping(s) == s.keys.alone \/ (s.tested.action = "shiftDown" /\ ~s.tested.repeated)

TapOK == \A c \in Clients : Tapping(client[c]) => c \notin keyboard.typed

\* What a step may do to the mode.
Switched == \A c \in Clients : SwitchesAlone(c)

\* A step that changes one text service only.
LEMMA TapMoves ==
  ASSUME CandidateInv, TapOK, NEW c \in Clients, NEW was, KeysStay(c, was),
         Tapping(was) => c \notin keyboard'.typed,
         was.mode # client[c].mode => c \notin keyboard.typed,
         \A d \in Clients \ {c} : d \in keyboard'.typed => d \in keyboard.typed
  PROVE  TapOK' /\ Switched
<1>1. PICK s : /\ client' = [client EXCEPT ![c] = s]
               /\ s.keys = was.keys /\ s.mode = was.mode /\ s.tested = was.tested
  BY DEF KeysStay
<1>2. client'[c] = s /\ \A d \in Clients \ {c} : client'[d] = client[d]
  BY <1>1 DEF CandidateInv, ClientsOK
<1>3. TapOK'
  BY <1>1, <1>2 DEF TapOK, Tapping
<1>4. Switched
  BY <1>1, <1>2 DEF Switched, SwitchesAlone
<1> QED BY <1>3, <1>4

\* A key that goes down at c counts as typed there if Shift is held and the context
\* takes input.
LEMMA Typed ==
  ASSUME NEW c \in Clients, NEW key, NEW takes \in BOOLEAN, Down(c, key, takes)
  PROVE  /\ \A d \in Clients \ {c} : d \in keyboard'.typed => d \in keyboard.typed
         /\ c \in keyboard'.typed =>
              \/ c \in keyboard.typed /\ ("shift" \in keyboard.held \/ key # "shift")
              \/ "shift" \in keyboard.held /\ key # "shift" /\ takes
BY DEF Down

\* Only a Shift that goes down by itself makes a tap of what was none.
LEMMA AloneAfter ==
  ASSUME NEW state \in KeyStates, NEW press
  PROVE  /\ Observe(state, press).alone =>
              state.alone /\ ("shift" \notin press.held \/ press.key = "shift")
         /\ \A mode : ModeChanged(state, mode).alone = state.alone
         /\ KeyHandled(state, press, "shiftDown").alone => state.alone \/ ~press.repeated
         /\ \A action : action # "shiftDown" /\ KeyHandled(state, press, action).alone =>
              state.alone /\ ("shift" \notin press.held \/ press.key = "shift")
<1>1. Observe(state, press) \in KeyStates
  BY Observed
<1>2. Observe(state, press).alone =>
        state.alone /\ ("shift" \notin press.held \/ press.key = "shift")
  BY DEF Observe, KeyStates
<1>3. \A mode : ModeChanged(state, mode).alone = state.alone
  BY DEF ModeChanged, KeyStates
<1>4. KeyHandled(state, press, "shiftDown").alone => state.alone \/ ~press.repeated
  BY DEF KeyHandled, KeyStates
<1>5. ASSUME NEW action, action # "shiftDown", KeyHandled(state, press, action).alone
      PROVE  Observe(state, press).alone
  <2>1. PICK o \in KeyStates : o = Observe(state, press)
    BY <1>1
  <2>2. CASE press.key \in Modifiers
    BY <1>5, <2>2 DEF KeyHandled
  <2>3. CASE press.key \notin Modifiers
    BY <1>5, <2>1, <2>3 DEF KeyHandled, KeyStates
  <2> QED BY <2>2, <2>3
<1> QED BY <1>2, <1>3, <1>4, <1>5

LEMMA TestKeyTaps ==
  ASSUME CandidateInv, TapOK, NEW c \in Clients, NEW key, NEW behind, NEW complete,
         TestKey(c, key, behind, complete)
  PROVE  TapOK' /\ Switched
<1>1. PICK was :
        /\ KeysStay(c, was) /\ was.mode = client[c].mode
        /\ was.keys = ModeChanged(Observe(client[c].keys, Press(key)), client[c].mode)
        /\ was.tested.key = key /\ was.tested.repeated = Press(key).repeated
        /\ was.tested.action = "shiftDown" => key = "shift"
  BY TestKeyKeeps
<1>2. /\ \A d \in Clients \ {c} : d \in keyboard'.typed => d \in keyboard.typed
      /\ c \in keyboard'.typed =>
           \/ c \in keyboard.typed /\ ("shift" \in keyboard.held \/ key # "shift")
           \/ "shift" \in keyboard.held /\ key # "shift"
  BY Typed DEF TestKey
<1>3. /\ Press(key).key = key
      /\ Press(key).held = keyboard.held \union ({key} \intersect Modifiers)
      /\ Press(key).repeated = (key \in keyboard.held)
  BY DEF Press
<1>4. client[c].keys \in KeyStates
  BY ClientIs
<1>5. PICK o \in KeyStates : o = Observe(client[c].keys, Press(key))
  BY <1>4, Observed
<1>6. was.keys.alone =>
        client[c].keys.alone /\ ("shift" \notin Press(key).held \/ key = "shift")
  <2>1. PICK press, mode : press = Press(key) /\ mode = client[c].mode
    OBVIOUS
  <2>2. PICK state \in KeyStates : state = client[c].keys
    BY <1>4
  <2>3. o = Observe(state, press) /\ was.keys = ModeChanged(o, mode)
    BY <1>1, <1>5, <2>1, <2>2
  <2>4. o.alone => state.alone /\ ("shift" \notin press.held \/ press.key = "shift")
    BY <2>3, AloneAfter
  <2>5. ModeChanged(o, mode).alone = o.alone
    BY AloneAfter
  <2> QED BY <1>3, <2>1, <2>2, <2>3, <2>4, <2>5
<1>7. CASE was.keys.alone
  BY <1>6, <1>7, <1>3, <1>2, <1>1, TapMoves DEF TapOK, Tapping
<1>8. CASE was.tested.action = "shiftDown" /\ ~was.tested.repeated
  BY <1>1, <1>3, <1>8, <1>2, TapMoves
<1>9. CASE ~Tapping(was)
  BY <1>1, <1>2, <1>9, TapMoves
<1> QED BY <1>7, <1>8, <1>9 DEF Tapping

\* What handling a key leaves of a tap.
LEMMA HandlesTap ==
  ASSUME CandidateInv, NEW c \in Clients, NEW press, NEW action,
         NEW was, was = Handles(client[c], press, action)
  PROVE  /\ was.mode = client[c].mode
         /\ Tapping(was) => \/ action = "shiftDown" /\ (client[c].keys.alone \/ ~press.repeated)
                            \/ /\ client[c].keys.alone
                               /\ "shift" \notin press.held \/ press.key = "shift"
<1>1. client[c] \in ClientType /\ client[c].keys \in KeyStates
  BY ClientIs
<1>2. PICK keys \in KeyStates : keys = KeyHandled(client[c].keys, press, action)
  BY <1>1, KeyWasHandled
<1>3. was = [client[c] EXCEPT !.tested = Untested, !.keys = keys]
  BY <1>1, <1>2 DEF Handles, ClientType
<1>4. was.mode = client[c].mode /\ was.keys = keys /\ was.tested = Untested
  BY <1>1, <1>3 DEF ClientType
<1>5. Tapping(was) => keys.alone
  <2>1. Untested.action # "shiftDown"
    BY DEF Untested
  <2> QED BY <1>4, <2>1 DEF Tapping
<1>8. PICK state \in KeyStates : state = client[c].keys
  BY <1>1
<1>6. CASE action = "shiftDown"
  <2>1. KeyHandled(state, press, "shiftDown").alone => state.alone \/ ~press.repeated
    BY AloneAfter
  <2> QED BY <1>2, <1>4, <1>5, <1>6, <1>8, <2>1
<1>7. CASE action # "shiftDown"
  <2>1. KeyHandled(state, press, action).alone =>
          state.alone /\ ("shift" \notin press.held \/ press.key = "shift")
    BY <1>7, AloneAfter
  <2> QED BY <1>2, <1>4, <1>5, <1>7, <1>8, <2>1
<1> QED BY <1>6, <1>7

LEMMA TestedKeyTaps ==
  ASSUME CandidateInv, TapOK, NEW c \in Clients, TestedKey(c)
  PROVE  TapOK' /\ Switched
<1>1. PICK press :
        /\ press.repeated = client[c].tested.repeated
        /\ KeysStay(c, Handles(client[c], press, client[c].tested.action))
  BY TestedKeyKeeps
<1>2. PICK was : was = Handles(client[c], press, client[c].tested.action)
  OBVIOUS
<1>3. was.mode = client[c].mode /\ (Tapping(was) => Tapping(client[c]))
  <2>1. PICK action : action = client[c].tested.action
    OBVIOUS
  <2>2. was = Handles(client[c], press, action)
    BY <1>2, <2>1
  <2>3. /\ was.mode = client[c].mode
        /\ Tapping(was) => \/ action = "shiftDown" /\ (client[c].keys.alone \/ ~press.repeated)
                           \/ /\ client[c].keys.alone
                              /\ "shift" \notin press.held \/ press.key = "shift"
    BY <2>2, HandlesTap
  <2> QED BY <1>1, <2>1, <2>3 DEF Tapping
<1>4. keyboard' = keyboard
  BY DEF TestedKey
<1> QED BY <1>1, <1>2, <1>3, <1>4, TapMoves DEF TapOK

LEMMA DirectKeyTaps ==
  ASSUME CandidateInv, TapOK, NEW c \in Clients, NEW key, NEW behind, NEW complete,
         DirectKey(c, key, behind, complete)
  PROVE  TapOK' /\ Switched
<1>1. PICK action : /\ action = "shiftDown" => key = "shift"
                    /\ KeysStay(c, Handles(client[c], Press(key), action))
  BY DirectKeyKeeps
<1>2. PICK was : was = Handles(client[c], Press(key), action)
  OBVIOUS
<1>3. /\ Press(key).key = key
      /\ Press(key).held = keyboard.held \union ({key} \intersect Modifiers)
      /\ Press(key).repeated = (key \in keyboard.held)
  BY DEF Press
<1>4. /\ was.mode = client[c].mode
      /\ Tapping(was) =>
           \/ key = "shift" /\ (client[c].keys.alone \/ key \notin keyboard.held)
           \/ client[c].keys.alone /\ ("shift" \notin keyboard.held \/ key = "shift")
  <2>1. PICK press : press = Press(key)
    OBVIOUS
  <2>2. /\ was.mode = client[c].mode
        /\ Tapping(was) => \/ action = "shiftDown" /\ (client[c].keys.alone \/ ~press.repeated)
                           \/ /\ client[c].keys.alone
                              /\ "shift" \notin press.held \/ press.key = "shift"
    <3>1. was = Handles(client[c], press, action)
      BY <1>2, <2>1
    <3> QED BY ZenonT(30), <3>1, HandlesTap
  <2> QED BY <1>1, <1>3, <2>1, <2>2
<1>5. /\ \A d \in Clients \ {c} : d \in keyboard'.typed => d \in keyboard.typed
      /\ c \in keyboard'.typed =>
           \/ c \in keyboard.typed /\ ("shift" \in keyboard.held \/ key # "shift")
           \/ "shift" \in keyboard.held /\ key # "shift"
  BY Typed DEF DirectKey
<1>6. client[c].keys.alone => c \notin keyboard.typed
  BY DEF TapOK, Tapping
<1>7. Tapping(was) => c \notin keyboard'.typed
  BY <1>4, <1>5, <1>6
<1> QED BY <1>1, <1>2, <1>4, <1>5, <1>7, TapMoves

\* What a context that takes no input is given makes no tap.
LEMMA DeclineTaps ==
  ASSUME CandidateInv, TapOK, NEW c \in Clients,
         (\E key : DeclineKey(c, key)) \/ DeclineTested(c)
  PROVE  TapOK' /\ Switched
<1>1. PICK was : /\ KeysStay(c, was) /\ was.keys = client[c].keys
                 /\ was.mode = client[c].mode /\ was.tested = Untested
  BY DeclineKeeps
<1>2. \A d \in Clients : d \in keyboard'.typed => d \in keyboard.typed
  <2>1. CASE DeclineTested(c)
    BY <2>1 DEF DeclineTested
  <2>2. ASSUME NEW key, DeclineKey(c, key)
        PROVE  \A d \in Clients : d \in keyboard'.typed => d \in keyboard.typed
    BY <2>2, Typed DEF DeclineKey
  <2> QED BY <2>1, <2>2
<1>3. Tapping(was) => Tapping(client[c])
  <2>1. Untested.action # "shiftDown"
    BY DEF Untested
  <2> QED BY <1>1, <2>1 DEF Tapping
<1> QED BY <1>1, <1>2, <1>3, TapMoves DEF TapOK

LEMMA ReleaseKeyTaps ==
  ASSUME CandidateInv, TapOK, NEW c \in Clients, NEW key, ReleaseKey(c, key)
  PROVE  TapOK' /\ Switched
<1>1. PICK was : /\ KeysStay(c, was) /\ was.tested = client[c].tested
                 /\ was.keys.alone => client[c].keys.alone
                 /\ was.mode # client[c].mode => client[c].keys.alone
  BY ReleaseKeyKeeps
<1>2. keyboard'.typed = keyboard.typed
  BY DEF ReleaseKey
<1>3. Tapping(was) => Tapping(client[c])
  BY <1>1 DEF Tapping
<1>4. was.mode # client[c].mode => Tapping(client[c])
  BY <1>1 DEF Tapping
<1> QED BY <1>1, <1>2, <1>3, <1>4, TapMoves DEF TapOK

\* The host's calls leave what is kept between keys alone, or end the text
\* service.
LEMMA HostTaps ==
  ASSUME CandidateInv, TapOK, NEW c \in Clients, Host(c)
  PROVE  TapOK' /\ Switched
<1>1. keyboard' = keyboard
  BY DEF Host, HostSelects, HostTurns, HostFinishes, HostShows, Terminate, GrantEdit, Leave
<1>2. CASE KeysStay(c, client[c])
  BY <1>1, <1>2, TapMoves DEF TapOK
<1>3. CASE Leave(c)
  BY <1>3, <1>1 DEF Leave, CandidateInv, ClientsOK, Tapping, NewClient, NewKeyState,
     Untested, TapOK, Switched, SwitchesAlone
<1> QED BY <1>2, <1>3, HostSelectsKeeps, HostTurnsKeeps, HostFinishesKeeps, HostShowsKeeps,
           TerminateKeeps, GrantEditKeeps DEF Host

LEMMA TapStep ==
  ASSUME CandidateInv, TapOK, [Next]_vars
  PROVE  TapOK' /\ Switched
<1>1. CASE UNCHANGED <<client, keyboard>>
  BY <1>1 DEF TapOK, Tapping, Switched, SwitchesAlone
<1>2. ASSUME NEW c \in calls.clients, NEW key \in calls.keys,
             Key(c, key) \/ DeclineKey(c, key) \/ ReleaseKey(c, key)
      PROVE  TapOK' /\ Switched
  BY <1>2, TestKeyTaps, DirectKeyTaps, DeclineTaps, ReleaseKeyTaps
     DEF CandidateInv, LockOK, Use, Key
<1>3. ASSUME NEW c \in calls.clients, TestedKey(c) \/ DeclineTested(c) \/ Host(c)
      PROVE  TapOK' /\ Switched
  BY <1>3, TestedKeyTaps, DeclineTaps, HostTaps DEF CandidateInv, LockOK, Use
<1>4. ASSUME NEW id \in DOMAIN service.connections, Serve(id)
      PROVE  UNCHANGED <<client, keyboard>>
  BY <1>4 DEF Serve
<1>5. UiThread => UNCHANGED <<client, keyboard>>
  BY DEF UiThread
<1>6. Crash => UNCHANGED <<client, keyboard>>
  BY DEF Crash
<1>7. UNCHANGED vars => UNCHANGED <<client, keyboard>>
  BY DEF vars
<1> QED BY <1>1, <1>2, <1>3, <1>4, <1>5, <1>6, <1>7 DEF Next

\* A release of Shift switches the mode of a text service only if no other key
\* went down there while it was held, in a context that takes input, however late
\* the keys were handled and whatever a context that takes none was given between.
THEOREM TapAlwaysSwitches == Spec => TapSwitches
<1>1. Init => TapOK
  <2>1. ~Tapping(NewClient)
    BY DEF Tapping, NewClient, NewKeyState, Untested
  <2> QED BY <2>1 DEF Init, TapOK
<1>2. CandidateInv /\ TapOK /\ [Next]_vars => TapOK'
  BY TapStep
<1>3. CandidateInv /\ TapOK /\ [Next]_vars
        => [\A c \in Clients : SwitchesAlone(c)]_vars
  BY TapStep DEF Switched
<1> QED BY <1>1, <1>2, <1>3, CandidateInvariant, PTL DEF Spec, TapSwitches
=============================================================================
