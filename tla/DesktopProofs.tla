--------------------------- MODULE DesktopProofs ---------------------------
(* The window manager's tables, selections and grabs, for every number of    *)
(* windows, length of menus and listings, set of applications and number of  *)
(* events.                                                                   *)
(*                                                                           *)
(* A press may raise a window, open or close one and change a listing in one *)
(* turn of the loop, so the invariant is stated about any windows ws, order  *)
(* o and listings li, and each of those parts of a turn is shown to keep it. *)
EXTENDS Desktop, SequenceTheorems, WellFoundedInduction, TLAPS

Holds == {"drag", "resize", "slider", "scroll"}

(* The items a window can remember: some row of some listing.                *)
Shown == {0} \cup {Row(S, r) : S \in SUBSET Item, r \in Nat}

Window == [used : BOOLEAN, type : Types \cup {"none"}, min : BOOLEAN, max : BOOLEAN,
           grab : SUBSET Holds, sel : Nat, item : Shown, moved : SUBSET Causes,
           killed : SUBSET Shown, foc : BOOLEAN, view : {"list", "file"}, ren : BOOLEAN]

(* The row selected still shows the item it was selected for.                *)
Chosen(w, li) == (w.type \in Lists /\ w.sel # 0 /\ w.moved = {}) => w.item = Row(li[w.type], w.sel)

Good(ws, o, li) ==
    /\ ws \in [Wins -> Window] /\ o \in Seq(Wins) /\ li \in [Lists -> SUBSET Item]
    /\ \A m, n \in 1..Len(o) : o[m] = o[n] => m = n
    /\ \A k \in Wins : ws[k].used <=> \E n \in 1..Len(o) : o[n] = k
    /\ \A k \in Wins : Chosen(ws[k], li) /\ (~ws[k].used => ws[k].grab = {})

(* What one press without a second one can leave: nothing held, or one thing *)
(* of one window.                                                            *)
Calm(ws) == \A k \in Wins : ws[k].grab = {}
Held(ws) ==
    /\ \A j, k \in Wins : ws[j].grab # {} /\ ws[k].grab # {} => j = k
    /\ \A k \in Wins : ws[k].grab \in {{}, {"drag"}, {"resize"}, {"slider"}, {"scroll"}}

Acts == {"refresh", "sysinfo", "taskm", "ctrl", "term", "newtxt", "mkdir", "newedit", "save",
         "close", "clear", "about", "open", "del", "run"}
MenuItem == [act : Acts, file : {NoFile} \cup Item]

MenuInv ==
    /\ menu \in Seq(MenuItem) /\ Len(menu) <= MenuMax
    /\ editorMenu \in BOOLEAN /\ editorMenu => owner = Active(order)

GrabInv ==
    /\ down \in BOOLEAN /\ chord \in BOOLEAN
    /\ ~chord => Held(win)
    /\ ~chord /\ ~down => Calm(win)

DeskInv == Good(win, order, lists) /\ MenuInv /\ GrabInv /\ NothingAstray

---------------------------------------------------------------------------
(* Places in the order.                                                      *)

LEMMA FirstIn ==
    ASSUME NEW S \in SUBSET Nat, S # {}
    PROVE  FirstWin(S) \in S /\ \A y \in S : FirstWin(S) <= y
<1> DEFINE R == OpToRel(<, Nat)
<1>1. PICK m \in S : \A u \in S : ~(<<u, m>> \in R)
  <2>1. IsWellFoundedOn(R, Nat)
    BY NatLessThanWellFounded
  <2> HIDE DEF R
  <2> QED
    BY <2>1, WFMin
<1>2. \A u \in S : ~(u < m)
  BY <1>1 DEF OpToRel
<1>3. \E x \in S : \A y \in S : x <= y
  BY <1>2
<1> QED
  BY <1>3 DEF FirstWin

(* A window taken out of an order without repetition.                        *)
LEMMA WithoutSeq ==
    ASSUME NEW o \in Seq(Wins), \A m, n \in 1..Len(o) : o[m] = o[n] => m = n, NEW k \in Wins
    PROVE  LET q == Without(o, k) IN
           /\ q \in Seq(Wins) /\ \A m, n \in 1..Len(q) : q[m] = q[n] => m = n
           /\ \A j \in Wins : (\E n \in 1..Len(q) : q[n] = j) <=> j # k /\ \E n \in 1..Len(o) : o[n] = j
<1> DEFINE q == Without(o, k)
           f == FirstWin(Places(o, k))
<1>0. Len(o) \in Nat /\ DOMAIN o = 1..Len(o) /\ \A n \in 1..Len(o) : o[n] \in Wins
  BY LenProperties
<1>1. CASE Places(o, k) = {}
  <2>1. q = o
    BY <1>1 DEF Without
  <2>2. \A n \in 1..Len(o) : o[n] # k
    BY <1>0, <1>1 DEF Places
  <2> HIDE DEF q
  <2>3. /\ q \in Seq(Wins) /\ \A m, n \in 1..Len(q) : q[m] = q[n] => m = n
        /\ \A j \in Wins : (\E n \in 1..Len(q) : q[n] = j) <=> j # k /\ \E n \in 1..Len(o) : o[n] = j
    BY <2>1, <2>2
  <2> QED
    BY <2>3 DEF q
<1>2. CASE Places(o, k) # {}
  <2>1. f \in 1..Len(o) /\ o[f] = k
    <3>1. Places(o, k) \in SUBSET Nat
      BY <1>0 DEF Places
    <3>2. f \in Places(o, k)
      BY <1>2, <3>1, FirstIn
    <3> HIDE DEF f
    <3> QED
      BY <1>0, <3>2 DEF Places
  <2>2. q = [n \in 1 .. Len(o) - 1 |-> IF n < f THEN o[n] ELSE o[n + 1]]
    BY <1>2 DEF Without
  <2> HIDE DEF f, q
  <2>3. Len(o) - 1 \in Nat
    BY <1>0, <2>1
  <2>4. \A n \in 1..Len(o) - 1 : (IF n < f THEN o[n] ELSE o[n + 1]) \in Wins
    BY <1>0, <2>1
  <2>5. q \in Seq(Wins) /\ Len(q) = Len(o) - 1
    BY <2>2, <2>3, <2>4
  <2>6. \A n \in 1..Len(o) - 1 : q[n] = IF n < f THEN o[n] ELSE o[n + 1]
    BY <2>2
  <2>7. ASSUME NEW m \in 1..Len(q), NEW n \in 1..Len(q), q[m] = q[n] PROVE m = n
    <3>1. m \in 1..Len(o) - 1 /\ n \in 1..Len(o) - 1 /\ m \in 1..Len(o) /\ n \in 1..Len(o)
          /\ m + 1 \in 1..Len(o) /\ n + 1 \in 1..Len(o) /\ m \in Nat /\ n \in Nat /\ f \in Nat
      BY <1>0, <2>1, <2>5
    <3>2. CASE m < f /\ n < f
      BY <2>6, <2>7, <3>1, <3>2
    <3>3. CASE m < f /\ ~(n < f)
      <4>1. o[m] = o[n + 1]
        BY <2>6, <2>7, <3>1, <3>3
      <4>2. m = n + 1
        BY <3>1, <4>1
      <4> QED
        BY <3>1, <3>3, <4>2
    <3>4. CASE ~(m < f) /\ n < f
      <4>1. o[m + 1] = o[n]
        BY <2>6, <2>7, <3>1, <3>4
      <4>2. m + 1 = n
        BY <3>1, <4>1
      <4> QED
        BY <3>1, <3>4, <4>2
    <3>5. CASE ~(m < f) /\ ~(n < f)
      <4>1. o[m + 1] = o[n + 1]
        BY <2>6, <2>7, <3>1, <3>5
      <4>2. m + 1 = n + 1
        BY <3>1, <4>1
      <4> QED
        BY <3>1, <4>2
    <3> QED
      BY <3>2, <3>3, <3>4, <3>5
  <2>8. ASSUME NEW j \in Wins
        PROVE  (\E n \in 1..Len(q) : q[n] = j) <=> j # k /\ \E n \in 1..Len(o) : o[n] = j
    <3>1. ASSUME NEW n \in 1..Len(q), q[n] = j PROVE j # k /\ \E m \in 1..Len(o) : o[m] = j
      <4>1. n \in 1..Len(o) - 1 /\ n \in 1..Len(o) /\ n + 1 \in 1..Len(o) /\ n \in Nat /\ f \in Nat
        BY <1>0, <2>1, <2>5
      <4>2. CASE n < f
        <5>1. o[n] = j
          BY <2>6, <3>1, <4>1, <4>2
        <5>2. n # f
          BY <4>1, <4>2
        <5> QED
          BY <2>1, <4>1, <5>1, <5>2
      <4>3. CASE ~(n < f)
        <5>1. o[n + 1] = j
          BY <2>6, <3>1, <4>1, <4>3
        <5>2. n + 1 # f
          BY <4>1, <4>3
        <5> QED
          BY <2>1, <4>1, <5>1, <5>2
      <4> QED
        BY <4>2, <4>3
    <3>2. ASSUME NEW n \in 1..Len(o), o[n] = j, j # k PROVE \E m \in 1..Len(q) : q[m] = j
      <4>1. n # f /\ n \in Nat /\ f \in Nat
        BY <1>0, <2>1, <3>2
      <4>2. CASE n < f
        <5>1. n \in 1..Len(o) - 1
          BY <1>0, <2>1, <4>1, <4>2
        <5> QED
          BY <2>5, <2>6, <3>2, <4>2, <5>1
      <4>3. CASE n > f
        <5>1. n - 1 \in 1..Len(o) - 1 /\ ~(n - 1 < f) /\ (n - 1) + 1 = n
          BY <1>0, <2>1, <4>1, <4>3
        <5>2. q[n - 1] = o[n]
          BY <2>6, <5>1
        <5> QED
          BY <2>5, <3>2, <5>1, <5>2
      <4> QED
        BY <4>1, <4>2, <4>3
    <3> QED
      BY <3>1, <3>2
  <2> QED
    BY <2>5, <2>7, <2>8 DEF q
<1> QED
  BY <1>1, <1>2

---------------------------------------------------------------------------
(* The parts of a turn.                                                      *)

LEMMA OrderFacts ==
    ASSUME NEW ws, NEW o, NEW li, Good(ws, o, li)
    PROVE  /\ Len(o) \in Nat /\ DOMAIN o = 1..Len(o)
           /\ \A n \in 1..Len(o) : o[n] \in Wins /\ ws[o[n]].used
           /\ o # <<>> => Len(o) > 0 /\ Active(o) = o[Len(o)] /\ Active(o) \in Wins /\ ws[Active(o)].used
           /\ o = <<>> => Active(o) = 0
<1>1. o \in Seq(Wins)
  BY DEF Good
<1>2. Len(o) \in Nat /\ DOMAIN o = 1..Len(o) /\ \A n \in 1..Len(o) : o[n] \in Wins
  BY <1>1, LenProperties
<1>3. \A n \in 1..Len(o) : ws[o[n]].used
  BY <1>2 DEF Good
<1>4. o # <<>> => Len(o) > 0
  BY <1>1, <1>2, EmptySeq
<1>5. o # <<>> => Active(o) = o[Len(o)] /\ Len(o) \in 1..Len(o)
  BY <1>2, <1>4 DEF Active
<1>6. o = <<>> => Active(o) = 0
  BY DEF Active
<1> QED
  BY <1>2, <1>3, <1>4, <1>5, <1>6

LEMMA RaisedGood ==
    ASSUME NEW ws, NEW o, NEW li, Good(ws, o, li), NEW k \in Wins, ws[k].used
    PROVE  Good(ws, Raised(o, k), li) /\ Active(Raised(o, k)) = k /\ Raised(o, k) # <<>>
<1> DEFINE q == Without(o, k)
           r == Append(q, k)
<1>1. /\ o \in Seq(Wins) /\ \A m, n \in 1..Len(o) : o[m] = o[n] => m = n
      /\ \A j \in Wins : ws[j].used <=> \E n \in 1..Len(o) : o[n] = j
  BY DEF Good
<1>2. /\ q \in Seq(Wins) /\ \A m, n \in 1..Len(q) : q[m] = q[n] => m = n
      /\ \A j \in Wins : (\E n \in 1..Len(q) : q[n] = j) <=> j # k /\ \E n \in 1..Len(o) : o[n] = j
  BY <1>1, WithoutSeq
<1>3. Raised(o, k) = r
  <2>1. Places(o, k) # {}
    BY <1>1, OrderFacts DEF Places
  <2> QED
    BY <2>1 DEF Raised
<1> HIDE DEF q
<1>4. /\ r \in Seq(Wins) /\ r # <<>> /\ Len(r) = Len(q) + 1 /\ Len(q) \in Nat
      /\ \A i \in 1..Len(q) : r[i] = q[i]
      /\ r[Len(q) + 1] = k
  BY <1>2, AppendProperties, LenProperties
<1> HIDE DEF r
<1>5. \A i \in 1..Len(r) : (i \in 1..Len(q) /\ r[i] # k) \/ (i = Len(q) + 1 /\ r[i] = k)
  <2> TAKE i \in 1..Len(r)
  <2>1. CASE i \in 1..Len(q)
    <3>1. r[i] = q[i] /\ q[i] \in Wins
      BY <1>2, <1>4, <2>1, LenProperties
    <3>2. q[i] # k
      BY <1>2, <2>1
    <3> QED
      BY <2>1, <3>1, <3>2
  <2>2. CASE i = Len(q) + 1
    BY <1>4, <2>2
  <2> QED
    BY <1>4, <2>1, <2>2
<1>6. ASSUME NEW m \in 1..Len(r), NEW n \in 1..Len(r), r[m] = r[n] PROVE m = n
  <2>1. CASE r[m] = k
    BY <1>5, <1>6, <2>1
  <2>2. CASE r[m] # k
    <3>1. m \in 1..Len(q) /\ n \in 1..Len(q)
      BY <1>5, <1>6, <2>2
    <3> QED
      BY <1>2, <1>4, <1>6, <3>1
  <2> QED
    BY <2>1, <2>2
<1>7. ASSUME NEW j \in Wins PROVE ws[j].used <=> \E n \in 1..Len(r) : r[n] = j
  <2>1. CASE j = k
    <3>1. Len(q) + 1 \in 1..Len(r)
      BY <1>4
    <3> QED
      BY <1>4, <2>1, <3>1
  <2>2. CASE j # k
    <3>1. (\E n \in 1..Len(r) : r[n] = j) <=> (\E n \in 1..Len(q) : q[n] = j)
      <4>1. \A n \in 1..Len(q) : n \in 1..Len(r)
        BY <1>4
      <4> QED
        BY <1>4, <1>5, <2>2, <4>1
    <3> QED
      BY <1>1, <1>2, <2>2, <3>1
  <2> QED
    BY <2>1, <2>2
<1>8. Good(ws, r, li)
  BY <1>4, <1>6, <1>7 DEF Good
<1> QED
  BY <1>3, <1>4, <1>8 DEF Active

LEMMA ClosedWindow ==
    /\ Closed \in Window /\ ~Closed.used /\ Closed.grab = {} /\ Closed.sel = 0
    /\ \A t \in Types : /\ Fresh(t) \in Window /\ Fresh(t).used /\ Fresh(t).grab = {}
                        /\ Fresh(t).sel = 0 /\ Fresh(t).type = t
    /\ RenameBox \in Window /\ RenameBox.used /\ RenameBox.grab = {} /\ RenameBox.sel = 0
<1>1. ASSUME NEW t \in Types \cup {"none"} 
      PROVE  /\ Fresh(t) \in Window /\ Fresh(t).used = TRUE /\ Fresh(t).grab = {}
             /\ Fresh(t).sel = 0 /\ Fresh(t).type = t
  BY DEF Fresh, Window, Shown
<1>2. "dlg" \in Types
  BY DEF Types
<1>3. ASSUME NEW w \in Window
      PROVE  /\ [w EXCEPT !.used = FALSE] \in Window /\ [w EXCEPT !.used = FALSE].used = FALSE
             /\ [w EXCEPT !.used = FALSE].grab = w.grab /\ [w EXCEPT !.used = FALSE].sel = w.sel
             /\ [w EXCEPT !.ren = TRUE] \in Window /\ [w EXCEPT !.ren = TRUE].used = w.used
             /\ [w EXCEPT !.ren = TRUE].grab = w.grab /\ [w EXCEPT !.ren = TRUE].sel = w.sel
  BY DEF Window
<1>4. /\ Closed \in Window /\ ~Closed.used /\ Closed.grab = {} /\ Closed.sel = 0
  <2>1. PICK w : w = Fresh("none")
    OBVIOUS
  <2>2. w \in Window /\ w.used = TRUE /\ w.grab = {} /\ w.sel = 0
    BY <1>1, <2>1
  <2>3. Closed = [w EXCEPT !.used = FALSE]
    BY <2>1 DEF Closed
  <2> QED
    BY <1>3, <2>2, <2>3
<1>5. RenameBox \in Window /\ RenameBox.used /\ RenameBox.grab = {} /\ RenameBox.sel = 0
  <2>1. PICK w : w = Fresh("dlg")
    OBVIOUS
  <2>2. w \in Window /\ w.used = TRUE /\ w.grab = {} /\ w.sel = 0
    BY <1>1, <1>2, <2>1
  <2>3. RenameBox = [w EXCEPT !.ren = TRUE]
    BY <2>1 DEF RenameBox
  <2> QED
    BY <1>3, <2>2, <2>3
<1> QED
  BY <1>1, <1>4, <1>5

LEMMA ClosedGood ==
    ASSUME NEW ws, NEW o, NEW li, Good(ws, o, li), NEW k \in Wins
    PROVE  LET s == CloseWindow(ws, o, k) IN
           Good(s.win, s.order, li) /\ (Calm(ws) => Calm(s.win))
<1> DEFINE v == [ws EXCEPT ![k] = Closed]
           q == Without(o, k)
<1>1. /\ ws \in [Wins -> Window] /\ o \in Seq(Wins) /\ \A m, n \in 1..Len(o) : o[m] = o[n] => m = n
      /\ \A j \in Wins : ws[j].used <=> \E n \in 1..Len(o) : o[n] = j
      /\ \A j \in Wins : Chosen(ws[j], li) /\ (~ws[j].used => ws[j].grab = {})
      /\ li \in [Lists -> SUBSET Item]
  BY DEF Good
<1>2. /\ q \in Seq(Wins) /\ \A m, n \in 1..Len(q) : q[m] = q[n] => m = n
      /\ \A j \in Wins : (\E n \in 1..Len(q) : q[n] = j) <=> j # k /\ \E n \in 1..Len(o) : o[n] = j
  BY <1>1, WithoutSeq
<1>3. v \in [Wins -> Window] /\ v[k] = Closed /\ \A j \in Wins : j # k => v[j] = ws[j]
  BY <1>1, ClosedWindow
<1>4. CloseWindow(ws, o, k).win = v /\ CloseWindow(ws, o, k).order = q
  BY DEF CloseWindow
<1> HIDE DEF v, q
<1>5. \A j \in Wins : v[j].used <=> \E n \in 1..Len(q) : q[n] = j
  BY <1>1, <1>2, <1>3, ClosedWindow
<1>6. \A j \in Wins : Chosen(v[j], li) /\ (~v[j].used => v[j].grab = {})
  BY <1>1, <1>3, ClosedWindow DEF Chosen
<1>7. Good(v, q, li)
  BY <1>1, <1>2, <1>3, <1>5, <1>6 DEF Good
<1>8. Calm(ws) => Calm(v)
  BY <1>3, ClosedWindow DEF Calm
<1> QED
  BY <1>4, <1>7, <1>8

LEMMA OpenedGood ==
    ASSUME NEW ws, NEW o, NEW li, Good(ws, o, li),
           NEW w \in Window, w.used, w.grab = {}, w.sel = 0
    PROVE  LET s == Opened(ws, o, w) IN
           Good(s.win, s.order, li) /\ (Calm(ws) => Calm(s.win))
<1> DEFINE s == Opened(ws, o, w)
<1>1. CASE ~(Len(o) < MaxWin /\ FreeWins(ws) # {})
  <2>1. s.win = ws /\ s.order = o
    BY <1>1 DEF Opened
  <2> HIDE DEF s
  <2>2. Good(s.win, s.order, li) /\ (Calm(ws) => Calm(s.win))
    BY <2>1
  <2> QED
    BY <2>2 DEF s
<1>2. CASE Len(o) < MaxWin /\ FreeWins(ws) # {}
  <2> DEFINE k == FirstWin(FreeWins(ws))
             v == [ws EXCEPT ![k] = w]
             q == Append(o, k)
  <2>1. s.win = v /\ s.order = q
    BY <1>2 DEF Opened
  <2>2. k \in Wins /\ ~ws[k].used
    <3>1. FreeWins(ws) \in SUBSET Nat
      BY DesktopAssumption DEF FreeWins, Wins
    <3>2. k \in FreeWins(ws)
      BY <1>2, <3>1, FirstIn
    <3> HIDE DEF k
    <3> QED
      BY <3>2 DEF FreeWins
  <2>3. /\ ws \in [Wins -> Window] /\ o \in Seq(Wins) /\ \A m, n \in 1..Len(o) : o[m] = o[n] => m = n
        /\ \A j \in Wins : ws[j].used <=> \E n \in 1..Len(o) : o[n] = j
        /\ \A j \in Wins : Chosen(ws[j], li) /\ (~ws[j].used => ws[j].grab = {})
        /\ li \in [Lists -> SUBSET Item]
    BY DEF Good
  <2> HIDE DEF s, k
  <2>4. /\ q \in Seq(Wins) /\ Len(q) = Len(o) + 1 /\ Len(o) \in Nat
        /\ \A i \in 1..Len(o) : q[i] = o[i]
        /\ q[Len(o) + 1] = k
    BY <2>2, <2>3, AppendProperties, LenProperties
  <2>5. v \in [Wins -> Window] /\ v[k] = w /\ \A j \in Wins : j # k => v[j] = ws[j]
    BY <2>2, <2>3
  <2> HIDE DEF v, q
  <2>6. \A i \in 1..Len(q) : (i \in 1..Len(o) /\ q[i] = o[i] /\ q[i] # k) \/ (i = Len(o) + 1 /\ q[i] = k)
    <3> TAKE i \in 1..Len(q)
    <3>1. CASE i \in 1..Len(o)
      BY <2>2, <2>3, <2>4, <3>1
    <3>2. CASE i = Len(o) + 1
      BY <2>4, <3>2
    <3> QED
      BY <2>4, <3>1, <3>2
  <2>7. \A m, n \in 1..Len(q) : q[m] = q[n] => m = n
    BY <2>3, <2>6
  <2>8. ASSUME NEW j \in Wins PROVE v[j].used <=> \E n \in 1..Len(q) : q[n] = j
    <3>1. CASE j = k
      <4>1. Len(o) + 1 \in 1..Len(q)
        BY <2>4
      <4> QED
        BY <2>4, <2>5, <3>1, <4>1
    <3>2. CASE j # k
      <4>1. \A n \in 1..Len(o) : n \in 1..Len(q)
        BY <2>4
      <4>2. (\E n \in 1..Len(q) : q[n] = j) <=> (\E n \in 1..Len(o) : o[n] = j)
        BY <2>4, <2>6, <3>2, <4>1
      <4> QED
        BY <2>3, <2>5, <3>2, <4>2
    <3> QED
      BY <3>1, <3>2
  <2>9. \A j \in Wins : Chosen(v[j], li) /\ (~v[j].used => v[j].grab = {})
    BY <2>3, <2>5, ZenonT(60) DEF Chosen
  <2>10. Good(v, q, li)
    BY <2>3, <2>4, <2>5, <2>7, <2>8, <2>9 DEF Good
  <2>11. Calm(ws) => Calm(v)
    BY <2>5 DEF Calm
  <2>12. Good(s.win, s.order, li) /\ (Calm(ws) => Calm(s.win))
    BY <2>1, <2>10, <2>11
  <2> QED
    BY <2>12 DEF s
<1> QED
  BY <1>1, <1>2

(* One window's fields change.                                               *)
LEMMA EditedGood ==
    ASSUME NEW ws, NEW o, NEW li, Good(ws, o, li), NEW k \in Wins,
           NEW v \in Window, v.used = ws[k].used, Chosen(v, li), ~v.used => v.grab = {}
    PROVE  /\ Good([ws EXCEPT ![k] = v], o, li)
           /\ Calm(ws) /\ v.grab = {} => Calm([ws EXCEPT ![k] = v])
           /\ Calm(ws) /\ (\E h \in Holds : v.grab = {h}) => Held([ws EXCEPT ![k] = v])
<1> DEFINE u == [ws EXCEPT ![k] = v]
<1>1. ws \in [Wins -> Window]
  BY DEF Good
<1>2. u \in [Wins -> Window] /\ u[k] = v /\ \A j \in Wins : j # k => u[j] = ws[j]
  BY <1>1
<1> HIDE DEF u
<1>3. \A j \in Wins : u[j].used = ws[j].used
  BY <1>2
<1>4. \A j \in Wins : Chosen(u[j], li) /\ (~u[j].used => u[j].grab = {})
  BY <1>2 DEF Good
<1>5. Good(u, o, li)
  BY <1>2, <1>3, <1>4 DEF Good
<1>6. Calm(ws) /\ v.grab = {} => Calm(u)
  BY <1>2 DEF Calm
<1>7. ASSUME Calm(ws), NEW h \in Holds, v.grab = {h} PROVE Held(u)
  <2>1. \A j \in Wins : u[j].grab = IF j = k THEN {h} ELSE {}
    BY <1>2, <1>7 DEF Calm
  <2>2. {h} \in {{}, {"drag"}, {"resize"}, {"slider"}, {"scroll"}}
    BY DEF Holds
  <2> QED
    BY <2>1, <2>2 DEF Held
<1> QED
  BY <1>5, <1>6, <1>7 DEF u

LEMMA CalmHeld == ASSUME NEW ws, Calm(ws) PROVE Held(ws)
  BY DEF Calm, Held

(* A window that differs in what is neither selected nor held.               *)
Alike(v, w) ==
    /\ v \in Window /\ v.used = w.used /\ v.type = w.type
    /\ v.sel = w.sel /\ v.item = w.item /\ v.moved = w.moved

LEMMA AlikeFacts ==
    ASSUME NEW w \in Window
    PROVE  /\ \A x \in BOOLEAN : /\ Alike([w EXCEPT !.min = x], w) /\ [w EXCEPT !.min = x].grab = w.grab
                                 /\ Alike([w EXCEPT !.max = x], w) /\ [w EXCEPT !.max = x].grab = w.grab
                                 /\ Alike([w EXCEPT !.foc = x], w) /\ [w EXCEPT !.foc = x].grab = w.grab
           /\ \A x \in SUBSET Shown : Alike([w EXCEPT !.killed = x], w) /\ [w EXCEPT !.killed = x].grab = w.grab
           /\ \A x \in {"list", "file"} :
                  Alike([w EXCEPT !.view = x], w) /\ [w EXCEPT !.view = x].grab = w.grab
           /\ \A x \in SUBSET Holds : Alike([w EXCEPT !.grab = x], w) /\ [w EXCEPT !.grab = x].grab = x
<1>1. ASSUME NEW x \in BOOLEAN
      PROVE  /\ Alike([w EXCEPT !.min = x], w) /\ [w EXCEPT !.min = x].grab = w.grab
             /\ Alike([w EXCEPT !.max = x], w) /\ [w EXCEPT !.max = x].grab = w.grab
             /\ Alike([w EXCEPT !.foc = x], w) /\ [w EXCEPT !.foc = x].grab = w.grab
  BY DEF Alike, Window
<1>2. ASSUME NEW x \in {"list", "file"}
      PROVE  Alike([w EXCEPT !.view = x], w) /\ [w EXCEPT !.view = x].grab = w.grab
  BY DEF Alike, Window
<1>3. ASSUME NEW x \in SUBSET Holds
      PROVE  Alike([w EXCEPT !.grab = x], w) /\ [w EXCEPT !.grab = x].grab = x
  BY DEF Alike, Window
<1>4. ASSUME NEW x \in SUBSET Shown
      PROVE  Alike([w EXCEPT !.killed = x], w) /\ [w EXCEPT !.killed = x].grab = w.grab
  BY DEF Alike, Window
<1> QED
  BY <1>1, <1>2, <1>3, <1>4

(* A used window gets fields it is alike in.                                 *)
LEMMA AlikeGood ==
    ASSUME NEW ws, NEW o, NEW li, Good(ws, o, li), NEW k \in Wins, NEW v, Alike(v, ws[k]),
           v.grab = ws[k].grab \/ ws[k].used
    PROVE  /\ Good([ws EXCEPT ![k] = v], o, li)
           /\ Calm(ws) /\ v.grab = ws[k].grab => Calm([ws EXCEPT ![k] = v])
           /\ Calm(ws) /\ (\E h \in Holds : v.grab = {h}) => Held([ws EXCEPT ![k] = v])
<1>1. v \in Window /\ v.used = ws[k].used
  BY DEF Alike
<1>2. Chosen(v, li)
  <2>1. Chosen(ws[k], li)
    BY DEF Good
  <2> QED
    BY <2>1 DEF Alike, Chosen
<1>3. ~v.used => v.grab = {}
  <2>1. ~ws[k].used => ws[k].grab = {}
    BY DEF Good
  <2> QED
    BY <1>1, <2>1
<1>4. Calm(ws) => ws[k].grab = {}
  BY DEF Calm
<1> QED
  BY <1>1, <1>2, <1>3, <1>4, EditedGood

SelectSteps(w, x, y) == [[[w EXCEPT !.sel = x] EXCEPT !.item = y] EXCEPT !.moved = {}]

LEMMA SelectedWin ==
    ASSUME NEW w \in Window, NEW x \in Nat, NEW y \in Shown
    PROVE  SelectSteps(w, x, y) \in Window
<1>1. ASSUME NEW v \in Window
      PROVE  /\ [v EXCEPT !.sel = x] \in Window /\ [v EXCEPT !.item = y] \in Window
             /\ [v EXCEPT !.moved = {}] \in Window
  BY DEF Window
<1>2. [w EXCEPT !.sel = x] \in Window
  BY <1>1
<1>3. [[w EXCEPT !.sel = x] EXCEPT !.item = y] \in Window
  BY <1>1, <1>2
<1>4. [[[w EXCEPT !.sel = x] EXCEPT !.item = y] EXCEPT !.moved = {}] \in Window
  BY <1>1, <1>3
<1> QED
  BY <1>4 DEF SelectSteps

LEMMA DeselectedWin ==
    ASSUME NEW w \in Window
    PROVE  /\ Deselected(w) \in Window /\ Deselected(w).used = w.used /\ Deselected(w).grab = w.grab
           /\ Deselected(w).sel = 0
<1>1. 0 \in Nat /\ 0 \in Shown
  BY DEF Shown
<1>2. Deselected(w) = SelectSteps(w, 0, 0)
  BY DEF Deselected, SelectSteps, Window
<1>3. SelectSteps(w, 0, 0) \in Window
  BY <1>1, SelectedWin
<1>4. Deselected(w).used = w.used /\ Deselected(w).grab = w.grab /\ Deselected(w).sel = 0
  BY DEF Deselected, Window
<1> QED
  BY <1>2, <1>3, <1>4

LEMMA DeselectedGood ==
    ASSUME NEW ws, NEW o, NEW li, Good(ws, o, li), NEW k \in Wins
    PROVE  /\ Good([ws EXCEPT ![k] = Deselected(@)], o, li)
           /\ Calm(ws) => Calm([ws EXCEPT ![k] = Deselected(@)])
<1> DEFINE v == Deselected(ws[k])
<1>1. ws \in [Wins -> Window] /\ (~ws[k].used => ws[k].grab = {})
  BY DEF Good
<1>2. v \in Window /\ v.used = ws[k].used /\ v.grab = ws[k].grab /\ v.sel = 0
  BY <1>1, DeselectedWin
<1> HIDE DEF v
<1>3. Chosen(v, li)
  BY <1>2 DEF Chosen
<1>4. Good([ws EXCEPT ![k] = v], o, li) /\ (Calm(ws) /\ v.grab = {} => Calm([ws EXCEPT ![k] = v]))
  BY <1>1, <1>2, <1>3, EditedGood
<1>5. Calm(ws) => v.grab = {}
  BY <1>2 DEF Calm
<1> QED
  BY <1>4, <1>5 DEF v

(* A listing changes: every selection in it counts as moved, but k's.        *)
LEMMA MovedWins ==
    ASSUME NEW ws, NEW o, NEW li, Good(ws, o, li), NEW l \in Lists, NEW S \in SUBSET Item, NEW k,
           NEW why \in Causes
    PROVE  LET ms == Moved(ws, l, k, why)
               l2 == [li EXCEPT ![l] = S] IN
           /\ ms \in [Wins -> Window] /\ l2 \in [Lists -> SUBSET Item]
           /\ \A j \in Wins : /\ ms[j].used = ws[j].used /\ ms[j].grab = ws[j].grab
                              /\ j # k => Chosen(ms[j], l2)
<1> DEFINE ms == Moved(ws, l, k, why)
           l2 == [li EXCEPT ![l] = S]
<1>1. ws \in [Wins -> Window] /\ li \in [Lists -> SUBSET Item] /\ \A j \in Wins : Chosen(ws[j], li)
  BY DEF Good
<1>2. l2 \in [Lists -> SUBSET Item] /\ l2[l] = S /\ \A x \in Lists : x # l => l2[x] = li[x]
  BY <1>1
<1>3. ASSUME NEW w \in Window
      PROVE  LET u == [w EXCEPT !.moved = @ \cup {why}] IN
             u \in Window /\ u.moved # {} /\ u.used = w.used /\ u.grab = w.grab
  BY DEF Window
<1>4. \A j \in Wins : ms[j] = IF ws[j].type = l /\ ws[j].sel # 0 /\ j # k
                              THEN [ws[j] EXCEPT !.moved = @ \cup {why}] ELSE ws[j]
  BY DEF Moved
<1>5. ms = [j \in Wins |-> ms[j]]
  BY DEF Moved
<1> HIDE DEF ms, l2
<1>6. ASSUME NEW j \in Wins
      PROVE  /\ ms[j] \in Window /\ ms[j].used = ws[j].used /\ ms[j].grab = ws[j].grab
             /\ j # k => Chosen(ms[j], l2)
  <2>0. ws[j] \in Window
    BY <1>1
  <2>1. CASE ws[j].type = l /\ ws[j].sel # 0 /\ j # k
    <3>1. PICK u : u = [ws[j] EXCEPT !.moved = @ \cup {why}]
      OBVIOUS
    <3>2. ms[j] = u
      BY <1>4, <2>1, <3>1
    <3>3. u \in Window /\ u.moved # {} /\ u.used = ws[j].used /\ u.grab = ws[j].grab
      BY <1>3, <2>0, <3>1
    <3> QED
      BY <3>2, <3>3 DEF Chosen
  <2>2. CASE ~(ws[j].type = l /\ ws[j].sel # 0 /\ j # k)
    <3>1. ms[j] = ws[j]
      BY <1>4, <2>2
    <3>2. j # k => Chosen(ws[j], l2)
      BY <1>1, <1>2, <2>2 DEF Chosen
    <3> QED
      BY <2>0, <3>1, <3>2
  <2> QED
    BY <2>1, <2>2
<1>7. ms \in [Wins -> Window]
  BY <1>5, <1>6
<1> QED
  BY <1>2, <1>6, <1>7 DEF ms, l2

LEMMA MovedGood ==
    ASSUME NEW ws, NEW o, NEW li, Good(ws, o, li), NEW l \in Lists, NEW S \in SUBSET Item,
           NEW why \in Causes
    PROVE  /\ Good(Moved(ws, l, 0, why), o, [li EXCEPT ![l] = S])
           /\ Calm(ws) => Calm(Moved(ws, l, 0, why))
<1> DEFINE ms == Moved(ws, l, 0, why)
           l2 == [li EXCEPT ![l] = S]
<1>1. /\ ms \in [Wins -> Window] /\ l2 \in [Lists -> SUBSET Item]
      /\ \A j \in Wins : /\ ms[j].used = ws[j].used /\ ms[j].grab = ws[j].grab
                         /\ j # 0 => Chosen(ms[j], l2)
  BY MovedWins
<1>2. \A j \in Wins : j # 0
  BY DEF Wins
<1> HIDE DEF ms, l2
<1>3. Good(ms, o, l2)
  BY <1>1, <1>2 DEF Good
<1>4. Calm(ws) => Calm(ms)
  BY <1>1 DEF Calm
<1> QED
  BY <1>3, <1>4 DEF ms, l2

LEMMA MovedDeselected ==
    ASSUME NEW ws, NEW o, NEW li, Good(ws, o, li), NEW l \in Lists, NEW S \in SUBSET Item,
           NEW k \in Wins, NEW why \in Causes
    PROVE  LET ds == [Moved(ws, l, k, why) EXCEPT ![k] = Deselected(@)] IN
           Good(ds, o, [li EXCEPT ![l] = S]) /\ (Calm(ws) => Calm(ds))
<1> DEFINE ms == Moved(ws, l, k, why)
           l2 == [li EXCEPT ![l] = S]
           v == Deselected(ms[k])
           ds == [ms EXCEPT ![k] = v]
<1>1. /\ ms \in [Wins -> Window] /\ l2 \in [Lists -> SUBSET Item]
      /\ \A j \in Wins : /\ ms[j].used = ws[j].used /\ ms[j].grab = ws[j].grab
                         /\ j # k => Chosen(ms[j], l2)
  BY MovedWins
<1> HIDE DEF ms, l2
<1>2. v \in Window /\ v.used = ms[k].used /\ v.grab = ms[k].grab /\ v.sel = 0
  BY <1>1, DeselectedWin
<1> HIDE DEF v
<1>3. ds \in [Wins -> Window] /\ ds[k] = v /\ \A j \in Wins : j # k => ds[j] = ms[j]
  BY <1>1, <1>2
<1> HIDE DEF ds
<1>4. \A j \in Wins : /\ ds[j].used = ws[j].used /\ ds[j].grab = ws[j].grab /\ Chosen(ds[j], l2)
  BY <1>1, <1>2, <1>3 DEF Chosen
<1>5. Good(ds, o, l2)
  BY <1>1, <1>3, <1>4 DEF Good
<1>6. Calm(ws) => Calm(ds)
  BY <1>4 DEF Calm
<1> QED
  BY <1>5, <1>6 DEF ds, v, ms, l2

---------------------------------------------------------------------------
(* What the handlers do, from any windows ws and order o.                    *)

Passes(ws) == Good(win', order', lists') /\ (Calm(ws) => Calm(win'))

LEMMA SameGood ==
    ASSUME NEW ws, NEW o, Good(ws, o, lists), Shows([win |-> ws, order |-> o]), lists' = lists
    PROVE  Passes(ws)
<1>1. win' = ws /\ order' = o
  BY DEF Shows
<1> QED
  BY <1>1 DEF Passes

LEMMA NewWindowGood ==
    ASSUME NEW ws, NEW o, Good(ws, o, lists), NEW w \in Window, w.used, w.grab = {}, w.sel = 0,
           NewWindow(ws, o, w), lists' = lists
    PROVE  Passes(ws)
<1>1. win' = Opened(ws, o, w).win /\ order' = Opened(ws, o, w).order
  BY DEF NewWindow, Shows
<1>2. Good(Opened(ws, o, w).win, Opened(ws, o, w).order, lists) /\ (Calm(ws) => Calm(Opened(ws, o, w).win))
  BY OpenedGood
<1> QED
  BY <1>1, <1>2 DEF Passes

LEMMA CloseGood ==
    ASSUME NEW ws, NEW o, Good(ws, o, lists), NEW k \in Wins,
           Shows(CloseWindow(ws, o, k)), lists' = lists
    PROVE  Passes(ws)
<1>1. win' = CloseWindow(ws, o, k).win /\ order' = CloseWindow(ws, o, k).order
  BY DEF Shows
<1>2. Good(CloseWindow(ws, o, k).win, CloseWindow(ws, o, k).order, lists)
      /\ (Calm(ws) => Calm(CloseWindow(ws, o, k).win))
  BY ClosedGood
<1> QED
  BY <1>1, <1>2 DEF Passes

LEMMA MovedPasses ==
    ASSUME NEW ws, NEW o, Good(ws, o, lists), NEW S \in SUBSET Item, NEW why \in Causes,
           lists' = [lists EXCEPT !["expl"] = S], win' = Moved(ws, "expl", 0, why), order' = o
    PROVE  Passes(ws)
<1>1. "expl" \in Lists
  BY DEF Lists
<1> QED
  BY <1>1, MovedGood DEF Passes

LEMMA ListingType ==
    ASSUME NEW ws, NEW o, Good(ws, o, lists)
    PROVE  /\ lists \in [Lists -> SUBSET Item] /\ "expl" \in Lists /\ lists["expl"] \in SUBSET Item
           /\ "cd" \in Causes /\ "other" \in Causes /\ "kill" \in Causes
           /\ \A new \in NewSlots : lists["expl"] \cup new \in SUBSET Item
           /\ lists = [lists EXCEPT !["expl"] = lists["expl"]]
<1>1. lists \in [Lists -> SUBSET Item] /\ "expl" \in Lists
  BY DEF Good, Lists
<1>2. "cd" \in Causes /\ "other" \in Causes /\ "kill" \in Causes
  BY DEF Causes
<1> QED
  BY <1>1, <1>2 DEF NewSlots

LEMMA WrittenGood ==
    ASSUME NEW ws, NEW o, Good(ws, o, lists), Written(ws, o)
    PROVE  Passes(ws)
<1>1. PICK new \in NewSlots :
         /\ lists' = [lists EXCEPT !["expl"] = @ \cup new]
         /\ Shows([win |-> IF new = {} THEN ws ELSE Moved(ws, "expl", 0, "other"), order |-> o])
  BY DEF Written
<1>2. /\ lists' = [lists EXCEPT !["expl"] = lists["expl"] \cup new]
      /\ win' = (IF new = {} THEN ws ELSE Moved(ws, "expl", 0, "other")) /\ order' = o
  BY <1>1 DEF Shows
<1>3. CASE new = {}
  <2>1. lists["expl"] \cup new = lists["expl"]
    BY <1>3
  <2>2. lists' = lists /\ win' = ws
    BY <1>2, <1>3, <2>1, ListingType
  <2> QED
    BY <1>2, <2>2 DEF Passes
<1>4. CASE new # {}
  BY <1>2, <1>4, ListingType, MovedPasses
<1> QED
  BY <1>3, <1>4

LEMMA ExplMkdirGood ==
    ASSUME NEW ws, NEW o, Good(ws, o, lists), NEW k \in Wins, ExplMkdir(ws, o, k)
    PROVE  Passes(ws) /\ astray' = astray
<1>1. PICK new \in NewSlots :
         /\ lists' = [lists EXCEPT !["expl"] = @ \cup new]
         /\ Shows([win |-> [Moved(ws, "expl", k, "other") EXCEPT ![k] = Deselected(@)], order |-> o])
         /\ UNCHANGED astray
  BY DEF ExplMkdir
<1>2. /\ lists' = [lists EXCEPT !["expl"] = lists["expl"] \cup new]
      /\ win' = [Moved(ws, "expl", k, "other") EXCEPT ![k] = Deselected(@)] /\ order' = o
  BY <1>1 DEF Shows
<1>3. lists["expl"] \cup new \in SUBSET Item /\ "expl" \in Lists /\ "other" \in Causes
  BY ListingType
<1>4. PICK S \in SUBSET Item : lists' = [lists EXCEPT !["expl"] = S]
  BY <1>2, <1>3
<1>5. PICK ds : ds = [Moved(ws, "expl", k, "other") EXCEPT ![k] = Deselected(@)]
  OBVIOUS
<1>6. Good(ds, o, [lists EXCEPT !["expl"] = S]) /\ (Calm(ws) => Calm(ds))
  BY <1>3, <1>5, MovedDeselected
<1>7. Passes(ws)
  BY <1>2, <1>4, <1>5, <1>6 DEF Passes
<1> QED
  BY <1>1, <1>7

(* A button that acts on a selection: right, or on a row that was kept.      *)
LEMMA ChosenHits ==
    ASSUME NEW w, Chosen(w, lists), w.type \in Lists, w.sel # 0, NEW act, NEW kept
    PROVE  Strays(w, act, kept) \in {astray, kept}
  BY DEF Chosen, Strays, Hits

LEMMA ExplDelselGood ==
    ASSUME NEW ws, NEW o, Good(ws, o, lists), NEW k \in Wins, ws[k].type = "expl",
           ExplDelsel(ws, o, k)
    PROVE  Passes(ws) /\ astray' \in {astray} \cup Excused
<1>0. "expl" \in Lists /\ lists["expl"] \in SUBSET Item /\ "other" \in Causes
  BY ListingType
<1>1. ws[k].sel # 0 => Strays(ws[k], "delete", "kept_delete") \in {astray, "kept_delete"}
  <2>1. Chosen(ws[k], lists)
    BY DEF Good
  <2> QED
    BY <1>0, <2>1, ChosenHits
<1>2. CASE ws[k].sel # 0 /\ ws[k].sel <= Cardinality(lists["expl"])
           /\ (\E gone \in {{}, {Hits(ws[k])}} : lists' = [lists EXCEPT !["expl"] = @ \ gone])
           /\ astray' = Strays(ws[k], "delete", "kept_delete")
           /\ Shows([win |-> [Moved(ws, "expl", k, "other") EXCEPT ![k] = Deselected(@)], order |-> o])
  <2>1. PICK S \in SUBSET Item : lists' = [lists EXCEPT !["expl"] = S]
    BY <1>0, <1>2
  <2>2. win' = [Moved(ws, "expl", k, "other") EXCEPT ![k] = Deselected(@)] /\ order' = o
    BY <1>2 DEF Shows
  <2>3. astray' \in {astray} \cup Excused
    BY <1>1, <1>2 DEF Excused
  <2>4. PICK ds : ds = [Moved(ws, "expl", k, "other") EXCEPT ![k] = Deselected(@)]
    OBVIOUS
  <2>5. Good(ds, o, [lists EXCEPT !["expl"] = S]) /\ (Calm(ws) => Calm(ds))
    BY <1>0, <2>4, MovedDeselected
  <2>6. Passes(ws)
    BY <2>1, <2>2, <2>4, <2>5 DEF Passes
  <2> QED
    BY <2>3, <2>6
<1>3. CASE /\ Shows([win |-> [ws EXCEPT ![k] = Deselected(@)], order |-> o])
           /\ UNCHANGED <<lists, astray>>
  <2>1. win' = [ws EXCEPT ![k] = Deselected(@)] /\ order' = o /\ lists' = lists /\ astray' = astray
    BY <1>3 DEF Shows
  <2> QED
    BY <2>1, DeselectedGood DEF Passes
<1>4. CASE Shows([win |-> ws, order |-> o]) /\ UNCHANGED <<lists, astray>>
  BY <1>4, SameGood
<1> QED
  BY <1>2, <1>3, <1>4 DEF ExplDelsel

LEMMA CdGood ==
    ASSUME NEW ws, NEW o, Good(ws, o, lists), Cd(ws, o)
    PROVE  Passes(ws) /\ astray' = astray
<1>1. PICK S \in SUBSET Item : lists' = [lists EXCEPT !["expl"] = S]
  BY DEF Cd
<1>2. win' = Moved(ws, "expl", 0, "cd") /\ order' = o /\ astray' = astray
  BY DEF Cd, Shows
<1> QED
  BY <1>1, <1>2, ListingType, MovedPasses

(* One field of one window.                                                  *)
LEMMA FieldGood ==
    ASSUME NEW ws, NEW o, NEW li, Good(ws, o, li), NEW k \in Wins
    PROVE  /\ \A x \in {"list", "file"} :
                  Good([ws EXCEPT ![k].view = x], o, li) /\ (Calm(ws) => Calm([ws EXCEPT ![k].view = x]))
           /\ \A x \in BOOLEAN :
                /\ Good([ws EXCEPT ![k].min = x], o, li) /\ (Calm(ws) => Calm([ws EXCEPT ![k].min = x]))
                /\ Good([ws EXCEPT ![k].foc = x], o, li) /\ (Calm(ws) => Calm([ws EXCEPT ![k].foc = x]))
           /\ \A x \in SUBSET Shown :
                  Good([ws EXCEPT ![k].killed = x], o, li) /\ (Calm(ws) => Calm([ws EXCEPT ![k].killed = x]))
<1>0. ws[k] \in Window
  BY DEF Good
<1>1. ASSUME NEW v, Alike(v, ws[k]), v.grab = ws[k].grab
      PROVE  Good([ws EXCEPT ![k] = v], o, li) /\ (Calm(ws) => Calm([ws EXCEPT ![k] = v]))
  BY <1>1, AlikeGood
<1>2. ASSUME NEW x \in {"list", "file"}
      PROVE  Good([ws EXCEPT ![k].view = x], o, li) /\ (Calm(ws) => Calm([ws EXCEPT ![k].view = x]))
  <2>1. PICK v : v = [ws[k] EXCEPT !.view = x]
    OBVIOUS
  <2>2. Alike(v, ws[k]) /\ v.grab = ws[k].grab
    BY <1>0, <2>1, AlikeFacts
  <2> QED
    BY <1>1, <2>1, <2>2
<1>3. ASSUME NEW x \in BOOLEAN
      PROVE  Good([ws EXCEPT ![k].min = x], o, li) /\ (Calm(ws) => Calm([ws EXCEPT ![k].min = x]))
  <2>1. PICK v : v = [ws[k] EXCEPT !.min = x]
    OBVIOUS
  <2>2. Alike(v, ws[k]) /\ v.grab = ws[k].grab
    BY <1>0, <2>1, AlikeFacts
  <2> QED
    BY <1>1, <2>1, <2>2
<1>4. ASSUME NEW x \in BOOLEAN
      PROVE  Good([ws EXCEPT ![k].foc = x], o, li) /\ (Calm(ws) => Calm([ws EXCEPT ![k].foc = x]))
  <2>1. PICK v : v = [ws[k] EXCEPT !.foc = x]
    OBVIOUS
  <2>2. Alike(v, ws[k]) /\ v.grab = ws[k].grab
    BY <1>0, <2>1, AlikeFacts
  <2> QED
    BY <1>1, <2>1, <2>2
<1>5. ASSUME NEW x \in SUBSET Shown
      PROVE  Good([ws EXCEPT ![k].killed = x], o, li) /\ (Calm(ws) => Calm([ws EXCEPT ![k].killed = x]))
  <2>1. PICK v : v = [ws[k] EXCEPT !.killed = x]
    OBVIOUS
  <2>2. Alike(v, ws[k]) /\ v.grab = ws[k].grab
    BY <1>0, <2>1, AlikeFacts
  <2> QED
    BY <1>1, <2>1, <2>2
<1> QED
  BY <1>2, <1>3, <1>4, <1>5

LEMMA FreshGood ==
    ASSUME NEW ws, NEW o, Good(ws, o, lists), NEW t \in Types, NewWindow(ws, o, Fresh(t)), lists' = lists
    PROVE  Passes(ws)
  BY NewWindowGood, ClosedWindow

LEMMA OpenFileGood ==
    ASSUME NEW ws, NEW o, Good(ws, o, lists), NEW k \in Wins, OpenFile(ws, o, k)
    PROVE  Passes(ws) /\ astray' = astray
<1>0. lists' = lists /\ astray' = astray
  BY DEF OpenFile
<1>1. CASE Shows([win |-> ws, order |-> o])
  BY <1>0, <1>1, SameGood
<1>2. CASE NewWindow(ws, o, Fresh("edit"))
  <2>1. "edit" \in Types
    BY DEF Types
  <2> QED
    BY <1>0, <1>2, <2>1, FreshGood
<1>3. CASE Shows([win |-> [ws EXCEPT ![k].view = "file"], order |-> o])
  <2>1. win' = [ws EXCEPT ![k].view = "file"] /\ order' = o
    BY <1>3 DEF Shows
  <2>2. "file" \in {"list", "file"}
    OBVIOUS
  <2> QED
    BY <1>0, <2>1, <2>2, FieldGood DEF Passes
<1> QED
  BY <1>1, <1>2, <1>3 DEF OpenFile

---------------------------------------------------------------------------
(* The handlers of a press.                                                  *)

(* What a press that hits something leaves.                                  *)
Kept == Good(win', order', lists') /\ (Calm(win) => Held(win')) /\ astray' \in Excused

LEMMA PassesKept ==
    ASSUME NEW ws, Passes(ws), Calm(win) => Calm(ws), astray' \in Excused
    PROVE  Kept
  BY CalmHeld DEF Passes, Kept

LEMMA EditorExecKeeps ==
    ASSUME Good(win, order, lists), NothingAstray, owner = Active(order),
           NEW act, EditorExec(act)
    PROVE  Kept
<1> DEFINE a == Active(order)
           ed == a # 0 /\ win[a].used /\ win[a].type = "edit"
<1>0. astray' \in Excused
  BY DEF EditorExec, NothingAstray
<1>1. CASE NewWindow(win, order, Fresh("edit")) /\ UNCHANGED lists
  <2>1. "edit" \in Types
    BY DEF Types
  <2>2. Passes(win)
    BY <1>1, <2>1, FreshGood
  <2> QED
    BY <1>0, <2>2, PassesKept
<1>2. CASE Written(win, order)
  <2>1. Passes(win)
    BY <1>2, WrittenGood
  <2> QED
    BY <1>0, <2>1, PassesKept
<1>3. CASE Shows(IF act = "close" /\ ed THEN CloseWindow(win, order, a) ELSE Same) /\ UNCHANGED lists
  <2>1. CASE act = "close" /\ ed
    <3>1. a \in Wins
      BY <2>1, OrderFacts
    <3>2. Shows(CloseWindow(win, order, a)) /\ lists' = lists
      BY <1>3, <2>1
    <3> HIDE DEF a
    <3>3. Passes(win)
      BY <3>1, <3>2, CloseGood
    <3> QED
      BY <1>0, <3>3, PassesKept
  <2>2. CASE ~(act = "close" /\ ed)
    <3>1. Shows([win |-> win, order |-> order]) /\ lists' = lists
      BY <1>3, <2>2 DEF Same
    <3>2. Passes(win)
      BY <3>1, SameGood
    <3> QED
      BY <1>0, <3>2, PassesKept
  <2> QED
    BY <2>1, <2>2
<1> QED
  BY <1>1, <1>2, <1>3 DEF EditorExec

LEMMA ExplorersAt ==
    ASSUME Good(win, order, lists), Explorers # {}
    PROVE  /\ order[CHOOSE n \in Explorers : \A m \in Explorers : n <= m] \in Wins
           /\ order[CHOOSE n \in Explorers : \A m \in Explorers : m <= n] \in Wins
<1>1. /\ Explorers \subseteq 1..Len(order) /\ Len(order) \in Nat
      /\ \A n \in 1..Len(order) : order[n] \in Wins
  BY OrderFacts DEF Explorers
<1>2. Explorers \in SUBSET Nat
  BY <1>1
<1>3. FirstWin(Explorers) \in Explorers
  BY <1>2, FirstIn
<1>4. (CHOOSE n \in Explorers : \A m \in Explorers : n <= m) \in Explorers
  BY <1>3 DEF FirstWin
(* The last one is the first counted from the end.                           *)
<1> DEFINE B == {Len(order) - n : n \in Explorers}
           f == FirstWin(B)
<1>5. B \in SUBSET Nat /\ B # {}
  <2>1. \A n \in Explorers : Len(order) - n \in Nat
    BY <1>1
  <2> QED
    BY <2>1
<1>6. f \in B /\ \A y \in B : f <= y
  BY <1>5, FirstIn
<1> HIDE DEF f
<1>7. PICK n \in Explorers : f = Len(order) - n
  BY <1>6
<1>8. \A m \in Explorers : m <= n
  <2> TAKE m \in Explorers
  <2>1. Len(order) - m \in B
    OBVIOUS
  <2>2. f <= Len(order) - m
    BY <1>6, <2>1
  <2>3. m \in Nat /\ n \in Nat
    BY <1>2
  <2> HIDE DEF B
  <2> QED
    BY <1>1, <1>7, <2>2, <2>3
<1>9. (CHOOSE x \in Explorers : \A m \in Explorers : m <= x) \in Explorers
  BY <1>8
<1> QED
  BY <1>1, <1>4, <1>9

LEMMA MenuExecKeeps ==
    ASSUME Good(win, order, lists), NothingAstray, NEW it, MenuExec(it)
    PROVE  Kept
<1>0. \/ /\ Shows(Same) /\ UNCHANGED <<lists, astray>>
      \/ /\ it.act \in {"term", "newtxt", "sysinfo", "taskm", "ctrl"}
         /\ NewWindow(win, order, Opens(it.act)) /\ UNCHANGED <<lists, astray>>
      \/ /\ Explorers # {}
         /\ ExplMkdir(win, order, order[CHOOSE n \in Explorers : \A m \in Explorers : m <= n])
      \/ /\ Explorers # {}
         /\ OpenFile(win, order, order[CHOOSE n \in Explorers : \A m \in Explorers : n <= m])
      \/ /\ \E gone \in {{}, {it.file}} : lists' = [lists EXCEPT !["expl"] = @ \ gone]
         /\ Shows([win |-> Moved(win, "expl", 0, "other"), order |-> order])
         /\ UNCHANGED astray
  BY DEF MenuExec
<1>1. CASE Shows(Same) /\ UNCHANGED <<lists, astray>>
  <2>1. Passes(win)
    BY <1>1, SameGood DEF Same
  <2> QED
    BY <1>1, <2>1, PassesKept DEF NothingAstray
<1>2. CASE /\ it.act \in {"term", "newtxt", "sysinfo", "taskm", "ctrl"}
           /\ NewWindow(win, order, Opens(it.act)) /\ UNCHANGED <<lists, astray>>
  <2>1. \E t \in Types : Opens(it.act) = Fresh(t)
    BY <1>2 DEF Opens, ControlDemo, Types
  <2>2. Passes(win)
    BY <1>2, <2>1, FreshGood
  <2> QED
    BY <1>2, <2>2, PassesKept DEF NothingAstray
<1>3. CASE /\ Explorers # {}
           /\ ExplMkdir(win, order, order[CHOOSE n \in Explorers : \A m \in Explorers : m <= n])
  <2>1. PICK k : k = order[CHOOSE n \in Explorers : \A m \in Explorers : m <= n]
    OBVIOUS
  <2>2. k \in Wins /\ ExplMkdir(win, order, k)
    BY <1>3, <2>1, ExplorersAt
  <2>3. Passes(win) /\ astray' = astray
    BY <2>2, ExplMkdirGood
  <2> QED
    BY <2>3, PassesKept DEF NothingAstray
<1>4. CASE /\ Explorers # {}
           /\ OpenFile(win, order, order[CHOOSE n \in Explorers : \A m \in Explorers : n <= m])
  <2>1. PICK k : k = order[CHOOSE n \in Explorers : \A m \in Explorers : n <= m]
    OBVIOUS
  <2>2. k \in Wins /\ OpenFile(win, order, k)
    BY <1>4, <2>1, ExplorersAt
  <2>3. Passes(win) /\ astray' = astray
    BY <2>2, OpenFileGood
  <2> QED
    BY <2>3, PassesKept DEF NothingAstray
<1>5. CASE /\ \E gone \in {{}, {it.file}} : lists' = [lists EXCEPT !["expl"] = @ \ gone]
           /\ Shows([win |-> Moved(win, "expl", 0, "other"), order |-> order])
           /\ UNCHANGED astray
  <2>1. lists["expl"] \in SUBSET Item
    BY ListingType
  <2>2. PICK S \in SUBSET Item : lists' = [lists EXCEPT !["expl"] = S]
    BY <1>5, <2>1
  <2>3. win' = Moved(win, "expl", 0, "other") /\ order' = order
    BY <1>5 DEF Shows
  <2>4. Passes(win)
    BY <2>2, <2>3, ListingType, MovedPasses
  <2> QED
    BY <1>5, <2>4, PassesKept DEF NothingAstray
<1> QED
  BY <1>0, <1>1, <1>2, <1>3, <1>4, <1>5

(* A window's own edit, in an order where it may have been raised.           *)
LEMMA EditKeeps ==
    ASSUME NEW o, Good(win, o, lists), NEW k \in Wins, win[k].used,
           NEW v, Alike(v, win[k]),
           win[k].grab = {} => v.grab = {} \/ \E h \in Holds : v.grab = {h},
           Shows([win |-> [win EXCEPT ![k] = v], order |-> o]), lists' = lists, astray' \in Excused
    PROVE  Kept
<1>1. win' = [win EXCEPT ![k] = v] /\ order' = o
  BY DEF Shows
<1>2. /\ Good([win EXCEPT ![k] = v], o, lists)
      /\ Calm(win) /\ v.grab = win[k].grab => Calm([win EXCEPT ![k] = v])
      /\ Calm(win) /\ (\E h \in Holds : v.grab = {h}) => Held([win EXCEPT ![k] = v])
  BY AlikeGood
<1>3. Calm(win) => win[k].grab = {}
  BY DEF Calm
<1>4. Calm(win) => Held(win')
  BY <1>1, <1>2, <1>3, CalmHeld
<1> QED
  BY <1>1, <1>2, <1>4 DEF Kept

LEMMA OnFrameKeeps ==
    ASSUME Good(win, order, lists), NothingAstray, NEW k \in Visible, OnFrame(k)
    PROVE  Kept
<1> DEFINE w == win[k]
           o == Raised(order, k)
<1>0. k \in Wins /\ w.used /\ w \in Window /\ lists' = lists /\ astray' \in Excused
  BY DEF Visible, OnFrame, Good, NothingAstray
<1>1. Good(win, o, lists)
  BY <1>0, RaisedGood
<1>2. w.grab \in SUBSET Holds /\ w.max \in BOOLEAN
  BY <1>0 DEF Window
<1>3. \/ Shows([win |-> [win EXCEPT ![k] = [w EXCEPT !.grab = (w.grab \ {"drag"}) \cup {"resize"}]], order |-> o])
      \/ Shows([win |-> [win EXCEPT ![k] = [w EXCEPT !.grab = w.grab \cup {"scroll"}]], order |-> order])
      \/ Shows(CloseWindow(win, order, k))
      \/ Shows([win |-> [win EXCEPT ![k] = [w EXCEPT !.max = ~w.max]], order |-> order])
      \/ Shows([win |-> [win EXCEPT ![k] = [w EXCEPT !.min = TRUE]], order |-> order])
      \/ Shows([win |-> [win EXCEPT ![k] = IF w.max THEN w
                                           ELSE [w EXCEPT !.grab = (w.grab \ {"resize"}) \cup {"drag"}]],
                order |-> o])
  BY DEF OnFrame
<1> HIDE DEF o
<1>4. CASE Shows([win |-> [win EXCEPT ![k] = [w EXCEPT !.grab = (w.grab \ {"drag"}) \cup {"resize"}]], order |-> o])
  <2> DEFINE g == (w.grab \ {"drag"}) \cup {"resize"}
  <2>1. g \in SUBSET Holds /\ "resize" \in Holds /\ (w.grab = {} => g = {"resize"})
    BY <1>2 DEF Holds
  <2>2. PICK v : v = [w EXCEPT !.grab = g]
    OBVIOUS
  <2> HIDE DEF g
  <2>3. Alike(v, w) /\ v.grab = g
    BY <1>0, <2>1, <2>2, AlikeFacts
  <2>4. Shows([win |-> [win EXCEPT ![k] = v], order |-> o])
    BY <1>4, <2>2 DEF g
  <2> HIDE DEF w
  <2> QED
    BY <1>0, <1>1, <2>1, <2>3, <2>4, EditKeeps DEF w
<1>5. CASE Shows([win |-> [win EXCEPT ![k] = [w EXCEPT !.grab = w.grab \cup {"scroll"}]], order |-> order])
  <2> DEFINE g == w.grab \cup {"scroll"}
  <2>1. g \in SUBSET Holds /\ "scroll" \in Holds /\ (w.grab = {} => g = {"scroll"})
    BY <1>2 DEF Holds
  <2>2. PICK v : v = [w EXCEPT !.grab = g]
    OBVIOUS
  <2> HIDE DEF g
  <2>3. Alike(v, w) /\ v.grab = g
    BY <1>0, <2>1, <2>2, AlikeFacts
  <2>4. Shows([win |-> [win EXCEPT ![k] = v], order |-> order])
    BY <1>5, <2>2 DEF g
  <2> QED
    BY <1>0, <2>1, <2>3, <2>4, EditKeeps
<1>6. CASE Shows(CloseWindow(win, order, k))
  <2>1. Passes(win)
    BY <1>0, <1>6, CloseGood
  <2> QED
    BY <1>0, <2>1, PassesKept
<1>7. CASE \/ Shows([win |-> [win EXCEPT ![k] = [w EXCEPT !.max = ~w.max]], order |-> order])
           \/ Shows([win |-> [win EXCEPT ![k] = [w EXCEPT !.min = TRUE]], order |-> order])
  <2>1. PICK v \in {[w EXCEPT !.max = ~w.max], [w EXCEPT !.min = TRUE]} :
           Shows([win |-> [win EXCEPT ![k] = v], order |-> order])
    BY <1>7
  <2>2. Alike(v, w) /\ v.grab = w.grab
    <3>1. PICK b \in BOOLEAN : b = ~w.max
      BY <1>2
    <3>2. v = [w EXCEPT !.max = b] \/ v = [w EXCEPT !.min = TRUE]
      BY <2>1, <3>1
    <3>3. CASE v = [w EXCEPT !.max = b]
      BY <1>0, <3>3, AlikeFacts
    <3>4. CASE v = [w EXCEPT !.min = TRUE]
      BY <1>0, <3>4, AlikeFacts
    <3> QED
      BY <3>2, <3>3, <3>4
  <2> QED
    BY <1>0, <2>1, <2>2, EditKeeps
<1>8. CASE Shows([win |-> [win EXCEPT ![k] = IF w.max THEN w
                                             ELSE [w EXCEPT !.grab = (w.grab \ {"resize"}) \cup {"drag"}]],
                  order |-> o])
  <2> DEFINE g == (w.grab \ {"resize"}) \cup {"drag"}
  <2>1. g \in SUBSET Holds /\ "drag" \in Holds /\ (w.grab = {} => g = {"drag"})
    BY <1>2 DEF Holds
  <2>2. PICK u : u = [w EXCEPT !.grab = g]
    OBVIOUS
  <2>3. PICK v : v = IF w.max THEN w ELSE u
    OBVIOUS
  <2> HIDE DEF g
  <2>4. Alike(u, w) /\ u.grab = g
    BY <1>0, <2>1, <2>2, AlikeFacts
  <2>5. Alike(v, w) /\ (w.grab = {} => v.grab = {} \/ v.grab = {"drag"})
    BY <1>0, <1>2, <2>1, <2>3, <2>4 DEF Alike
  <2>6. Shows([win |-> [win EXCEPT ![k] = v], order |-> o])
    BY <1>8, <2>2, <2>3 DEF g
  <2> QED
    BY <1>0, <1>1, <2>1, <2>5, <2>6, EditKeeps
<1> QED
  BY <1>3, <1>4, <1>5, <1>6, <1>7, <1>8

LEMMA OnTaskbarKeeps ==
    ASSUME Good(win, order, lists), NothingAstray, OnTaskbar
    PROVE  Kept
<1>0. lists' = lists /\ astray' \in Excused
  BY DEF OnTaskbar, NothingAstray
<1>1. ASSUME NEW n \in DOMAIN order,
             Shows([win |-> [win EXCEPT ![order[n]].min = FALSE], order |-> Raised(order, order[n])])
      PROVE  Kept
  <2>1. PICK k : k = order[n]
    OBVIOUS
  <2>2. k \in Wins /\ win[k].used
    BY <2>1, OrderFacts
  <2>3. win' = [win EXCEPT ![k].min = FALSE] /\ order' = Raised(order, k)
    BY <1>1, <2>1 DEF Shows
  <2>4. Good(win, Raised(order, k), lists)
    BY <2>2, RaisedGood
  <2>5. Good([win EXCEPT ![k].min = FALSE], Raised(order, k), lists)
        /\ (Calm(win) => Calm([win EXCEPT ![k].min = FALSE]))
    BY <2>2, <2>4, FieldGood
  <2>6. Passes(win)
    BY <1>0, <2>3, <2>5 DEF Passes
  <2> QED
    BY <1>0, <2>6, PassesKept
<1>2. CASE Shows(Same)
  <2>1. Passes(win)
    BY <1>0, <1>2, SameGood DEF Same
  <2> QED
    BY <1>0, <2>1, PassesKept
<1> QED
  BY <1>1, <1>2 DEF OnTaskbar

LEMMA OnDesktopKeeps ==
    ASSUME Good(win, order, lists), NothingAstray, OnDesktop
    PROVE  Kept
<1>0. lists' = lists /\ astray' \in Excused
  BY DEF OnDesktop, NothingAstray
<1>1. ASSUME NEW w \in {Explorer} \cup {Fresh(t) : t \in {"term", "edit", "calc", "task"}},
             NewWindow(win, order, w)
      PROVE  Kept
  <2>1. PICK t \in Types : w = Fresh(t)
    BY DEF Explorer, Types
  <2>2. Passes(win)
    BY <1>0, <1>1, <2>1, FreshGood
  <2> QED
    BY <1>0, <2>2, PassesKept
<1>2. CASE Shows(Same)
  <2>1. Passes(win)
    BY <1>0, <1>2, SameGood DEF Same
  <2> QED
    BY <1>0, <2>1, PassesKept
<1> QED
  BY <1>1, <1>2 DEF OnDesktop

(* The inside of a window: k is raised first.                                *)
LEMMA ControlsKeep ==
    ASSUME NothingAstray, NEW o, Good(win, o, lists), NEW k \in Wins, win[k].used,
           o # <<>>, Active(o) = k
    PROVE  /\ TaskButton(k, o) => Kept
           /\ ExplButton(k, o) => Kept
           /\ DlgButton(k, o) => Kept
           /\ OtherControl(k, o) => Kept
<1>0. win[k] \in Window /\ Chosen(win[k], lists)
  BY DEF Good
<1>1. ASSUME TaskButton(k, o) PROVE Kept
  <2>1. win[k].type = "task" /\ "task" \in Lists
    BY <1>1 DEF TaskButton, Lists
  <2>2. CASE Shows([win |-> win, order |-> o]) /\ UNCHANGED <<lists, astray>>
    <3>1. Passes(win)
      BY <2>2, SameGood
    <3> QED
      BY <2>2, <3>1, PassesKept DEF NothingAstray
  <2>3. CASE /\ win[k].sel # 0 /\ astray' = Strays(win[k], "kill", "kept_kill")
             /\ Shows([win |-> [win EXCEPT ![k].killed = @ \cup {Hits(win[k])}], order |-> o])
             /\ lists' = lists
    <3>1. PICK x : x = win[k].killed \cup {Hits(win[k])}
      OBVIOUS
    <3>2. win[k].killed \in SUBSET Shown /\ win[k].sel \in Nat /\ lists["task"] \in SUBSET Item
      BY <1>0, <2>1 DEF Window, Good
    <3>3. x \in SUBSET Shown
      BY <2>1, <3>1, <3>2 DEF Hits, Shown
    <3>4. win' = [win EXCEPT ![k].killed = x] /\ order' = o
      BY <2>3, <3>1 DEF Shows
    <3>5. Passes(win)
      BY <2>3, <3>3, <3>4, FieldGood DEF Passes
    <3>6. astray' \in Excused
      BY <1>0, <2>1, <2>3, ChosenHits DEF NothingAstray, Excused
    <3> QED
      BY <3>5, <3>6, PassesKept
  <2> QED
    BY <1>1, <2>2, <2>3 DEF TaskButton
<1>2. ASSUME ExplButton(k, o) PROVE Kept
  <2>0. win[k].type = "expl"
    BY <1>2 DEF ExplButton
  <2>1. CASE ExplMkdir(win, o, k)
    <3>1. Passes(win) /\ astray' = astray
      BY <2>1, ExplMkdirGood
    <3> QED
      BY <3>1, PassesKept DEF NothingAstray
  <2>2. CASE ExplDelsel(win, o, k)
    <3>1. Passes(win) /\ astray' \in {astray} \cup Excused
      BY <2>0, <2>2, ExplDelselGood
    <3> QED
      BY <3>1, PassesKept DEF NothingAstray
  <2>3. CASE NewWindow(win, o, RenameBox) /\ UNCHANGED <<lists, astray>>
    <3>1. Passes(win)
      BY <2>3, NewWindowGood, ClosedWindow
    <3> QED
      BY <2>3, <3>1, PassesKept DEF NothingAstray
  <2> QED
    BY <1>2, <2>1, <2>2, <2>3 DEF ExplButton
<1>3. ASSUME DlgButton(k, o) PROVE Kept
  <2>1. Shows(CloseWindow(win, o, k)) /\ lists' = lists /\ astray' \in Excused
    BY <1>3 DEF DlgButton, NothingAstray
  <2>2. Passes(win)
    BY <2>1, CloseGood
  <2> QED
    BY <2>1, <2>2, PassesKept
<1>4. ASSUME OtherControl(k, o) PROVE Kept
  <2>0. MessageBox \in Window /\ MessageBox.used /\ MessageBox.grab = {} /\ MessageBox.sel = 0
    <3>1. "dlg" \in Types
      BY DEF Types
    <3> QED
      BY <3>1, ClosedWindow DEF MessageBox
  <2>1. CASE Written(Opened(win, o, MessageBox).win, Opened(win, o, MessageBox).order) /\ UNCHANGED astray
    <3>1. PICK s : s = Opened(win, o, MessageBox)
      OBVIOUS
    <3>2. Good(s.win, s.order, lists) /\ (Calm(win) => Calm(s.win))
      BY <2>0, <3>1, OpenedGood
    <3>3. Written(s.win, s.order) /\ astray' \in Excused
      BY <2>1, <3>1 DEF NothingAstray
    <3>4. Passes(s.win)
      BY <3>2, <3>3, WrittenGood
    <3> QED
      BY <3>2, <3>3, <3>4, PassesKept
  <2>2. CASE NewWindow(win, o, MessageBox) /\ UNCHANGED <<lists, astray>>
    <3>1. Passes(win)
      BY <2>0, <2>2, NewWindowGood
    <3> QED
      BY <2>2, <3>1, PassesKept DEF NothingAstray
  <2>3. CASE Shows([win |-> [win EXCEPT ![k].foc = TRUE], order |-> o]) /\ UNCHANGED <<lists, astray>>
    <3>1. win' = [win EXCEPT ![k].foc = TRUE] /\ order' = o
      BY <2>3 DEF Shows
    <3>2. Passes(win)
      BY <2>3, <3>1, FieldGood DEF Passes
    <3> QED
      BY <2>3, <3>2, PassesKept DEF NothingAstray
  <2>4. CASE Shows([win |-> [win EXCEPT ![k].grab = @ \cup {"slider"}], order |-> o])
             /\ UNCHANGED <<lists, astray>>
    <3> DEFINE g == win[k].grab \cup {"slider"}
    <3>1. g \in SUBSET Holds /\ "slider" \in Holds /\ (win[k].grab = {} => g = {"slider"})
      BY <1>0 DEF Holds, Window
    <3>2. PICK v : v = [win[k] EXCEPT !.grab = g]
      OBVIOUS
    <3>3. Shows([win |-> [win EXCEPT ![k] = v], order |-> o]) /\ lists' = lists /\ astray' \in Excused
      BY <2>4, <3>2 DEF NothingAstray
    <3> HIDE DEF g
    <3>4. Alike(v, win[k]) /\ v.grab = g
      BY <1>0, <3>1, <3>2, AlikeFacts, ZenonT(30)
    <3> QED
      BY <3>1, <3>3, <3>4, EditKeeps
  <2>5. CASE Shows([win |-> win, order |-> o]) /\ UNCHANGED <<lists, astray>>
    <3>1. Passes(win)
      BY <2>5, SameGood
    <3> QED
      BY <2>5, <3>1, PassesKept DEF NothingAstray
  <2> QED
    BY <1>4, <2>1, <2>2, <2>3, <2>4, <2>5 DEF OtherControl
<1> QED
  BY <1>1, <1>2, <1>3, <1>4

LEMMA OnRowKeeps ==
    ASSUME NothingAstray, NEW o, Good(win, o, lists), NEW k \in Wins, win[k].used,
           win[k].type \in Lists, OnRow(k, o)
    PROVE  Kept
<1> DEFINE w == win[k]
<1>0. w \in Window /\ lists[w.type] \in SUBSET Item
  BY DEF Good
<1>1. PICK r \in 1 .. Cardinality(lists[w.type]) :
       \/ /\ w.type = "expl" /\ w.sel = r
          /\ \/ OpenFile(win, o, k)
             \/ Cd([win EXCEPT ![k].view = "list"], o)
       \/ /\ w.type = "task" \/ w.sel # r
          /\ Shows([win |-> [win EXCEPT ![k].sel = r, ![k].item = Row(lists[w.type], r),
                                        ![k].moved = {}], order |-> o])
          /\ UNCHANGED <<lists, astray>>
  BY DEF OnRow
<1>2. CASE OpenFile(win, o, k)
  <2>1. Passes(win) /\ astray' = astray
    BY <1>2, OpenFileGood
  <2> QED
    BY <2>1, PassesKept DEF NothingAstray
<1>3. CASE Cd([win EXCEPT ![k].view = "list"], o)
  <2>1. PICK ws : ws = [win EXCEPT ![k].view = "list"]
    OBVIOUS
  <2>2. Good(ws, o, lists) /\ (Calm(win) => Calm(ws))
    BY <2>1, FieldGood
  <2>3. Passes(ws) /\ astray' = astray
    BY <1>3, <2>1, <2>2, CdGood
  <2> QED
    BY <2>2, <2>3, PassesKept DEF NothingAstray
<1>4. CASE /\ Shows([win |-> [win EXCEPT ![k].sel = r, ![k].item = Row(lists[w.type], r),
                                         ![k].moved = {}], order |-> o])
           /\ UNCHANGED <<lists, astray>>
  <2>1. r \in Nat /\ Row(lists[w.type], r) \in Shown
    BY <1>0 DEF Shown
  <2>2. PICK y \in Shown : y = Row(lists[w.type], r)
    BY <2>1
  <2>3. PICK v : v = [w EXCEPT !.sel = r, !.item = y, !.moved = {}]
    OBVIOUS
  <2>4. /\ v \in Window /\ v.used = w.used /\ v.type = w.type /\ v.grab = w.grab
        /\ v.sel = r /\ v.item = y /\ v.moved = {}
    <3> HIDE DEF w
    <3>1. w \in Window /\ r \in Nat /\ y \in Shown
      BY <1>0, <2>1, <2>2
    <3>2. v = SelectSteps(w, r, y)
      BY <2>3, <3>1 DEF SelectSteps, Window
    <3>3. SelectSteps(w, r, y) \in Window
      BY <3>1, SelectedWin
    <3>4. /\ v.used = w.used /\ v.type = w.type /\ v.grab = w.grab
          /\ v.sel = r /\ v.item = y /\ v.moved = {}
      BY <2>3, <3>1 DEF Window
    <3> QED
      BY <3>2, <3>3, <3>4
  <2>5. win' = [win EXCEPT ![k] = v] /\ order' = o /\ lists' = lists /\ astray' \in Excused
    <3>1. win \in [Wins -> Window]
      BY DEF Good
    <3>2. [win EXCEPT ![k].sel = r, ![k].item = y, ![k].moved = {}] = [win EXCEPT ![k] = v]
      BY <2>3, <3>1
    <3> QED
      BY <1>4, <2>2, <3>2 DEF Shows, NothingAstray
  <2>6. Chosen(v, lists)
    BY <2>2, <2>4 DEF Chosen
  <2>7. /\ Good([win EXCEPT ![k] = v], o, lists)
        /\ Calm(win) /\ v.grab = {} => Calm([win EXCEPT ![k] = v])
    BY <2>4, <2>6, EditedGood
  <2>8. Calm(win) => v.grab = {}
    BY <2>4 DEF Calm
  <2>9. Passes(win)
    BY <2>5, <2>7, <2>8 DEF Passes
  <2> QED
    BY <2>5, <2>9, PassesKept
<1> QED
  BY <1>1, <1>2, <1>3, <1>4

(* Raising k leaves it on top, so the menu of an editor has its own editor.  *)
LEMMA OnBodyKeeps ==
    ASSUME Good(win, order, lists), NothingAstray, NEW k \in Visible, OnBody(k)
    PROVE  Kept
<1> DEFINE w == win[k]
           o == Raised(order, k)
<1>0. k \in Wins /\ w.used
  BY DEF Visible
<1>1. Good(win, o, lists) /\ Active(o) = k /\ o # <<>>
  BY <1>0, RaisedGood
<1>2. \/ TaskButton(k, o)
      \/ ExplButton(k, o)
      \/ DlgButton(k, o)
      \/ OtherControl(k, o)
      \/ w.type \in Lists /\ OnRow(k, o)
      \/ Cd([win EXCEPT ![k].view = "list"], o)
      \/ Shows([win |-> win, order |-> o]) /\ UNCHANGED <<lists, astray>>
  BY DEF OnBody
<1> HIDE DEF o
<1>3. CASE TaskButton(k, o) \/ ExplButton(k, o) \/ DlgButton(k, o) \/ OtherControl(k, o)
  BY <1>0, <1>1, <1>3, ControlsKeep
<1>4. CASE w.type \in Lists /\ OnRow(k, o)
  BY <1>0, <1>1, <1>4, OnRowKeeps
<1>5. CASE Cd([win EXCEPT ![k].view = "list"], o)
  <2>1. PICK ws : ws = [win EXCEPT ![k].view = "list"]
    OBVIOUS
  <2>2. Good(ws, o, lists) /\ (Calm(win) => Calm(ws))
    BY <1>0, <1>1, <2>1, FieldGood
  <2>3. Passes(ws) /\ astray' = astray
    BY <1>5, <2>1, <2>2, CdGood
  <2> QED
    BY <2>2, <2>3, PassesKept DEF NothingAstray
<1>6. CASE Shows([win |-> win, order |-> o]) /\ UNCHANGED <<lists, astray>>
  <2>1. Passes(win)
    BY <1>1, <1>6, SameGood
  <2> QED
    BY <1>6, <2>1, PassesKept DEF NothingAstray
<1> QED
  BY <1>2, <1>3, <1>4, <1>5, <1>6

---------------------------------------------------------------------------
(* Menus.                                                                    *)

LEMMA EntriesType == ASSUME NEW a \in Seq(Acts) PROVE Entries(a) \in Seq(MenuItem)
<1>1. Len(a) \in Nat /\ DOMAIN a = 1..Len(a) /\ \A n \in 1..Len(a) : a[n] \in Acts
  BY LenProperties
<1>2. \A n \in 1..Len(a) : [act |-> a[n], file |-> NoFile] \in MenuItem
  BY <1>1 DEF MenuItem
<1>3. Entries(a) = [n \in 1..Len(a) |-> [act |-> a[n], file |-> NoFile]]
  BY <1>1 DEF Entries, Entry
<1> QED
  BY <1>1, <1>2, <1>3

LEMMA MenusType ==
    /\ DeskMenu \in Seq(MenuItem) /\ ExplMenu \in Seq(MenuItem) /\ BarMenu \in Seq(MenuItem)
    /\ \A m \in EditMenus : m \in Seq(MenuItem)
    /\ \A i \in Item : \A m \in FileMenus(i) : m \in Seq(MenuItem)
<1>1. /\ <<"refresh", "sysinfo", "taskm", "ctrl", "term", "newtxt">> \in Seq(Acts)
      /\ <<"mkdir", "refresh", "sysinfo", "taskm", "ctrl", "term">> \in Seq(Acts)
      /\ <<"newtxt", "sysinfo", "taskm", "ctrl">> \in Seq(Acts)
  BY DEF Acts
<1>2. <<"newedit", "save", "close">> \in Seq(Acts) /\ <<"clear">> \in Seq(Acts) /\ <<"about">> \in Seq(Acts)
  BY DEF Acts
<1>3. ASSUME NEW i \in Item, NEW m \in FileMenus(i) PROVE m \in Seq(MenuItem)
  <2> DEFINE a == [act |-> "open", file |-> i]
             b == [act |-> "run", file |-> i]
             c == [act |-> "del", file |-> i]
  <2>1. a \in MenuItem /\ b \in MenuItem /\ c \in MenuItem
    BY DEF MenuItem, Acts
  <2>2. m = <<a, c>> \/ m = <<a, b, c>>
    BY DEF FileMenus
  <2> HIDE DEF a, b, c, MenuItem
  <2>3. <<a, c>> \in Seq(MenuItem) /\ <<a, b, c>> \in Seq(MenuItem)
    BY <2>1
  <2> QED
    BY <2>2, <2>3
<1>4. DeskMenu \in Seq(MenuItem) /\ ExplMenu \in Seq(MenuItem) /\ BarMenu \in Seq(MenuItem)
  BY <1>1, EntriesType DEF DeskMenu, ExplMenu, BarMenu
<1>5. \A m \in EditMenus : m \in Seq(MenuItem)
  BY <1>2, EntriesType DEF EditMenus
<1> QED
  BY <1>3, <1>4, <1>5

(* menu_add never goes past the end of menu_items[].                         *)
LEMMA MenuFits ==
    ASSUME NEW m \in Seq(MenuItem), NEW items \in Seq(MenuItem)
    PROVE  MenuAdd(m, items) \in Seq(MenuItem) /\ Len(MenuAdd(m, items)) <= MenuMax
<1> DEFINE all == m \o items
           n == IF Len(all) > MenuMax THEN MenuMax ELSE Len(all)
<1>1. all \in Seq(MenuItem)
  BY ConcatProperties
<1>2. MenuAdd(m, items) = SubSeq(all, 1, n)
  BY DEF MenuAdd
<1> HIDE DEF all
<1>3. Len(all) \in Nat /\ n \in Nat /\ n <= MenuMax /\ n <= Len(all)
  BY <1>1, DesktopAssumption
<1> HIDE DEF n
<1>4. \A i \in 1..n : all[i] \in MenuItem
  BY <1>1, <1>3
<1>5. SubSeq(all, 1, n) \in Seq(MenuItem) /\ Len(SubSeq(all, 1, n)) = n
  BY <1>3, <1>4, SubSeqProperties
<1> QED
  BY <1>2, <1>3, <1>5

LEMMA NoMenu == <<>> \in Seq(MenuItem) /\ Len(<<>>) <= MenuMax
<1>1. <<>> \in Seq(MenuItem) /\ Len(<<>>) = 0
  BY EmptySeq
<1> QED
  BY <1>1, DesktopAssumption

LEMMA PressMenus ==
    ASSUME Good(win, order, lists), MenuInv, NEW m, LeftPress(m)
    PROVE  MenuInv'
<1>1. CASE MenuClear
  BY <1>1, NoMenu DEF MenuClear, MenuInv
<1>2. CASE Shows(Same) /\ UNCHANGED <<menu, editorMenu, owner>>
  <2>1. order' = order
    BY <1>2 DEF Shows, Same
  <2> QED
    BY <1>2, <2>1 DEF MenuInv, Active
<1>3. ASSUME NEW k \in Visible, OnBody(k), ~MenuClear PROVE MenuInv'
  <2>1. k \in Wins /\ win[k].used
    BY DEF Visible
  <2>2. Active(Raised(order, k)) = k
    BY <2>1, RaisedGood
  <2>3. \/ /\ menu' = MenuAdd(<<>>, BarMenu) /\ editorMenu' = FALSE
        \/ /\ \E x \in EditMenus : menu' = MenuAdd(<<>>, x)
           /\ editorMenu' = TRUE /\ owner' = k
           /\ Shows([win |-> win, order |-> Raised(order, k)])
    BY <1>3 DEF OnBody
  <2>4. CASE menu' = MenuAdd(<<>>, BarMenu) /\ editorMenu' = FALSE
    BY <2>4, NoMenu, MenusType, MenuFits DEF MenuInv
  <2>5. CASE /\ \E x \in EditMenus : menu' = MenuAdd(<<>>, x)
             /\ editorMenu' = TRUE /\ owner' = k
             /\ Shows([win |-> win, order |-> Raised(order, k)])
    <3>1. PICK x \in EditMenus : menu' = MenuAdd(<<>>, x)
      BY <2>5
    <3>2. menu' \in Seq(MenuItem) /\ Len(menu') <= MenuMax
      BY <3>1, NoMenu, MenusType, MenuFits
    <3>3. order' = Raised(order, k)
      BY <2>5 DEF Shows
    <3>4. Active(order)' = k
      BY <2>2, <3>3 DEF Active
    <3> QED
      BY <2>5, <3>2, <3>4 DEF MenuInv
  <2> QED
    BY <2>3, <2>4, <2>5
<1>4. \/ MenuClear
      \/ Shows(Same) /\ UNCHANGED <<menu, editorMenu, owner>>
      \/ \E k \in Visible : OnBody(k)
  BY DEF LeftPress, OnMenu, OnTaskbar, OnFrame, OnDesktop
<1> QED
  BY <1>1, <1>2, <1>3, <1>4

LEMMA PressKeeps ==
    ASSUME DeskInv, NEW m, LeftPress(m)
    PROVE  Kept
<1>0. Good(win, order, lists) /\ NothingAstray /\ MenuInv
  BY DEF DeskInv
<1>1. CASE OnMenu
  <2>1. CASE Shows(Same) /\ UNCHANGED <<lists, astray>>
    <3>1. Passes(win)
      BY <1>0, <2>1, SameGood DEF Same
    <3> QED
      BY <1>0, <2>1, <3>1, PassesKept DEF NothingAstray
  <2>2. ASSUME NEW n \in DOMAIN menu,
               IF editorMenu THEN EditorExec(menu[n].act) ELSE MenuExec(menu[n])
        PROVE  Kept
    <3>1. CASE editorMenu
      BY <1>0, <2>2, <3>1, EditorExecKeeps DEF MenuInv
    <3>2. CASE ~editorMenu
      BY <1>0, <2>2, <3>2, MenuExecKeeps
    <3> QED
      BY <3>1, <3>2
  <2> QED
    BY <1>1, <2>1, <2>2 DEF OnMenu
<1>2. CASE OnTaskbar
  BY <1>0, <1>2, OnTaskbarKeeps
<1>3. CASE \E k \in Visible : OnFrame(k) \/ OnBody(k)
  BY <1>0, <1>3, OnFrameKeeps, OnBodyKeeps
<1>4. CASE OnDesktop
  BY <1>0, <1>4, OnDesktopKeeps
<1> QED
  BY <1>1, <1>2, <1>3, <1>4 DEF LeftPress

---------------------------------------------------------------------------
(* The other events.                                                         *)

LEMMA ReleaseKeeps ==
    ASSUME DeskInv, Release
    PROVE  Good(win', order', lists') /\ GrabInv'
<1>0. Good(win, order, lists) /\ GrabInv /\ order' = order /\ lists' = lists /\ down' = FALSE /\ chord' = chord
  BY DEF DeskInv, Release
<1>01. win \in [Wins -> Window]
  BY <1>0 DEF Good
<1>1. CASE Holding = {}
  <2>1. win' = win
    BY <1>1 DEF Release
  <2>2. Calm(win)
    <3> SUFFICES ASSUME NEW k \in Wins, win[k].grab # {} PROVE FALSE
      BY DEF Calm
    <3>1. PICK n \in 1..Len(order) : order[n] = k
      BY <1>0 DEF Good
    <3>2. n \in Holding
      BY <1>0, <3>1, OrderFacts DEF Holding
    <3> QED
      BY <1>1, <3>2
  <2> QED
    BY <1>0, <2>1, <2>2, CalmHeld DEF GrabInv
<1>2. CASE Holding # {}
  <2>1. PICK n : n = FirstWin(Holding) /\ n \in Holding
    <3>1. Holding \in SUBSET Nat
      BY <1>0, OrderFacts DEF Holding
    <3> QED
      BY <1>2, <3>1, FirstIn
  <2>2. PICK k : k = order[n]
    OBVIOUS
  <2>3. k \in Wins /\ win[k].used /\ win[k].grab # {} /\ win[k] \in Window
    <3>0. DOMAIN order = 1..Len(order)
      BY <1>0, OrderFacts
    <3>1. n \in 1..Len(order) /\ win[order[n]].grab # {}
      BY <2>1, <3>0 DEF Holding
    <3>2. order[n] \in Wins /\ win[order[n]].used
      BY <1>0, <3>1, OrderFacts
    <3> QED
      BY <1>01, <2>2, <3>1, <3>2
  <2>4. PICK g : g = Let(win[k].grab)
    OBVIOUS
  <2>5. g \in SUBSET win[k].grab /\ g \in SUBSET Holds
    <3>1. win[k].grab \in SUBSET Holds
      BY <2>3 DEF Window
    <3>2. g \subseteq win[k].grab
      BY <2>4 DEF Let
    <3> QED
      BY <3>1, <3>2
  <2>6. PICK v : v = [win[k] EXCEPT !.grab = g]
    OBVIOUS
  <2>7. Alike(v, win[k]) /\ v.grab = g
    BY <2>3, <2>5, <2>6, AlikeFacts
  <2>8. win' = [win EXCEPT ![k] = v]
    BY <1>2, <2>1, <2>2, <2>4, <2>6 DEF Release
  <2>9. Good(win', order', lists')
    BY <1>0, <2>3, <2>7, <2>8, AlikeGood
  <2>10. ASSUME ~chord PROVE Calm(win')
    <3>1. Held(win)
      BY <1>0, <2>10 DEF GrabInv
    <3>2. win[k].grab \in {{"drag"}, {"resize"}, {"slider"}, {"scroll"}}
      BY <2>3, <3>1 DEF Held
    <3>3. g = {}
      BY <2>4, <3>2 DEF Let
    <3>4. \A j \in Wins : j # k => win[j].grab = {}
      BY <2>3, <3>1 DEF Held
    <3> QED
      BY <1>01, <2>3, <2>7, <2>8, <3>3, <3>4 DEF Calm
  <2>11. GrabInv'
    BY <1>0, <2>10, CalmHeld DEF GrabInv
  <2> QED
    BY <2>9, <2>11
<1> QED
  BY <1>1, <1>2

LEMMA EnterKeeps ==
    ASSUME DeskInv, Enter
    PROVE  Good(win', order', lists') /\ (Calm(win) => Calm(win')) /\ (Held(win) => Held(win')) /\ order' = order
           /\ astray' = astray
<1> DEFINE a == Active(order)
<1>0. Good(win, order, lists) /\ a \in Wins /\ win[a].used /\ win \in [Wins -> Window]
  BY OrderFacts DEF DeskInv, Enter, Good
<1>1. CASE /\ Shows([win |-> [win EXCEPT ![a].foc = FALSE, ![a].grab = @ \ {"slider"}], order |-> order])
           /\ UNCHANGED <<lists, astray>>
  <2>1. PICK g : g = win[a].grab \ {"slider"}
    OBVIOUS
  <2>2. win[a] \in Window /\ g \in SUBSET Holds /\ g \subseteq win[a].grab
    <3>1. win[a] \in Window
      BY <1>0
    <3> HIDE DEF a
    <3>2. win[a].grab \in SUBSET Holds
      BY <3>1 DEF Window
    <3> QED
      BY <2>1, <3>1, <3>2
  <2>3. PICK u : u = [win[a] EXCEPT !.foc = FALSE]
    OBVIOUS
  <2>4. PICK v : v = [u EXCEPT !.grab = g]
    OBVIOUS
  <2>5. win' = [win EXCEPT ![a] = v] /\ order' = order /\ lists' = lists /\ astray' = astray
    <3> HIDE DEF a
    <3>1. u.grab = win[a].grab
      BY <2>2, <2>3 DEF Window
    <3>2. [win EXCEPT ![a].foc = FALSE, ![a].grab = @ \ {"slider"}] = [win EXCEPT ![a] = v]
      BY <1>0, <2>1, <2>3, <2>4, <3>1
    <3> QED
      BY <1>1, <3>2 DEF Shows
  <2> HIDE DEF a
  <2>6. Alike(u, win[a]) /\ Alike(v, win[a]) /\ v.grab = g
    <3>1. Alike(u, win[a])
      BY <2>2, <2>3, AlikeFacts
    <3>2. Alike(v, u) /\ v.grab = g
      BY <2>2, <2>4, <3>1, AlikeFacts DEF Alike
    <3> QED
      BY <3>1, <3>2 DEF Alike
  <2>7. Good(win', order', lists')
    BY <1>0, <2>5, <2>6, AlikeGood
  <2>8. win'[a] = v /\ \A j \in Wins : j # a => win'[j] = win[j]
    BY <1>0, <2>5
  <2>9. Calm(win) => Calm(win')
    BY <1>0, <2>2, <2>6, <2>8 DEF Calm
  <2>10. ASSUME Held(win) PROVE Held(win')
    <3>1. \A j \in Wins : win'[j].grab # {} => win[j].grab # {}
      BY <2>2, <2>6, <2>8
    <3>2. win[a].grab \in {{}, {"drag"}, {"resize"}, {"slider"}, {"scroll"}}
      BY <1>0, <2>10 DEF Held
    <3>3. g \in {{}, {"drag"}, {"resize"}, {"slider"}, {"scroll"}}
      BY <2>1, <3>2
    <3> QED
      BY <2>6, <2>8, <2>10, <3>1, <3>3 DEF Held
  <2> QED
    BY <2>5, <2>7, <2>9, <2>10
<1>2. CASE Cd(win, order)
  <2>1. PICK S \in SUBSET Item : lists' = [lists EXCEPT !["expl"] = S]
    BY <1>2 DEF Cd
  <2>2. win' = Moved(win, "expl", 0, "cd") /\ order' = order /\ astray' = astray
    BY <1>2 DEF Cd, Shows
  <2>3. "expl" \in Lists /\ "cd" \in Causes
    BY DEF Lists, Causes
  <2>4. \A j \in Wins : win'[j].grab = win[j].grab
    BY <1>0, <2>1, <2>2, <2>3, MovedWins, SMTT(30)
  <2>5. Good(win', order', lists')
    BY <1>0, <2>1, <2>2, <2>3, MovedGood
  <2> QED
    BY <2>2, <2>4, <2>5 DEF Calm, Held
<1> QED
  BY <1>1, <1>2 DEF Enter

LEMMA ElsewhereKeeps ==
    ASSUME DeskInv, Elsewhere
    PROVE  Good(win', order', lists') /\ (Calm(win) => Calm(win')) /\ (Held(win) => Held(win')) /\ order' = order
           /\ astray' = astray
<1>1. PICK l \in Lists, S \in SUBSET Item :
         /\ lists' = [lists EXCEPT ![l] = S] /\ win' = Moved(win, l, 0, "other")
         /\ UNCHANGED <<order, astray>>
  BY DEF Elsewhere
<1>2. Good(win, order, lists) /\ "other" \in Causes
  BY DEF DeskInv, Causes
<1>3. \A j \in Wins : win'[j].grab = win[j].grab
  BY <1>1, <1>2, MovedWins, SMTT(30)
<1>4. Good(win', order', lists')
  BY <1>1, <1>2, MovedGood
<1> QED
  BY <1>1, <1>3, <1>4 DEF Calm, Held

(* The task that a kill button hit has ended.                                *)
LEMMA DiesKeeps ==
    ASSUME DeskInv, Dies
    PROVE  Good(win', order', lists') /\ (Calm(win) => Calm(win')) /\ (Held(win) => Held(win')) /\ order' = order
           /\ astray' = astray
<1>0. PICK k \in Wins : \E x \in win[k].killed \cap lists["task"] :
         /\ lists' = [lists EXCEPT !["task"] = @ \ {x}]
         /\ win' = Moved([win EXCEPT ![k].killed = @ \ {x}], "task", 0, "kill")
         /\ UNCHANGED <<order, menu, editorMenu, owner, mask, down, chord, astray>>
  BY Zenon DEF Dies
<1>1. PICK x \in win[k].killed \cap lists["task"] :
         /\ lists' = [lists EXCEPT !["task"] = @ \ {x}]
         /\ win' = Moved([win EXCEPT ![k].killed = @ \ {x}], "task", 0, "kill")
         /\ order' = order /\ astray' = astray
  BY <1>0
<1>2. Good(win, order, lists) /\ "kill" \in Causes /\ "task" \in Lists
  BY DEF DeskInv, Causes, Lists
<1>3. win \in [Wins -> Window] /\ lists \in [Lists -> SUBSET Item]
  BY <1>2 DEF Good
<1>4. PICK y : y = win[k].killed \ {x}
  OBVIOUS
<1>5. y \in SUBSET Shown
  BY <1>3, <1>4 DEF Window
<1>6. PICK v : v = [win[k] EXCEPT !.killed = y]
  OBVIOUS
<1>7. PICK ws : ws = [win EXCEPT ![k] = v]
  OBVIOUS
<1>8. v.grab = win[k].grab /\ Alike(v, win[k])
  BY <1>3, <1>5, <1>6, AlikeFacts
<1>9. Good(ws, order, lists)
  BY <1>2, <1>7, <1>8, AlikeGood
<1>10. win' = Moved(ws, "task", 0, "kill")
  BY <1>1, <1>3, <1>4, <1>6, <1>7
<1>11. PICK S \in SUBSET Item : lists' = [lists EXCEPT !["task"] = S]
  BY <1>1, <1>2, <1>3
<1>12. \A j \in Wins : win'[j].grab = ws[j].grab
  BY <1>2, <1>9, <1>10, <1>11, MovedWins
<1>13. \A j \in Wins : win'[j].grab = win[j].grab
  BY <1>3, <1>7, <1>8, <1>12
<1>14. order' = order /\ astray' = astray
  BY <1>1
<1>15. Good(win', order', lists')
  BY <1>2, <1>9, <1>10, <1>11, <1>14, MovedGood
<1>16. (Calm(win) => Calm(win')) /\ (Held(win) => Held(win'))
  BY <1>13 DEF Calm, Held
<1> QED
  BY <1>14, <1>15, <1>16

(* The menus after the events that are no left press.                        *)
LEMMA OtherMenus ==
    ASSUME DeskInv, RightPress \/ Release \/ Overflow \/ Enter \/ Dies \/ Elsewhere, order' = order
    PROVE  MenuInv'
<1>0. MenuInv /\ Good(win, order, lists)
  BY DEF DeskInv
<1>1. Active(order)' = Active(order)
  BY DEF Active
<1>2. CASE UNCHANGED <<menu, editorMenu, owner>>
  BY <1>0, <1>1, <1>2 DEF MenuInv
<1>3. CASE menu' = MenuAdd(menu, DeskMenu) /\ UNCHANGED <<editorMenu, owner>>
  BY <1>0, <1>1, <1>3, MenusType, MenuFits DEF MenuInv
<1>4. CASE menu' = MenuAdd(<<>>, ExplMenu) /\ editorMenu' = FALSE
  BY <1>4, NoMenu, MenusType, MenuFits DEF MenuInv
<1>5. CASE /\ \E i \in lists["expl"] : \E m \in FileMenus(i) : menu' = MenuAdd(<<>>, m)
           /\ editorMenu' = FALSE
  <2>1. PICK i \in lists["expl"] : \E m \in FileMenus(i) : menu' = MenuAdd(<<>>, m)
    BY <1>5
  <2>2. i \in Item
    BY <1>0, ListingType
  <2>3. PICK m \in FileMenus(i) : menu' = MenuAdd(<<>>, m)
    BY <2>1
  <2>4. m \in Seq(MenuItem)
    BY <2>2, MenusType
  <2> QED
    BY <1>5, <2>3, <2>4, NoMenu, MenuFits DEF MenuInv
<1> QED
  BY <1>2, <1>3, <1>4, <1>5 DEF RightPress, Release, Overflow, Enter, Dies, Elsewhere

---------------------------------------------------------------------------
LEMMA DeskStart == Init => DeskInv
<1> SUFFICES ASSUME Init PROVE DeskInv
  OBVIOUS
<1>1. /\ win = [k \in Wins |-> Closed] /\ order = <<>> /\ menu = <<>> /\ editorMenu = FALSE
      /\ lists = [l \in Lists |-> Item] /\ down = FALSE /\ chord = FALSE /\ astray = "none"
  BY DEF Init
<1>2. \A k \in Wins : win[k] = Closed
  BY <1>1
<1>3. win \in [Wins -> Window] /\ lists \in [Lists -> SUBSET Item]
  BY <1>1, ClosedWindow
<1>4. order \in Seq(Wins) /\ Len(order) = 0
  BY <1>1, EmptySeq
<1>5. Good(win, order, lists)
  BY <1>2, <1>3, <1>4, ClosedWindow DEF Good, Chosen
<1>6. Calm(win)
  BY <1>2, ClosedWindow DEF Calm
<1>7. MenuInv
  BY <1>1, NoMenu DEF MenuInv
<1> QED
  BY <1>1, <1>5, <1>6, <1>7, CalmHeld DEF DeskInv, GrabInv, NothingAstray, Excused

LEMMA DeskSteps ==
    ASSUME DeskInv, [Next]_vars
    PROVE  DeskInv'
<1>0. Good(win, order, lists) /\ MenuInv /\ GrabInv /\ NothingAstray
  BY DEF DeskInv
<1>1. ASSUME NEW m \in SUBSET {"l", "r"}, LeftPress(m) PROVE DeskInv'
  <2>1. Kept
    BY <1>1, PressKeeps
  <2>2. MenuInv'
    BY <1>0, <1>1, PressMenus
  <2>3. down' = TRUE /\ chord' = (chord \/ down)
    BY <1>1 DEF LeftPress
  <2>4. GrabInv'
    BY <1>0, <2>1, <2>3 DEF GrabInv, Kept
  <2> QED
    BY <2>1, <2>2, <2>4 DEF DeskInv, Kept, NothingAstray
<1>2. CASE RightPress \/ Overflow
  <2>1. UNCHANGED <<win, order, lists, down, chord, astray>>
    BY <1>2 DEF RightPress, Overflow
  <2>2. MenuInv'
    BY <1>2, <2>1, OtherMenus
  <2> QED
    BY <1>0, <2>1, <2>2 DEF DeskInv, GrabInv, NothingAstray
<1>3. CASE Release
  <2>1. order' = order /\ astray' = astray
    BY <1>3 DEF Release
  <2> QED
    BY <1>0, <1>3, <2>1, ReleaseKeeps, OtherMenus DEF DeskInv, NothingAstray
<1>4. CASE Enter \/ Dies \/ Elsewhere
  <2>1. /\ Good(win', order', lists') /\ (Calm(win) => Calm(win')) /\ (Held(win) => Held(win'))
        /\ order' = order /\ astray' = astray
    BY <1>4, EnterKeeps, DiesKeeps, ElsewhereKeeps
  <2>2. down' = down /\ chord' = chord
    BY <1>4 DEF Enter, Dies, Elsewhere
  <2>3. GrabInv'
    BY <1>0, <2>1, <2>2 DEF GrabInv
  <2>4. MenuInv'
    BY <1>4, <2>1, OtherMenus
  <2> QED
    BY <1>0, <2>1, <2>3, <2>4 DEF DeskInv, NothingAstray
<1>5. CASE UNCHANGED vars
  BY <1>0, <1>5 DEF vars, DeskInv, GrabInv, MenuInv, NothingAstray, Active
<1> QED
  BY <1>1, <1>2, <1>3, <1>4, <1>5 DEF Next, Event

LEMMA DeskAlways == Spec => []DeskInv
  BY DeskStart, DeskSteps, PTL DEF Spec

(* order[] lists each window in use exactly once, and the menu stays within  *)
(* menu_items[], whatever is opened, raised, closed and clicked, for every   *)
(* size of the tables (open_window, win_raise, close_window and menu_add).   *)
THEOREM TablesAlwaysExact == Spec => []TablesExact
<1>1. DeskInv => TablesExact
  <2> SUFFICES ASSUME Good(win, order, lists), MenuInv PROVE TablesExact
    BY DEF DeskInv
  <2>1. DOMAIN order = 1..Len(order) /\ \A n \in 1..Len(order) : order[n] \in Wins /\ win[order[n]].used
    BY OrderFacts
  <2>2. {order[n] : n \in DOMAIN order} = {k \in Wins : win[k].used}
    BY <2>1 DEF Good
  <2>3. \A m, n \in DOMAIN order : order[m] = order[n] => m = n
    BY <2>1 DEF Good
  <2> QED
    BY <2>2, <2>3 DEF TablesExact, MenuInv
<1> QED
  BY <1>1, DeskAlways, PTL

(* Menus, OK, delete and kill (menu_exec, ctrl_press, expl_delsel) act on    *)
(* what the user had chosen, unless another window, a menu or another        *)
(* program changed the listing under the selection.  All that the user can   *)
(* do to his own selection besides is to kill the task selected, or to enter *)
(* another directory, and to press the button again: the program keeps the   *)
(* row then, and that is no other case than the two that are named.          *)
THEOREM NeverAstray == Spec => []NothingAstray
<1>1. DeskInv => NothingAstray
  BY DEF DeskInv
<1> QED
  BY <1>1, DeskAlways, PTL

(* A release leaves no window dragged, resized or scrolled, as long as no    *)
(* press was handled while another was.                                      *)
THEOREM GrabsAlwaysReleased == Spec => []GrabsReleased
<1>1. DeskInv => GrabsReleased
  BY DEF DeskInv, GrabInv, GrabsReleased, Calm
<1> QED
  BY <1>1, DeskAlways, PTL

============================================================================
