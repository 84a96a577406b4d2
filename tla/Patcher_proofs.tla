--------------------------- MODULE Patcher_proofs ---------------------------
(***************************************************************************)
(* Proofs about Patcher, for any addresses, names, classes and bounds.     *)
(* Contents is the part of the inductive invariant about the boxes and the *)
(* lines: one lemma per tool shows that it keeps it.                       *)
(***************************************************************************)
EXTENDS Patcher, Sequence_proofs

(* The list names the boxes, each once.                                    *)
Listed == order \in Seq(Addrs) /\ NoRepeat(order) /\ DOMAIN box = Range(order)

(* What Max sees to: every patchline joins two boxes of the patcher at nubs *)
(* they have, and no two join the same nubs.                               *)
LinesMeetBoxes ==
  /\ \A l \in lines : /\ {l.src, l.dst} \subseteq Alive
                      /\ l.outlet < Outs[box[l.src].class]
                      /\ l.inlet < Ins[box[l.dst].class]
  /\ \A k, l \in lines : Joins(k, l.src, l.outlet, l.dst, l.inlet) => k = l

Contents ==
  /\ Listed
  /\ \A b \in Alive : box[b] \in Box
  /\ \A l \in lines : l \in Line
  /\ LinesMeetBoxes

Flags ==
  /\ dirty \in BOOLEAN /\ changed \in BOOLEAN /\ lost \in BOOLEAN
  /\ reply \in {"none", "ok", "error"}
  /\ ChangesMarkDirty

Inv == Contents /\ Flags

-----------------------------------------------------------------------------
(* The helpers.                                                            *)

(* find_box_by_varname yields a box of the patcher, or none.               *)
LEMMA BoxFound ==
  ASSUME Contents, NEW n, FindBox(n) # NoAddr
  PROVE  FindBox(n) \in Alive
<1> DEFINE I == {j \in 1..Len(order) : box[order[j]].name = n}
<1>1. SelectInSeq(order, LAMBDA b : box[b].name = n) = IF I # {} THEN Min(I) ELSE 0
  BY DEF SelectInSeq
<1>2. I \in SUBSET Nat
  OBVIOUS
<1> HIDE DEF I
<1>3. I # {} /\ FindBox(n) = order[Min(I)]
  BY <1>1 DEF FindBox
<1>4. Min(I) \in I
  BY <1>2, <1>3, Least
<1>5. Min(I) \in 1..Len(order)
  BY <1>4 DEF I
<1>6. order \in Seq(Addrs)
  BY DEF Contents, Listed
<1> QED BY <1>3, <1>5, <1>6 DEF Alive, Range

(* A box leaves the list.                                                  *)
LEMMA BoxLeaves ==
  ASSUME Contents, NEW b \in Alive
  PROVE  /\ RemoveFirst(order, b) \in Seq(Addrs)
         /\ NoRepeat(RemoveFirst(order, b))
         /\ Range(RemoveFirst(order, b)) = Alive \ {b}
<1>1. order \in Seq(Addrs) /\ NoRepeat(order)
  BY DEF Contents, Listed
<1> QED BY <1>1, RemovedFirst DEF Alive

(* A box enters it, at either end.                                         *)
LEMMA BoxEnters ==
  ASSUME NEW s \in Seq(Addrs), NoRepeat(s), NEW a \in Addrs, a \notin Range(s),
         NEW t \in Placed(a, s)
  PROVE  /\ t \in Seq(Addrs) /\ NoRepeat(t)
         /\ Range(t) = Range(s) \cup {a}
<1>1. CASE t = Append(s, a)
  BY <1>1, Appended
<1>2. CASE t = <<a>> \o s
  BY <1>2, Prepended
<1> QED BY <1>1, <1>2 DEF Placed

LEMMA AliveAddrs ==
  ASSUME Contents PROVE Alive \subseteq Addrs
<1>1. order \in Seq(Addrs)
  BY DEF Contents, Listed
<1> QED BY <1>1, RangeOfSeq DEF Alive

LEMMA Untouched ==
  ASSUME Contents, UNCHANGED contents PROVE Contents'
BY DEF Contents, contents, Listed, Alive, LinesMeetBoxes

(* What the tools that only change boxes, or only lines, have to show.     *)
LEMMA SameLines ==
  ASSUME Contents, UNCHANGED <<order, lines>>,
         DOMAIN box' = DOMAIN box,
         \A b \in Alive : box'[b] \in Box /\ box'[b].class = box[b].class
  PROVE  Contents'
<1>1. Listed' /\ Alive' = Alive
  BY DEF Contents, Listed, Alive
<1>2. LinesMeetBoxes'
  BY <1>1 DEF Contents, LinesMeetBoxes, Joins
<1> QED BY <1>1, <1>2 DEF Contents

LEMMA SameBoxes ==
  ASSUME Contents, UNCHANGED <<order, box>>,
         \A l \in lines' : l \in Line,
         LinesMeetBoxes'
  PROVE  Contents'
BY DEF Contents, Listed, Alive

-----------------------------------------------------------------------------
(* ObjectTools.                                                            *)

LEMMA AddKeeps ==
  ASSUME Contents, NEW c \in Classes, NEW n \in Names \cup {Empty},
         NEW as \in SUBSET Attrs, AddObject(c, n, as)
  PROVE  Contents'
<1>1. CASE Error
  BY <1>1, Untouched DEF Error
<1>2. CASE ~Error
  <2>1. PICK a \in Addrs \ Alive :
          /\ order' \in Placed(a, order)
          /\ box' = [x \in Alive \cup {a} |->
                       IF x = a THEN [class |-> c, name |-> n, attrs |-> as] ELSE box[x]]
    BY <1>2 DEF AddObject
  <2>2. lines' = lines
    BY <1>2 DEF AddObject
  <2>3. order \in Seq(Addrs) /\ NoRepeat(order) /\ a \notin Range(order)
    BY DEF Contents, Listed, Alive
  <2>4. Listed' /\ Alive' = Alive \cup {a}
    BY <2>1, <2>3, BoxEnters DEF Listed, Alive
  <2>5. \A b \in Alive' : box'[b] \in Box
    BY <2>1, <2>4 DEF Contents, Box
  <2>6. LinesMeetBoxes'
    BY <2>1, <2>2, <2>4 DEF Contents, LinesMeetBoxes, Joins
  <2> QED BY <2>2, <2>4, <2>5, <2>6 DEF Contents
<1> QED BY <1>1, <1>2

(* Deleting a box, which remove_max_object does, and a replacement too.    *)
LEMMA DeletionKeeps ==
  ASSUME Contents, NEW b \in Alive,
         order' = RemoveFirst(order, b), box' = Without(box, b), lines' = LinesWithout(b)
  PROVE  Contents'
<1>1. Listed' /\ Alive' = Alive \ {b}
  BY BoxLeaves DEF Contents, Listed, Alive, Without
<1>2. \A x \in Alive' : box'[x] = box[x]
  BY <1>1 DEF Without, Contents, Listed, Alive
<1>3. \A l \in lines' : l \in lines /\ l.src # b /\ l.dst # b
  BY DEF LinesWithout, Touches
<1>4. LinesMeetBoxes'
  BY <1>1, <1>2, <1>3 DEF Contents, LinesMeetBoxes, Joins
<1> QED BY <1>1, <1>2, <1>3, <1>4 DEF Contents

LEMMA RemoveKeeps ==
  ASSUME Contents, NEW n \in Names, RemoveObject(n)
  PROVE  Contents'
<1>1. CASE FindBox(n) = NoAddr
  BY <1>1, Untouched DEF RemoveObject, Error
<1>2. CASE FindBox(n) # NoAddr
  BY <1>2, BoxFound, DeletionKeeps DEF RemoveObject
<1> QED BY <1>1, <1>2

LEMMA ReplaceFailsKeeps ==
  ASSUME Contents, NEW n \in Names, ReplaceFails(n)
  PROVE  Contents'
BY BoxFound, DeletionKeeps DEF ReplaceFails

LEMMA SetAttributeKeeps ==
  ASSUME Contents, NEW n \in Names, NEW a \in Attrs, NEW on \in BOOLEAN,
         NEW supported \in BOOLEAN, SetAttribute(n, a, on, supported)
  PROVE  Contents'
<1> DEFINE b == FindBox(n)
<1>1. CASE b = NoAddr \/ ~supported
  BY <1>1, Untouched DEF SetAttribute, Error
<1>2. CASE ~(b = NoAddr \/ ~supported)
  <2>1. b \in Alive
    BY <1>2, BoxFound
  <2>2. /\ box' = [box EXCEPT ![b].attrs = IF on THEN @ \cup {a} ELSE @ \ {a}]
        /\ UNCHANGED <<order, lines>>
    BY <1>2 DEF SetAttribute
  <2> HIDE DEF b
  <2>3. ASSUME NEW x \in Alive PROVE box'[x] \in Box /\ box'[x].class = box[x].class
    <3>1. box[x] \in Box /\ x \in DOMAIN box
      BY DEF Contents, Listed, Alive
    <3> QED BY <2>2, <3>1 DEF Box
  <2> QED BY <2>2, <2>3, SameLines
<1> QED BY <1>1, <1>2

LEMMA AssignKeeps ==
  ASSUME Contents, NEW asg \in Assignments, AssignVarnames(asg)
  PROVE  Contents'
<1>1. CASE Error
  BY <1>1, Untouched DEF Error
<1>2. CASE ~Error
  <2>1. box' = Renamed(asg) /\ UNCHANGED <<order, lines>>
    BY <1>2 DEF AssignVarnames
  <2>2. PICK k \in 0..2 : asg \in [1..k -> [index : 0..MaxBoxes, name : Names]]
    BY DEF Assignments
  <2>3. Len(asg) = k
    BY <2>2
  <2>4. ASSUME NEW x \in Alive PROVE box'[x] \in Box /\ box'[x].class = box[x].class
    <3> DEFINE ks == {j \in 1..Len(asg) : order[asg[j].index + 1] = x}
    <3>1. box[x] \in Box
      BY DEF Contents
    <3>2. box'[x] = IF ks = {} THEN box[x] ELSE [box[x] EXCEPT !.name = asg[Max(ks)].name]
      BY <2>1 DEF Renamed
    <3>3. ks # {} => Max(ks) \in 1..k
      <4>1. ks \in SUBSET (1..k)
        BY <2>3
      <4> HIDE DEF ks
      <4>2. k \in Nat
        OBVIOUS
      <4> QED BY <4>1, <4>2, Greatest
    <3> HIDE DEF ks
    <3>4. ks # {} => asg[Max(ks)].name \in Names
      BY <2>2, <3>3
    <3> QED BY <3>1, <3>2, <3>4 DEF Box
  <2>5. DOMAIN box' = DOMAIN box
    BY <2>1 DEF Renamed, Contents, Listed, Alive
  <2> QED BY <2>1, <2>4, <2>5, SameLines
<1> QED BY <1>1, <1>2

-----------------------------------------------------------------------------
(* replace_object_text: the new box may have the address of the old one,   *)
(* and other nubs.                                                         *)

LEMMA Rejoining ==
  ASSUME NEW m \in Line, NEW b, Touches(m, b), NEW a \in Addrs,
         NEW r, r = Rejoined(Saved(m, b), a)
  PROVE  /\ r \in Line
         /\ r.outlet = m.outlet /\ r.inlet = m.inlet
         /\ m.src = b => r.src = a /\ r.dst = m.dst
         /\ m.src # b => r.src = m.src /\ r.dst = a
BY DEF Rejoined, Saved, Line, Touches

LEMMA ReplaceKeepsContents ==
  ASSUME Contents, NEW n \in Names, NEW c \in Classes, ReplaceObjectText(n, c)
  PROVE  Contents'
<1> DEFINE b == FindBox(n)
           class == IF box[b].class \in Content THEN box[b].class ELSE c
<1>1. CASE b = NoAddr
  BY <1>1, Untouched DEF ReplaceObjectText, Error
<1>2. CASE b # NoAddr
  <2>1. b \in Alive
    BY <1>2, BoxFound
  <2>2. PICK a \in (Addrs \ Alive) \cup {b} :
          /\ order' \in Placed(a, RemoveFirst(order, b))
          /\ box' = [x \in (Alive \ {b}) \cup {a} |->
                       IF x = a THEN [box[b] EXCEPT !.class = class, !.name = n]
                                ELSE box[x]]
          /\ lines' = Restored(LinesWithout(b), box', a, SavedConnections(b))
    BY <1>2 DEF ReplaceObjectText
  <2> HIDE DEF b
  <2>3. a \in Addrs /\ a \notin Alive \ {b}
    BY <2>1, AliveAddrs
  <2>4. /\ Listed' /\ Alive' = (Alive \ {b}) \cup {a}
        /\ DOMAIN box' = (Alive \ {b}) \cup {a}
    BY <2>1, <2>2, <2>3, BoxLeaves, BoxEnters DEF Listed, Alive
  <2>5. ASSUME NEW x \in Alive' PROVE box'[x] \in Box
    <3>1. box[b] \in Box /\ class \in Classes
      BY <2>1 DEF Contents, Box
    <3>2. CASE x = a
      BY <2>2, <2>4, <3>1, <3>2 DEF Box
    <3>3. CASE x # a
      BY <2>2, <2>4, <3>3 DEF Contents
    <3> QED BY <3>2, <3>3
  (* The lines are those that did not touch the old box, and those to the  *)
  (* new box that could be made.                                           *)
  <2>6. ASSUME NEW l \in lines'
        PROVE  \/ l \in lines /\ ~Touches(l, b)
               \/ /\ CanConnect(box', l.src, l.outlet, l.dst, l.inlet)
                  /\ \E m \in lines : l = Rejoined(Saved(m, b), a) /\ Touches(m, b)
    BY <2>2 DEF Restored, LinesWithout, SavedConnections
  <2>7. ASSUME NEW l \in lines'
        PROVE  /\ l \in Line
               /\ {l.src, l.dst} \subseteq Alive'
               /\ l.outlet < Outs[box'[l.src].class] /\ l.inlet < Ins[box'[l.dst].class]
    <3>1. CASE l \in lines /\ ~Touches(l, b)
      <4>1. {l.src, l.dst} \subseteq Alive \ {b}
        BY <3>1 DEF Contents, LinesMeetBoxes, Touches
      <4>2. box'[l.src] = box[l.src] /\ box'[l.dst] = box[l.dst]
        BY <2>2, <2>3, <4>1
      <4> QED BY <2>4, <3>1, <4>1, <4>2 DEF Contents, LinesMeetBoxes
    <3>2. CASE CanConnect(box', l.src, l.outlet, l.dst, l.inlet)
               /\ \E m \in lines : l = Rejoined(Saved(m, b), a) /\ Touches(m, b)
      <4>1. PICK m \in lines : l = Rejoined(Saved(m, b), a) /\ Touches(m, b)
        BY <3>2
      <4>2. m \in Line
        BY DEF Contents
      <4>3. l \in Line
        BY <2>3, <4>1, <4>2, Rejoining
      <4> QED BY <2>4, <3>2, <4>3 DEF CanConnect
    <3> QED BY <2>6, <3>1, <3>2
  <2>8. ASSUME NEW k \in lines', NEW l \in lines', Joins(k, l.src, l.outlet, l.dst, l.inlet)
        PROVE  k = l
    <3>1. CASE k \in lines /\ ~Touches(k, b) /\ l \in lines /\ ~Touches(l, b)
      BY <2>8, <3>1 DEF Contents, LinesMeetBoxes
    <3>2. ASSUME NEW x \in lines, ~Touches(x, b)
          PROVE  x.src # a /\ x.dst # a
      BY <2>3, <3>2 DEF Contents, LinesMeetBoxes, Touches
    <3>3. ASSUME NEW x \in lines, Touches(x, b), NEW y, y = Rejoined(Saved(x, b), a)
          PROVE  y.src = a \/ y.dst = a
      BY <2>3, <3>3, Rejoining DEF Contents
    <3>4. CASE /\ \E m \in lines : k = Rejoined(Saved(m, b), a) /\ Touches(m, b)
               /\ \E m \in lines : l = Rejoined(Saved(m, b), a) /\ Touches(m, b)
      <4>1. PICK m \in lines : k = Rejoined(Saved(m, b), a) /\ Touches(m, b)
        BY <3>4
      <4>2. PICK o \in lines : l = Rejoined(Saved(o, b), a) /\ Touches(o, b)
        BY <3>4
      <4>3. {m.src, m.dst, o.src, o.dst} \subseteq Alive /\ m \in Line /\ o \in Line
        BY DEF Contents, LinesMeetBoxes
      <4>4. Joins(m, o.src, o.outlet, o.dst, o.inlet)
        <5>1. /\ k.outlet = m.outlet /\ k.inlet = m.inlet
              /\ m.src = b => k.src = a /\ k.dst = m.dst
              /\ m.src # b => k.src = m.src /\ k.dst = a /\ m.dst = b
          BY <2>3, <4>1, <4>3, Rejoining DEF Touches
        <5>2. /\ l.outlet = o.outlet /\ l.inlet = o.inlet
              /\ o.src = b => l.src = a /\ l.dst = o.dst
              /\ o.src # b => l.src = o.src /\ l.dst = a /\ o.dst = b
          BY <2>3, <4>2, <4>3, Rejoining DEF Touches
        <5>3. a \in Alive => a = b
          BY <2>3
        <5> QED BY <2>8, <4>3, <5>1, <5>2, <5>3 DEF Joins
      <4>5. m = o
        BY <4>4 DEF Contents, LinesMeetBoxes
      <4> QED BY <4>1, <4>2, <4>5
    <3>5. k.src = l.src /\ k.dst = l.dst
      BY <2>8 DEF Joins
    <3> QED BY <2>6, <3>1, <3>2, <3>3, <3>4, <3>5
  <2>9. LinesMeetBoxes'
    BY <2>7, <2>8 DEF LinesMeetBoxes
  <2> QED BY <2>4, <2>5, <2>7, <2>9 DEF Contents
<1> QED BY <1>1, <1>2

-----------------------------------------------------------------------------
(* What a replacement keeps.                                               *)

(* A line that did not join the old box to itself gets the new box in the  *)
(* place of the old one, and does not join the new box to itself.          *)
Moved(m, b, a) ==
  [m EXCEPT !.src = IF @ = b THEN a ELSE @, !.dst = IF @ = b THEN a ELSE @]

LEMMA Redirected ==
  ASSUME NEW m \in Line, NEW s, NEW d
  PROVE  [m EXCEPT !.src = s, !.dst = d] =
           [src |-> s, outlet |-> m.outlet, dst |-> d, inlet |-> m.inlet,
            look |-> m.look, mid |-> m.mid]
<1> DEFINE F == {"src", "outlet", "dst", "inlet", "look", "mid"}
           r == [m EXCEPT !.src = s, !.dst = d]
           t == [src |-> s, outlet |-> m.outlet, dst |-> d, inlet |-> m.inlet,
                 look |-> m.look, mid |-> m.mid]
<1>1. r = [f \in F |-> IF f = "dst" THEN d ELSE IF f = "src" THEN s ELSE m[f]]
  BY DEF Line
<1>2. t = [f \in F |-> IF f = "dst" THEN d ELSE IF f = "src" THEN s ELSE m[f]]
  OBVIOUS
<1> QED BY <1>1, <1>2

LEMMA Moving ==
  ASSUME Contents, NEW m \in lines, NEW b \in Alive, ~(m.src = b /\ m.dst = b),
         NEW a \in Addrs, a \notin Alive \ {b}
  PROVE  /\ Touches(m, b) => Moved(m, b, a) = Rejoined(Saved(m, b), a)
         /\ ~Touches(m, b) => Moved(m, b, a) = m
         /\ ~(Moved(m, b, a).src = a /\ Moved(m, b, a).dst = a)
<1>1. m \in Line /\ {m.src, m.dst} \subseteq Alive
  BY DEF Contents, LinesMeetBoxes
<1>2. Moved(m, b, a) = [src |-> IF m.src = b THEN a ELSE m.src, outlet |-> m.outlet,
                        dst |-> IF m.dst = b THEN a ELSE m.dst, inlet |-> m.inlet,
                        look |-> m.look, mid |-> m.mid]
  BY <1>1, Redirected DEF Moved
<1>3. Touches(m, b) => Moved(m, b, a) = Rejoined(Saved(m, b), a)
  BY <1>2 DEF Touches, Rejoined, Saved
<1>4. ~Touches(m, b) => Moved(m, b, a) = m
  BY <1>1, <1>2 DEF Touches, Line
<1>5. ~(Moved(m, b, a).src = a /\ Moved(m, b, a).dst = a)
  BY <1>1, <1>2
<1> QED BY <1>3, <1>4, <1>5

(* A line that joined the old box to itself makes none, or one from the    *)
(* new box to itself.                                                      *)
LEMMA SelfConnection ==
  ASSUME NEW m \in Line, NEW b, m.src = b, m.dst = b, NEW a,
         NEW D, b \in D => a = b,
         NEW l, l = Rejoined(Saved(m, b), a), {l.src, l.dst} \subseteq D
  PROVE  l.src = a /\ l.dst = a
BY DEF Rejoined, Saved, Line

LEMMA ReplacementKeeps ==
  ASSUME Contents, NEW n \in Names, NEW c \in Classes, reply' = "ok", ReplaceObjectText(n, c)
  PROVE  \E new \in Range(order') :
           /\ Range(order') = (Alive \ {FindBox(n)}) \cup {new}
           /\ box'[new].name = n /\ box'[new].attrs = box[FindBox(n)].attrs
           /\ {l \in lines' : l.src # l.dst \/ l.src # new} =
                {l \in Kept(FindBox(n), new) : /\ l.outlet < Outs[box'[l.src].class]
                                               /\ l.inlet < Ins[box'[l.dst].class]}
<1> DEFINE b == FindBox(n)
           class == IF box[b].class \in Content THEN box[b].class ELSE c
<1>1. b # NoAddr
  BY DEF ReplaceObjectText, Error
<1>2. b \in Alive
  BY <1>1, BoxFound
<1>3. PICK a \in (Addrs \ Alive) \cup {b} :
        /\ order' \in Placed(a, RemoveFirst(order, b))
        /\ box' = [x \in (Alive \ {b}) \cup {a} |->
                     IF x = a THEN [box[b] EXCEPT !.class = class, !.name = n]
                              ELSE box[x]]
        /\ lines' = Restored(LinesWithout(b), box', a, SavedConnections(b))
  BY <1>1 DEF ReplaceObjectText
<1> HIDE DEF b
<1>4. a \in Addrs /\ a \notin Alive \ {b}
  BY <1>2, <1>3, AliveAddrs
<1>5. Range(order') = (Alive \ {b}) \cup {a}
  BY <1>2, <1>3, <1>4, BoxLeaves, BoxEnters DEF Alive
<1>6. DOMAIN box' = (Alive \ {b}) \cup {a}
  BY <1>3
<1>7. box'[a].name = n /\ box'[a].attrs = box[b].attrs
  <2>1. box[b] \in Box
    BY <1>2 DEF Contents
  <2>2. box'[a] = [box[b] EXCEPT !.class = class, !.name = n]
    BY <1>3
  <2> HIDE DEF class
  <2> QED BY <2>1, <2>2 DEF Box
<1>8. LinesMeetBoxes'
  BY ReplaceKeepsContents DEF Contents
<1> DEFINE Meets(l) == l.outlet < Outs[box'[l.src].class] /\ l.inlet < Ins[box'[l.dst].class]
<1>9. Kept(b, a) = {Moved(l, b, a) : l \in {x \in lines : ~(x.src = b /\ x.dst = b)}}
  BY DEF Kept, Moved
<1>10. ASSUME NEW l \in lines', l.src # l.dst \/ l.src # a
       PROVE  l \in Kept(b, a) /\ Meets(l)
  <2>1. CASE l \in LinesWithout(b)
    <3>1. l \in lines /\ ~Touches(l, b)
      BY <2>1 DEF LinesWithout
    <3>2. ~(l.src = b /\ l.dst = b)
      BY <3>1 DEF Touches
    <3>3. l = Moved(l, b, a)
      BY <1>2, <1>4, <3>1, <3>2, Moving
    <3> QED BY <1>8, <1>9, <3>1, <3>2, <3>3 DEF LinesMeetBoxes
  <2>2. CASE l \notin LinesWithout(b)
    <3>1. PICK m \in lines : Touches(m, b) /\ l = Rejoined(Saved(m, b), a)
      BY <1>3, <2>2 DEF Restored, SavedConnections
    <3>2. {l.src, l.dst} \subseteq DOMAIN box'
      BY <1>3, <2>2 DEF Restored, CanConnect
    <3>3. m \in Line /\ (b \in DOMAIN box' => a = b)
      BY <1>6 DEF Contents
    <3>4. ~(m.src = b /\ m.dst = b)
      BY <1>10, <3>1, <3>2, <3>3, SelfConnection
    <3>5. l = Moved(m, b, a)
      BY <1>2, <1>4, <3>1, <3>4, Moving
    <3> QED BY <1>8, <1>9, <3>4, <3>5 DEF LinesMeetBoxes
  <2> QED BY <2>1, <2>2
<1>11. ASSUME NEW l \in Kept(b, a), Meets(l)
       PROVE  l \in lines' /\ (l.src # l.dst \/ l.src # a)
  <2>1. PICK m \in lines : l = Moved(m, b, a) /\ ~(m.src = b /\ m.dst = b)
    BY <1>9
  <2>2. l.src # l.dst \/ l.src # a
    BY <1>2, <1>4, <2>1, Moving
  <2>3. CASE ~Touches(m, b)
    <3>1. l = m
      BY <1>2, <1>4, <2>1, <2>3, Moving
    <3> QED BY <1>3, <2>2, <2>3, <3>1 DEF Restored, LinesWithout
  <2>4. CASE Touches(m, b)
    <3>1. l = Rejoined(Saved(m, b), a)
      BY <1>2, <1>4, <2>1, <2>4, Moving
    <3>2. m \in Line /\ {m.src, m.dst} \subseteq Alive
      BY DEF Contents, LinesMeetBoxes
    <3>3. {l.src, l.dst} \subseteq DOMAIN box'
      BY <1>4, <1>6, <2>1, <2>4, <3>1, <3>2, Rejoining DEF Touches
    <3>4. CanConnect(box', l.src, l.outlet, l.dst, l.inlet)
      BY <1>11, <3>3 DEF CanConnect
    <3> QED BY <1>3, <2>2, <2>4, <3>1, <3>4 DEF Restored, SavedConnections
  <2> QED BY <2>3, <2>4
<1>12. {l \in lines' : l.src # l.dst \/ l.src # a} = {l \in Kept(b, a) : Meets(l)}
  BY <1>10, <1>11
<1> QED BY <1>5, <1>7, <1>12 DEF b

-----------------------------------------------------------------------------
(* ConnectionTools.                                                        *)

(* find_patchline yields at most one line.                                 *)
LEMMA LineFound ==
  ASSUME Contents, NEW m, NEW o, NEW n, NEW i, LineBetween(m, o, n, i) # {}
  PROVE  \E l \in lines : /\ LineBetween(m, o, n, i) = {l}
                          /\ Joins(l, FindBox(m), o, FindBox(n), i)
BY DEF Contents, LinesMeetBoxes, LineBetween, Joins

(* Lines taken away, or replaced by lines between the same nubs.           *)
LEMMA FewerLines ==
  ASSUME Contents, UNCHANGED <<order, box>>, lines' \subseteq lines
  PROVE  Contents'
BY SameBoxes DEF Contents, LinesMeetBoxes, Alive

LEMMA LineReplaced ==
  ASSUME Contents, UNCHANGED <<order, box>>,
         NEW l \in lines, NEW r \in Line,
         Joins(r, l.src, l.outlet, l.dst, l.inlet),
         lines' = (lines \ {l}) \cup {r}
  PROVE  Contents'
<1>1. \A k \in lines' : k \in Line
  BY DEF Contents
<1>2. Alive' = Alive
  BY DEF Alive
<1>3. ASSUME NEW k \in lines'
      PROVE  /\ {k.src, k.dst} \subseteq Alive'
             /\ k.outlet < Outs[box'[k.src].class] /\ k.inlet < Ins[box'[k.dst].class]
  BY <1>2 DEF Contents, LinesMeetBoxes, Joins
<1>4. ASSUME NEW k \in lines', NEW j \in lines', Joins(k, j.src, j.outlet, j.dst, j.inlet)
      PROVE  k = j
  BY <1>4 DEF Contents, LinesMeetBoxes, Joins
<1> QED BY <1>1, <1>3, <1>4, SameBoxes DEF LinesMeetBoxes

LEMMA ConnectKeeps ==
  ASSUME Contents, NEW m \in Names, NEW n \in Names, NEW o \in Ports, NEW i \in Ports,
         ConnectObjects(m, o, n, i)
  PROVE  Contents'
<1> DEFINE s == FindBox(m)
           d == FindBox(n)
<1>1. CASE UNCHANGED contents
  BY <1>1, Untouched
<1>2. CASE /\ ~(\E l \in lines : Joins(l, s, o, d, i)) /\ CanConnect(box, s, o, d, i)
           /\ lines' = lines \cup {NewLine(s, o, d, i)}
           /\ UNCHANGED <<order, box>>
  <2>1. {s, d} \subseteq Alive
    BY <1>2 DEF CanConnect, Contents, Listed, Alive
  <2>2. NewLine(s, o, d, i) \in Line
    BY <2>1, AliveAddrs DEF NewLine, Line, Ports
  <2> HIDE DEF s, d
  <2>3. \A l \in lines' : l \in Line
    BY <1>2, <2>2 DEF Contents
  <2>4. LinesMeetBoxes'
    <3> DEFINE r == NewLine(s, o, d, i)
    <3>1. r.src = s /\ r.outlet = o /\ r.dst = d /\ r.inlet = i
      BY DEF NewLine
    <3>2. lines' = lines \cup {r} /\ Alive' = Alive /\ box' = box
      BY <1>2 DEF Alive
    <3> HIDE DEF r
    <3>3. ASSUME NEW k \in lines'
          PROVE  /\ {k.src, k.dst} \subseteq Alive'
                 /\ k.outlet < Outs[box'[k.src].class] /\ k.inlet < Ins[box'[k.dst].class]
      BY <1>2, <2>1, <3>1, <3>2 DEF Contents, LinesMeetBoxes, CanConnect
    <3>4. ASSUME NEW k \in lines', NEW l \in lines', Joins(k, l.src, l.outlet, l.dst, l.inlet)
          PROVE  k = l
      BY <1>2, <3>1, <3>2, <3>4 DEF Contents, LinesMeetBoxes, Joins
    <3> QED BY <3>3, <3>4 DEF LinesMeetBoxes
  <2> QED BY <1>2, <2>3, <2>4, SameBoxes
<1> QED BY <1>1, <1>2 DEF ConnectObjects, Error

LEMMA DisconnectKeeps ==
  ASSUME Contents, NEW m \in Names, NEW n \in Names, NEW o \in Ports, NEW i \in Ports,
         DisconnectObjects(m, o, n, i)
  PROVE  Contents'
<1>1. CASE UNCHANGED contents
  BY <1>1, Untouched
<1>2. CASE UNCHANGED <<order, box>> /\ lines' \subseteq lines
  BY <1>2, FewerLines
<1> QED BY <1>1, <1>2 DEF DisconnectObjects, Error

LEMMA SetMidpointsKeeps ==
  ASSUME Contents, NEW m \in Names, NEW n \in Names, NEW o \in Ports, NEW i \in Ports,
         NEW some \in BOOLEAN, SetMidpoints(m, o, n, i, some)
  PROVE  Contents'
<1> DEFINE found == LineBetween(m, o, n, i)
           kept == {x \in found : some \/ CanConnect(box, x.src, o, x.dst, i)}
<1>1. CASE found = {}
  BY <1>1, Untouched DEF SetMidpoints, Error
<1>2. CASE found # {}
  <2>1. PICK l \in lines : found = {l}
    BY <1>2, LineFound
  <2>2. UNCHANGED <<order, box>> /\ lines' = (lines \ found) \cup {[x EXCEPT !.mid = some] : x \in kept}
    BY <1>2 DEF SetMidpoints
  <2>3. kept = {} \/ kept = {l}
    BY <2>1
  <2> HIDE DEF found, kept
  <2>4. CASE kept = {}
    BY <2>2, <2>4, FewerLines
  <2>5. CASE kept = {l}
    <3> DEFINE r == [l EXCEPT !.mid = some]
    <3>1. r \in Line /\ Joins(r, l.src, l.outlet, l.dst, l.inlet)
      BY DEF Contents, Line, Joins
    <3>2. lines' = (lines \ {l}) \cup {r}
      BY <2>1, <2>2, <2>5
    <3> HIDE DEF r
    <3> QED BY <2>2, <3>1, <3>2, LineReplaced
  <2> QED BY <2>3, <2>4, <2>5
<1> QED BY <1>1, <1>2

-----------------------------------------------------------------------------
(* The user.                                                               *)

LEMMA UserKeeps ==
  ASSUME Contents, User
  PROVE  Contents'
<1>1. ASSUME NEW b \in Alive, NEW n \in Names \cup {Empty}, UserRenames(b, n)
      PROVE  Contents'
  <2>1. box' = [box EXCEPT ![b].name = n] /\ UNCHANGED <<order, lines>>
    BY <1>1 DEF UserRenames
  <2>2. ASSUME NEW x \in Alive PROVE box'[x] \in Box /\ box'[x].class = box[x].class
    <3>1. box[x] \in Box /\ x \in DOMAIN box
      BY DEF Contents, Listed, Alive
    <3> QED BY <2>1, <3>1 DEF Box
  <2> QED BY <2>1, <2>2, SameLines
<1>2. ASSUME NEW l \in lines, UserRestyles(l)
      PROVE  Contents'
  <2> DEFINE r == [l EXCEPT !.look = ~@]
  <2>1. r \in Line /\ Joins(r, l.src, l.outlet, l.dst, l.inlet)
    BY DEF Contents, Line, Joins
  <2>2. UNCHANGED <<order, box>> /\ lines' = (lines \ {l}) \cup {r}
    BY <1>2 DEF UserRestyles
  <2> HIDE DEF r
  <2> QED BY <2>1, <2>2, LineReplaced
<1> QED BY <1>1, <1>2 DEF User

-----------------------------------------------------------------------------
(* What the replies tell.                                                  *)

LEMMA ErrorsChangeNothing ==
  ASSUME Next, reply' = "error", ~\E n \in Names : ReplaceFails(n)
  PROVE  UNCHANGED contents
<1>1. CASE ObjectTool
  BY <1>1 DEF ObjectTool, AddObject, ReplaceObjectText, RemoveObject, SetAttribute, Error, Edit
<1>2. CASE ConnectionTool
  BY <1>2 DEF ConnectionTool, ConnectObjects, DisconnectObjects, SetMidpoints, Error, Edit
<1>3. CASE \E asg \in Assignments : AssignVarnames(asg)
  BY <1>3 DEF AssignVarnames, Error, Edit
<1>4. CASE User \/ UserSaves
  BY <1>4 DEF User, UserRenames, UserRestyles, UserSaves, ByUser
<1> QED BY <1>1, <1>2, <1>3, <1>4 DEF Next, Tool

LEMMA ConnectedIsThere ==
  ASSUME NEW m, NEW o, NEW n, NEW i, ConnectObjects(m, o, n, i), reply' = "ok"
  PROVE  Joined(m, o, n, i)
<1> DEFINE s == FindBox(m)
           d == FindBox(n)
<1>1. Joins(NewLine(s, o, d, i), s, o, d, i)
  BY DEF Joins, NewLine
<1> HIDE DEF s, d
<1>2. \E l \in lines' : Joins(l, s, o, d, i)
  BY <1>1 DEF ConnectObjects, Error, contents, s, d
<1> QED BY <1>2 DEF Joined, s, d

LEMMA DisconnectedIsNot ==
  ASSUME NEW m, NEW o, NEW n, NEW i, DisconnectObjects(m, o, n, i), reply' = "ok"
  PROVE  ~Joined(m, o, n, i)
BY DEF DisconnectObjects, LineBetween, Joined, Error

(* What became of a line is told by the tool that was asked about it.      *)
Asked(k) ==
  \/ \E n \in Names :
       /\ Touches(k, FindBox(n))
       /\ RemoveObject(n) \/ ReplaceFails(n) \/ \E c \in Classes : ReplaceObjectText(n, c)
  \/ \E m, n \in Names, o, i \in Ports :
       /\ Joins(k, FindBox(m), o, FindBox(n), i)
       /\ DisconnectObjects(m, o, n, i) \/ \E some \in BOOLEAN : SetMidpoints(m, o, n, i, some)

LEMMA LineStays ==
  ASSUME Next, reply' # "none", NEW k \in lines, k \notin lines'
  PROVE  Asked(k)
<1>1. ~(lines \subseteq lines')
  OBVIOUS
<1>2. CASE ObjectTool
  <2>1. PICK n \in Names :
          \/ \E c \in Classes : ReplaceObjectText(n, c)
          \/ RemoveObject(n)
          \/ ReplaceFails(n)
    BY <1>1, <1>2 DEF ObjectTool, AddObject, SetAttribute, Error, contents
  <2>2. Touches(k, FindBox(n))
    BY <1>1, <2>1 DEF ReplaceObjectText, RemoveObject, ReplaceFails, LinesWithout, Restored,
                      Error, contents
  <2> QED BY <2>1, <2>2 DEF Asked
<1>3. CASE ConnectionTool
  <2>1. PICK m \in Names, n \in Names, o \in Ports, i \in Ports :
          DisconnectObjects(m, o, n, i) \/ \E some \in BOOLEAN : SetMidpoints(m, o, n, i, some)
    BY <1>1, <1>3 DEF ConnectionTool, ConnectObjects, Error, contents
  <2>2. k \in LineBetween(m, o, n, i)
    BY <1>1, <2>1 DEF DisconnectObjects, SetMidpoints, Error, contents
  <2> QED BY <2>1, <2>2 DEF Asked, LineBetween
<1>4. CASE \E asg \in Assignments : AssignVarnames(asg)
  BY <1>1, <1>4 DEF AssignVarnames, Error, contents
<1>5. CASE User \/ UserSaves
  BY <1>5 DEF User, UserRenames, UserRestyles, UserSaves, ByUser
<1> QED BY <1>2, <1>3, <1>4, <1>5 DEF Next, Tool

LEMMA OnlyMidpoints ==
  ASSUME Contents, NEW m \in Names, NEW n \in Names, NEW o \in Ports, NEW i \in Ports,
         NEW some \in BOOLEAN, reply' = "ok", SetMidpoints(m, o, n, i, some)
  PROVE  \E k \in lines : /\ Joins(k, FindBox(m), o, FindBox(n), i)
                         /\ [k EXCEPT !.mid = some] \in lines'
<1> DEFINE found == LineBetween(m, o, n, i)
<1>1. found # {}
  BY DEF SetMidpoints, Error
<1>2. PICK k \in lines : found = {k} /\ Joins(k, FindBox(m), o, FindBox(n), i)
  BY <1>1, LineFound
<1>3. CanConnect(box, k.src, o, k.dst, i)
  BY <1>2 DEF Contents, Listed, LinesMeetBoxes, CanConnect, Joins, Alive
<1>4. lines' = (lines \ found) \cup
        {[l EXCEPT !.mid = some] : l \in {x \in found : some \/ CanConnect(box, x.src, o, x.dst, i)}}
  BY <1>1 DEF SetMidpoints
<1> HIDE DEF found
<1>5. k \in {x \in found : some \/ CanConnect(box, x.src, o, x.dst, i)}
  BY <1>2, <1>3
<1> QED BY <1>2, <1>4, <1>5

(* A name given to a box is looked for: the box is the only one that has   *)
(* it, if it was not renamed again and no box had the name before.         *)
LEMMA AssignedIsFound ==
  ASSUME Contents, NEW asg \in Assignments, AssignVarnames(asg), reply' = "ok",
         NEW k \in 1..Len(asg),
         \A j \in k + 1..Len(asg) : asg[j].index # asg[k].index,
         \A b \in Alive : box[b].name # asg[k].name
  PROVE  FindBox(asg[k].name)' = order[asg[k].index + 1]
<1> DEFINE name == asg[k].name
           p == asg[k].index + 1
           ks(b) == {j \in 1..Len(asg) : order[asg[j].index + 1] = b}
<1>1. WellFormed(asg) /\ InRange(asg) /\ order' = order /\ box' = Renamed(asg)
  BY DEF AssignVarnames, Error, Edit
<1>2. PICK N \in 0..2 : asg \in [1..N -> [index : 0..MaxBoxes, name : Names]]
  BY DEF Assignments
<1>3. Len(asg) = N
  BY <1>2
<1>4. \A j \in 1..N : asg[j].index \in Nat /\ asg[j].name \in Names
  BY <1>2, BoundAssumption
<1>5. \A j \in 1..N : asg[j].index + 1 \in 1..Len(order)
  <2>1. \A j \in 1..N : asg[j].index < Len(order)
    BY <1>1, <1>3 DEF InRange
  <2>2. Len(order) \in Nat
    BY DEF Contents, Listed
  <2> QED BY <1>4, <2>1, <2>2
<1>6. \A b \in Alive : box'[b] = IF ks(b) = {} THEN box[b]
                                 ELSE [box[b] EXCEPT !.name = asg[Max(ks(b))].name]
  BY <1>1 DEF Renamed
<1>7. ASSUME NEW b \in Alive, ks(b) # {}
      PROVE  Max(ks(b)) \in ks(b) /\ \A j \in ks(b) : Max(ks(b)) >= j
  <2>1. ks(b) \in SUBSET (1..N)
    BY <1>3
  <2> HIDE DEF ks
  <2> QED BY <1>7, <2>1, Greatest
<1>8. ASSUME NEW q \in 1..Len(order)
      PROVE  box'[order[q]].name = name <=> q = p
  <2> DEFINE b == order[q]
  <2>1. b \in Alive /\ box[b] \in Box /\ box[b].name # name
    BY DEF Contents, Alive, Range
  <2>2. CASE q = p
    <3>1. k \in ks(b)
      BY <2>2
    <3>2. ASSUME NEW j \in ks(b) PROVE asg[j].index = asg[k].index
      <4>1. order[asg[j].index + 1] = order[asg[k].index + 1]
        BY <2>2
      <4>2. asg[j].index + 1 = asg[k].index + 1
        BY <1>3, <1>5, <4>1 DEF Contents, Listed, NoRepeat
      <4> QED BY <1>3, <1>4, <4>2
    <3> DEFINE x == Max(ks(b))
    <3>3. x \in ks(b) /\ x >= k
      BY <1>7, <2>1, <3>1
    <3>4. x \in 1..Len(asg) /\ asg[x].index = asg[k].index
      BY <3>2, <3>3
    <3>5. box'[b] = [box[b] EXCEPT !.name = asg[x].name]
      BY <1>6, <2>1, <3>1
    <3> HIDE DEF x
    <3>6. x = k
      BY <1>3, <3>3, <3>4
    <3> HIDE DEF b
    <3>7. box'[b].name = asg[k].name
      BY <2>1, <3>5, <3>6 DEF Box
    <3> QED BY <2>2, <3>7 DEF b
  <2>3. CASE q # p
    <3>1. CASE ks(b) = {}
      BY <1>6, <2>1, <2>3, <3>1
    <3>2. CASE ks(b) # {}
      <4> DEFINE x == Max(ks(b))
      <4>1. x \in ks(b)
        BY <1>7, <2>1, <3>2
      <4>2. x \in 1..Len(asg) /\ order[asg[x].index + 1] = order[q]
        BY <4>1
      <4>3. box'[b] = [box[b] EXCEPT !.name = asg[x].name]
        BY <1>6, <2>1, <3>2
      <4> HIDE DEF x
      <4>4. x # k
        BY <1>3, <1>5, <2>3, <4>2 DEF Contents, Listed, NoRepeat
      <4>5. asg[x].name # name
        BY <1>1, <4>2, <4>4 DEF WellFormed
      <4> HIDE DEF b
      <4>6. box'[b].name = asg[x].name
        BY <2>1, <4>3 DEF Box
      <4> QED BY <2>3, <4>5, <4>6 DEF b
    <3> QED BY <3>1, <3>2
  <2> QED BY <2>2, <2>3
<1>9. name # Empty
  BY <1>1 DEF WellFormed
<1>10. p \in 1..Len(order) /\ order \in Seq(Addrs)
  BY <1>3, <1>5 DEF Contents, Listed
<1> HIDE DEF name, p, ks
<1> DEFINE I == {j \in 1..Len(order) : box'[order[j]].name = name}
           first == IF I # {} THEN Min(I) ELSE 0
<1>11. FindBox(name)' = IF name = Empty \/ first = 0 THEN NoAddr ELSE order[first]
  BY <1>1 DEF FindBox, SelectInSeq
<1>12. I = {p}
  BY <1>8, <1>10
<1> HIDE DEF I
<1>13. first = p /\ p # 0
  <2>1. I \in SUBSET Nat /\ I # {}
    BY <1>10, <1>12
  <2>2. Min(I) \in I
    BY <2>1, Least
  <2> QED BY <1>10, <1>12, <2>1, <2>2
<1>14. FindBox(name)' = order[p]
  BY <1>9, <1>11, <1>13
<1> QED BY <1>14 DEF name, p

-----------------------------------------------------------------------------
(* The theorems.                                                           *)

(* Every step that changes the contents marks the patcher dirty, or is a   *)
(* replacement that failed.                                                *)
LEMMA Marks ==
  ASSUME Tool \/ User
  PROVE  /\ \/ dirty' = TRUE /\ UNCHANGED lost
            \/ lost' = TRUE /\ UNCHANGED dirty
            \/ UNCHANGED <<contents, dirty, lost>>
         /\ reply' \in {"none", "ok", "error"}
<1>1. CASE ObjectTool
  BY <1>1 DEF ObjectTool, AddObject, ReplaceObjectText, RemoveObject, ReplaceFails,
              SetAttribute, Error, Edit
<1>2. CASE ConnectionTool
  BY <1>2 DEF ConnectionTool, ConnectObjects, DisconnectObjects, SetMidpoints, Error, Edit
<1>3. CASE \E asg \in Assignments : AssignVarnames(asg)
  BY <1>3 DEF AssignVarnames, Error, Edit
<1>4. CASE User
  BY <1>4 DEF User, UserRenames, UserRestyles, ByUser
<1> QED BY <1>1, <1>2, <1>3, <1>4 DEF Tool

LEMMA InitInv == Init => Inv
<1> SUFFICES ASSUME Init PROVE Inv
  OBVIOUS
<1>1. Range(<<>>) = {} /\ DOMAIN <<>> = {}
  BY DEF Range
<1>2. Listed /\ Alive = {}
  BY <1>1 DEF Init, Listed, Alive, NoRepeat
<1> QED BY <1>2 DEF Init, Inv, Contents, Flags, LinesMeetBoxes, ChangesMarkDirty

LEMMA StepContents ==
  ASSUME Inv, Next
  PROVE  Contents'
<1>1. CASE ObjectTool
  BY <1>1, AddKeeps, RemoveKeeps, ReplaceFailsKeeps, SetAttributeKeeps, ReplaceKeepsContents
  DEF Inv, ObjectTool
<1>2. CASE ConnectionTool
  BY <1>2, ConnectKeeps, DisconnectKeeps, SetMidpointsKeeps DEF Inv, ConnectionTool
<1>3. CASE \E asg \in Assignments : AssignVarnames(asg)
  BY <1>3, AssignKeeps DEF Inv
<1>4. CASE User
  BY <1>4, UserKeeps DEF Inv
<1>5. CASE UserSaves
  BY <1>5, Untouched DEF Inv, UserSaves
<1> QED BY <1>1, <1>2, <1>3, <1>4, <1>5 DEF Next, Tool

LEMMA StepFlags ==
  ASSUME Inv, Next
  PROVE  Flags'
<1>1. CASE (Tool \/ User) /\ changed' = (changed \/ contents' # contents)
  BY <1>1, Marks DEF Inv, Flags, ChangesMarkDirty
<1>2. CASE UserSaves /\ changed' = FALSE
  BY <1>2 DEF UserSaves, Inv, Flags, ChangesMarkDirty
<1> QED BY <1>1, <1>2 DEF Next

THEOREM Invariance == Spec => []Inv
<1>1. Inv /\ [Next]_vars => Inv'
  <2> SUFFICES ASSUME Inv, [Next]_vars PROVE Inv'
    OBVIOUS
  <2>1. CASE Next
    BY <2>1, StepContents, StepFlags DEF Inv
  <2>2. CASE UNCHANGED vars
    <3>1. Contents'
      BY <2>2, Untouched DEF Inv, vars
    <3> QED BY <2>2, <3>1 DEF vars, Inv, Flags, ChangesMarkDirty
  <2> QED BY <2>1, <2>2
<1> QED BY <1>1, InitInv, PTL DEF Spec

(* The patcher keeps its types: each box in the list once, with its record.*)
THEOREM TypeCorrect == Spec => []TypeOK
<1>1. Inv => TypeOK
  BY DEF Inv, Contents, Flags, Listed, NoRepeat, TypeOK, Alive
<1> QED BY <1>1, Invariance, PTL

(* No tool changes the patcher without marking it, but a replacement that  *)
(* fails.                                                                  *)
THEOREM DirtyMarks == Spec => []ChangesMarkDirty
<1>1. Inv => ChangesMarkDirty
  BY DEF Inv, Flags
<1> QED BY <1>1, Invariance, PTL

(* What replace_object_text does to a patcher, for any nubs of the old and *)
(* the new class, any lines, and any address of the new box.               *)
THEOREM ReplacementsKeep == Spec => ReplaceKeeps
<1> DEFINE Keeps ==
      \A n \in Names, c \in Classes :
        reply' = "ok" /\ ReplaceObjectText(n, c) =>
          LET old == FindBox(n)
          IN \E new \in Range(order') :
               /\ Range(order') = (Alive \ {old}) \cup {new}
               /\ box'[new].name = n /\ box'[new].attrs = box[old].attrs
               /\ {l \in lines' : l.src # l.dst \/ l.src # new} =
                    {l \in Kept(old, new) : /\ l.outlet < Outs[box'[l.src].class]
                                            /\ l.inlet < Ins[box'[l.dst].class]}
<1>1. Inv /\ [Next]_vars => [Keeps]_vars
  BY ReplacementKeeps DEF Inv
<1> HIDE DEF Keeps
<1>2. Spec => [][Keeps]_vars
  BY <1>1, Invariance, PTL DEF Spec
<1> QED BY <1>2 DEF ReplaceKeeps, Keeps

(* However the tools and the user take turns, a line is taken or changed   *)
(* by no tool but one that was asked about it, and keeps its look when its *)
(* midpoints are set or cleared.                                           *)
THEOREM LinesKept == Spec => LinesStay
<1> DEFINE Stays ==
      /\ \A k \in lines :
           \/ k \in lines' \/ reply' = "none"
           \/ \E n \in Names :
                /\ Touches(k, FindBox(n))
                /\ RemoveObject(n) \/ ReplaceFails(n) \/ \E c \in Classes : ReplaceObjectText(n, c)
           \/ \E m, n \in Names, o, i \in Ports :
                /\ Joins(k, FindBox(m), o, FindBox(n), i)
                /\ DisconnectObjects(m, o, n, i) \/ \E some \in BOOLEAN : SetMidpoints(m, o, n, i, some)
      /\ \A m, n \in Names, o, i \in Ports, some \in BOOLEAN :
           reply' = "ok" /\ SetMidpoints(m, o, n, i, some) =>
             \E k \in lines : /\ Joins(k, FindBox(m), o, FindBox(n), i)
                             /\ [k EXCEPT !.mid = some] \in lines'
<1>1. Inv /\ [Next]_vars => [Stays]_vars
  <2> SUFFICES ASSUME Inv, Next PROVE Stays
    OBVIOUS
  <2>1. \A k \in lines : k \in lines' \/ reply' = "none" \/ Asked(k)
    BY LineStays
  <2>2. \A m, n \in Names, o, i \in Ports, some \in BOOLEAN :
          reply' = "ok" /\ SetMidpoints(m, o, n, i, some) =>
            \E k \in lines : /\ Joins(k, FindBox(m), o, FindBox(n), i)
                            /\ [k EXCEPT !.mid = some] \in lines'
    BY OnlyMidpoints DEF Inv
  <2> QED BY <2>1, <2>2 DEF Asked
<1> HIDE DEF Stays
<1>2. Spec => [][Stays]_vars
  BY <1>1, Invariance, PTL DEF Spec
<1> QED BY <1>2 DEF LinesStay, Stays

(* However the tools and the user take turns, what a tool answers is what  *)
(* became of the patcher.                                                  *)
THEOREM RepliesTrue == Spec => RepliesAreTrue
<1> DEFINE Told ==
      /\ reply' = "error" /\ ~(\E n \in Names : ReplaceFails(n)) => UNCHANGED contents
      /\ reply' = "ok" =>
           /\ \A m, n \in Names, o, i \in Ports :
                /\ ConnectObjects(m, o, n, i) => Joined(m, o, n, i)
                /\ DisconnectObjects(m, o, n, i) => ~Joined(m, o, n, i)
           /\ \A asg \in Assignments : AssignVarnames(asg) =>
                \A k \in 1..Len(asg) :
                  (\A j \in k + 1..Len(asg) : asg[j].index # asg[k].index)
                  /\ (\A b \in Alive : box[b].name # asg[k].name)
                    => FindBox(asg[k].name)' = order[asg[k].index + 1]
<1>1. Inv /\ [Next]_vars => [Told]_vars
  <2> SUFFICES ASSUME Inv, Next PROVE Told
    OBVIOUS
  <2>1. Contents
    BY DEF Inv
  <2> QED BY <2>1, ErrorsChangeNothing, ConnectedIsThere, DisconnectedIsNot, AssignedIsFound
<1> HIDE DEF Told
<1>2. Spec => [][Told]_vars
  BY <1>1, Invariance, PTL DEF Spec
<1> QED BY <1>2 DEF RepliesAreTrue, Told
=============================================================================
