---------------------------- MODULE ModuleProofs ----------------------------
(***************************************************************************)
(* Proofs about what a module is made of:                                  *)
(*   - the bodies of its functions (FunctionBody), for any functions,      *)
(*     blocks and names;                                                   *)
(*   - its types (Types), for any requests: a type is one object, and the  *)
(*     elements of arrays lie apart.                                       *)
(***************************************************************************)
EXTENDS FunctionBody, Types, SequenceFacts

-----------------------------------------------------------------------------
(* The bodies of functions.                                                *)

(***************************************************************************)
(* The calls that break a body are not made.                               *)
(***************************************************************************)
BodiesRespected ==
  Calls \cap {"insert_listed", "replace_stale", "set_entry_unlisted"} = {}

Typed ==
  /\ held \subseteq made /\ made \subseteq Functions \cup Blocks
  /\ defined \subseteq made \cap Functions
  /\ blocks \in [Functions -> Seq(Blocks)]
  /\ \A f \in Functions \ defined : blocks[f] = << >>
  /\ entry \in [Functions -> Blocks \cup {Null}]
  /\ parent \in [Blocks -> Functions \cup {Null}]
  /\ self_node \in [Blocks -> (Functions \X Blocks) \cup {Null, Stale}]

(* A proxy that is neither null nor stale belongs to a block that exists,  *)
(* stands on a node of a body, and the parent of the block is the function *)
(* of that body: get_iterator's pair of list and node fits.                *)
ProxiesTrue ==
  \A x, y \in Blocks, f \in Functions :
    self_node[x] = <<f, y>> =>
      x \in made /\ f \in defined /\ y \in In(f) /\ parent[x] = f

Bodies == Typed /\ WellFormedBodies /\ ProxiesTrue

-----------------------------------------------------------------------------
(* What the invariant says of one body.                                    *)
LEMMA OfBody ==
  ASSUME Bodies, NEW f \in defined
  PROVE  /\ f \in Functions /\ f \in made /\ blocks[f] \in Seq(Blocks)
         /\ In(f) \subseteq Blocks \cap made /\ entry[f] \in In(f) /\ IsInjective(blocks[f])
         /\ \A b \in In(f) : parent[b] = f /\ self_node[b] \in {Null, <<f, b>>}
         /\ \A k \in DOMAIN blocks[f] : blocks[f][k] \in In(f)
         /\ Len(blocks[f]) \in Nat \ {0} /\ DOMAIN blocks[f] = 1 .. Len(blocks[f])
         /\ parent[Last(blocks[f])] = f
<1>1. f \in Functions /\ f \in made /\ blocks[f] \in Seq(Blocks)
  BY DEF Bodies, Typed
<1>2. \A k \in DOMAIN blocks[f] : blocks[f][k] \in In(f)
  BY DEF In, ToSet
<1>3. In(f) \subseteq Blocks
  BY <1>1 DEF In, ToSet
<1>4. /\ In(f) \subseteq made /\ entry[f] \in In(f) /\ IsInjective(blocks[f])
      /\ \A b \in In(f) : parent[b] = f /\ self_node[b] \in {Null, <<f, b>>}
  BY DEF Bodies, WellFormedBodies
<1>5. blocks[f] # << >>
  BY <1>4 DEF In, ToSet
<1>6. Len(blocks[f]) \in Nat \ {0} /\ DOMAIN blocks[f] = 1 .. Len(blocks[f])
  BY <1>1, <1>5
<1>7. Last(blocks[f]) \in In(f)
  BY <1>2, <1>6 DEF Last
<1> QED
  BY <1>1, <1>2, <1>3, <1>4, <1>6, <1>7

(* A block is in one body at most.                                         *)
LEMMA Apart ==
  ASSUME Bodies, NEW f \in Functions, NEW g \in Functions, NEW b \in In(f), b \in In(g)
  PROVE  f \in defined /\ f = g
<1>1. f \in defined /\ g \in defined
  BY DEF Bodies, Typed, In, ToSet
<1> QED
  BY <1>1, OfBody

(* A node is neither of the two values a proxy has without one.            *)
LEMMA NotANode ==
  ASSUME NEW f \in Functions, NEW b \in Blocks
  PROVE  <<f, b>> # Null /\ <<f, b>> # Stale
<1>1. <<f, b>> \in Functions \X Blocks
  OBVIOUS
<1> QED
  BY <1>1, NamesAssumption

(* A new body of its one block.                                            *)
LEMMA NewBodyKeeps ==
  ASSUME Bodies, NEW f \in Functions \ defined, NEW b \in Blocks, NewBody(f, b),
         made' = made \cup {f, b}, held \subseteq held', held' \subseteq made'
  PROVE  Bodies'
<1>1. /\ b \notin made /\ defined' = defined \cup {f}
      /\ blocks' = [blocks EXCEPT ![f] = <<b>>]
      /\ entry' = [entry EXCEPT ![f] = b] /\ parent' = [parent EXCEPT ![b] = f]
      /\ self_node' = [self_node EXCEPT ![b] = <<f, b>>]
  BY DEF NewBody
<1>2. <<b>> \in Seq(Blocks) /\ ToSet(<<b>>) = {b} /\ IsInjective(<<b>>)
  BY Single
<1>3. Typed'
  BY <1>1, <1>2 DEF Bodies, Typed
<1>4. /\ In(f)' = {b} /\ IsInjective(blocks'[f])
      /\ \A g \in defined : g # f /\ blocks'[g] = blocks[g] /\ In(g)' = In(g) /\ b \notin In(g)
  BY <1>1, <1>2, OfBody DEF Bodies, Typed, In
<1>5. WellFormedBodies'
  <2>1. ASSUME NEW g \in defined
        PROVE  /\ entry'[g] \in In(g)' /\ In(g)' \subseteq made' /\ IsInjective(blocks'[g])
               /\ \A c \in In(g)' : parent'[c] = g /\ self_node'[c] \in {Null, <<g, c>>}
    BY <1>1, <1>4, OfBody DEF Bodies, Typed
  <2>2. /\ entry'[f] \in In(f)' /\ In(f)' \subseteq made' /\ IsInjective(blocks'[f])
        /\ \A c \in In(f)' : parent'[c] = f /\ self_node'[c] \in {Null, <<f, c>>}
    BY <1>1, <1>4 DEF Bodies, Typed
  <2> QED
    BY <1>1, <2>1, <2>2 DEF WellFormedBodies
<1>6. ProxiesTrue'
  <2> SUFFICES ASSUME NEW x \in Blocks, NEW y \in Blocks, NEW g \in Functions,
                      self_node'[x] = <<g, y>>
               PROVE  x \in made' /\ g \in defined' /\ y \in In(g)' /\ parent'[x] = g
    BY DEF ProxiesTrue
  <2>1. CASE x = b
    BY <2>1, <1>1, <1>4 DEF Bodies, Typed
  <2>2. CASE x # b
    BY <2>2, <1>1, <1>4 DEF Bodies, Typed, ProxiesTrue
  <2> QED
    BY <2>1, <2>2
<1> QED
  BY <1>3, <1>5, <1>6 DEF Bodies

(* Insertion into f by a modifier that belongs to f.                       *)
LEMMA InsertKeeps ==
  ASSUME Bodies, BodiesRespected, NEW f \in defined, NEW b \in Blocks,
         NEW k \in 1 .. Len(blocks[f]) + 1, InsertInto(f, k, f, b)
  PROVE  Bodies'
<1>1. /\ b \in held /\ ~Listed(b)
      /\ blocks' = [blocks EXCEPT ![f] = InsertAt(@, k, b)]
      /\ self_node' = [self_node EXCEPT ![b] = <<f, b>>]
      /\ parent' = [parent EXCEPT ![b] = parent[Last(blocks[f])]]
      /\ UNCHANGED <<made, defined, held, entry>>
  BY DEF InsertInto, Insertable, Inherit, BodiesRespected
<1>2. /\ f \in Functions /\ blocks[f] \in Seq(Blocks) /\ IsInjective(blocks[f])
      /\ parent[Last(blocks[f])] = f
  BY OfBody
<1>3. \A g \in Functions : b \notin In(g)
  BY <1>1 DEF Listed
<1> DEFINE t == InsertAt(blocks[f], k, b)
<1>4. t \in Seq(Blocks) /\ ToSet(t) = In(f) \cup {b} /\ IsInjective(t)
  BY <1>2, <1>3, Inserted DEF In
<1> HIDE DEF t
<1>5. /\ blocks' = [blocks EXCEPT ![f] = t] /\ parent' = [parent EXCEPT ![b] = f]
      /\ blocks \in [Functions -> Seq(Blocks)] /\ self_node \in [Blocks -> (Functions \X Blocks) \cup {Null, Stale}]
      /\ parent \in [Blocks -> Functions \cup {Null}] /\ entry \in [Functions -> Blocks \cup {Null}]
  BY <1>1, <1>2 DEF t, Bodies, Typed
<1>6. Typed'
  BY <1>1, <1>2, <1>4, <1>5 DEF Bodies, Typed
<1>7. /\ In(f)' = In(f) \cup {b} /\ IsInjective(blocks'[f])
      /\ \A g \in Functions \ {f} : In(g)' = In(g) /\ blocks'[g] = blocks[g]
  BY <1>2, <1>4, <1>5 DEF In
<1>8. WellFormedBodies'
  <2>1. ASSUME NEW g \in defined'
        PROVE  /\ entry'[g] \in In(g)' /\ In(g)' \subseteq made' /\ IsInjective(blocks'[g])
               /\ \A c \in In(g)' : parent'[c] = g /\ self_node'[c] \in {Null, <<g, c>>}
    <3>1. /\ g \in defined /\ g \in Functions /\ entry[g] \in In(g) /\ In(g) \subseteq Blocks \cap made
          /\ IsInjective(blocks[g])
          /\ \A c \in In(g) : parent[c] = g /\ self_node[c] \in {Null, <<g, c>>}
      BY <1>1, <2>1, OfBody
    <3>2. b \in made
      BY <1>1 DEF Bodies, Typed
    <3>3. CASE g = f
      BY <3>1, <3>2, <3>3, <1>1, <1>3, <1>5, <1>7
    <3>4. CASE g # f
      BY <3>1, <3>4, <1>1, <1>3, <1>5, <1>7
    <3> QED
      BY <3>3, <3>4
  <2> QED
    BY <2>1 DEF WellFormedBodies
<1>9. ProxiesTrue'
  <2> SUFFICES ASSUME NEW x \in Blocks, NEW y \in Blocks, NEW g \in Functions,
                      self_node'[x] = <<g, y>>
               PROVE  x \in made' /\ g \in defined' /\ y \in In(g)' /\ parent'[x] = g
    BY DEF ProxiesTrue
  <2>1. CASE x = b
    BY <2>1, <1>1, <1>5, <1>7 DEF Bodies, Typed
  <2>2. CASE x # b
    <3>1. x \in made /\ g \in defined /\ y \in In(g) /\ parent[x] = g
      BY <2>2, <1>1, <1>5 DEF Bodies, ProxiesTrue
    <3> QED
      BY <3>1, <2>2, <1>1, <1>5, <1>7
  <2> QED
    BY <2>1, <2>2
<1> QED
  BY <1>6, <1>8, <1>9 DEF Bodies

(* Removal of a block that is not the entry of its parent.                 *)
LEMMA RemoveKeeps ==
  ASSUME Bodies, NEW f \in defined, NEW k \in DOMAIN blocks[f], remove_this(f, k)
  PROVE  Bodies'
<1> DEFINE b == blocks[f][k]
           t == RemoveAt(blocks[f], k)
<1>1. /\ f \in Functions /\ blocks[f] \in Seq(Blocks) /\ IsInjective(blocks[f])
      /\ b \in In(f) /\ b \in Blocks /\ b \in made /\ parent[b] = f
      /\ k \in 1 .. Len(blocks[f]) /\ entry[f] \in In(f)
  BY OfBody
<1>2. /\ blocks' = [blocks EXCEPT ![f] = t] /\ held' = held \cup {b}
      /\ self_node' = [x \in Blocks |-> CASE x = b -> Null
                                          [] self_node[x] = <<f, b>> /\ x # b -> Stale
                                          [] OTHER -> self_node[x]]
      /\ UNCHANGED <<defined, made, entry, parent>>
      /\ entry[f] # b
  BY <1>1 DEF remove_this, Protected
<1>3. t \in Seq(Blocks) /\ ToSet(t) = In(f) \ {b} /\ IsInjective(t)
  BY <1>1, Removed DEF In
<1> HIDE DEF b, t
<1>4. \A x \in Blocks : self_node'[x] \in {Null, Stale} \/ (/\ x # b /\ self_node'[x] = self_node[x]
                                                            /\ self_node[x] # <<f, b>>)
  BY <1>2
<1>5. /\ blocks \in [Functions -> Seq(Blocks)]
      /\ self_node \in [Blocks -> (Functions \X Blocks) \cup {Null, Stale}]
  BY DEF Bodies, Typed
<1>6. Typed'
  <2>1. self_node' \in [Blocks -> (Functions \X Blocks) \cup {Null, Stale}]
    BY <1>2, <1>5
  <2> QED
    BY <1>1, <1>2, <1>3, <1>5, <2>1 DEF Bodies, Typed
<1>7. /\ In(f)' = In(f) \ {b} /\ IsInjective(blocks'[f])
      /\ \A g \in Functions \ {f} : In(g)' = In(g) /\ blocks'[g] = blocks[g]
  BY <1>1, <1>2, <1>3, <1>5 DEF In
<1>8. WellFormedBodies'
  <2>1. ASSUME NEW g \in defined'
        PROVE  /\ entry'[g] \in In(g)' /\ In(g)' \subseteq made' /\ IsInjective(blocks'[g])
               /\ \A c \in In(g)' : parent'[c] = g /\ self_node'[c] \in {Null, <<g, c>>}
    <3>1. /\ g \in defined /\ g \in Functions /\ entry[g] \in In(g) /\ In(g) \subseteq Blocks \cap made
          /\ IsInjective(blocks[g])
          /\ \A c \in In(g) : parent[c] = g /\ self_node[c] \in {Null, <<g, c>>}
      BY <1>2, <2>1, OfBody
    <3>2. \A c \in In(g)' : c \in In(g) /\ c # b
      BY <3>1, <1>1, <1>7, Apart
    <3>3. \A c \in In(g)' : self_node'[c] = self_node[c]
      <4>1. ASSUME NEW c \in In(g)' PROVE self_node'[c] = self_node[c]
        <5>1. c \in Blocks /\ c # b /\ self_node[c] \in {Null, <<g, c>>}
          BY <3>1, <3>2
        <5>2. <<f, b>> # Null /\ <<g, c>> # <<f, b>>
          BY <5>1, <1>1, NotANode
        <5>3. self_node[c] # <<f, b>>
          BY <5>1, <5>2
        <5> QED
          BY <5>1, <5>3, <1>2
      <4> QED
        BY <4>1
    <3> QED
      BY <3>1, <3>2, <3>3, <1>2, <1>7
  <2> QED
    BY <2>1 DEF WellFormedBodies
<1>9. ProxiesTrue'
  <2> SUFFICES ASSUME NEW x \in Blocks, NEW y \in Blocks, NEW g \in Functions,
                      self_node'[x] = <<g, y>>
               PROVE  x \in made' /\ g \in defined' /\ y \in In(g)' /\ parent'[x] = g
    BY DEF ProxiesTrue
  <2>1. self_node[x] = <<g, y>> /\ <<g, y>> # <<f, b>>
    BY <1>1, <1>4, NotANode
  <2>2. x \in made /\ g \in defined /\ y \in In(g) /\ parent[x] = g
    BY <2>1 DEF Bodies, ProxiesTrue
  <2> QED
    BY <2>1, <2>2, <1>2, <1>7
<1> QED
  BY <1>6, <1>8, <1>9 DEF Bodies

(* Exchange of a block that is not the entry of its parent.                *)
LEMMA ReplaceKeeps ==
  ASSUME Bodies, BodiesRespected, NEW f \in defined, NEW k \in DOMAIN blocks[f],
         NEW b \in Blocks, replace_this(f, k, b)
  PROVE  Bodies'
<1> DEFINE old == blocks[f][k]
           t == [blocks[f] EXCEPT ![k] = b]
<1>1. /\ f \in Functions /\ blocks[f] \in Seq(Blocks) /\ IsInjective(blocks[f])
      /\ old \in In(f) /\ old \in Blocks /\ old \in made /\ parent[old] = f
      /\ k \in 1 .. Len(blocks[f]) /\ entry[f] \in In(f)
  BY OfBody
<1>2. /\ b \in held /\ ~Listed(b) /\ self_node[b] = Null
      /\ blocks' = [blocks EXCEPT ![f] = t] /\ held' = held \cup {old}
      /\ self_node' = [x \in Blocks |-> IF self_node[x] = <<f, old>> THEN <<f, b>>
                                        ELSE self_node[x]]
      /\ parent' = [parent EXCEPT ![b] = f]
      /\ UNCHANGED <<defined, made, entry>>
      /\ entry[f] # old
  BY <1>1 DEF replace_this, Insertable, Protected, BodiesRespected
<1>3. \A g \in Functions : b \notin In(g)
  BY <1>2 DEF Listed
<1>4. t \in Seq(Blocks) /\ ToSet(t) = (In(f) \ {old}) \cup {b} /\ IsInjective(t)
  <2>1. b \in Blocks \ ToSet(blocks[f])
    BY <1>1, <1>3 DEF In
  <2> QED
    BY <1>1, <2>1, Exchanged DEF In
<1> HIDE DEF old, t
<1>5. /\ blocks \in [Functions -> Seq(Blocks)] /\ parent \in [Blocks -> Functions \cup {Null}]
      /\ self_node \in [Blocks -> (Functions \X Blocks) \cup {Null, Stale}]
      /\ b \in made
  BY <1>2 DEF Bodies, Typed
<1>6. Typed'
  <2>1. self_node' \in [Blocks -> (Functions \X Blocks) \cup {Null, Stale}]
    BY <1>1, <1>2, <1>5
  <2> QED
    BY <1>1, <1>2, <1>4, <1>5, <2>1 DEF Bodies, Typed
<1>7. /\ In(f)' = (In(f) \ {old}) \cup {b} /\ IsInjective(blocks'[f])
      /\ \A g \in Functions \ {f} : In(g)' = In(g) /\ blocks'[g] = blocks[g]
  BY <1>1, <1>2, <1>4, <1>5 DEF In
<1>8. self_node'[b] = Null
  <2>1. <<f, old>> # Null
    BY <1>1, NotANode
  <2> QED
    BY <2>1, <1>2
<1>9. WellFormedBodies'
  <2>1. ASSUME NEW g \in defined'
        PROVE  /\ entry'[g] \in In(g)' /\ In(g)' \subseteq made' /\ IsInjective(blocks'[g])
               /\ \A c \in In(g)' : parent'[c] = g /\ self_node'[c] \in {Null, <<g, c>>}
    <3>1. /\ g \in defined /\ g \in Functions /\ entry[g] \in In(g) /\ In(g) \subseteq Blocks \cap made
          /\ IsInjective(blocks[g])
          /\ \A c \in In(g) : parent[c] = g /\ self_node[c] \in {Null, <<g, c>>}
      BY <1>2, <2>1, OfBody
    <3>2. \A c \in In(g)' : (c = b /\ g = f) \/ (c \in In(g) /\ c # old /\ c # b)
      BY <3>1, <1>1, <1>3, <1>7, Apart
    <3>3. ASSUME NEW c \in In(g), c # old PROVE self_node'[c] = self_node[c]
      <4>1. <<f, old>> # Null /\ <<g, c>> # <<f, old>>
        BY <3>3, <1>1, NotANode
      <4>2. c \in Blocks /\ self_node[c] # <<f, old>>
        BY <4>1, <3>1
      <4> QED
        BY <4>2, <1>2
    <3>4. \A c \in In(g)' : parent'[c] = g /\ self_node'[c] \in {Null, <<g, c>>}
      BY <3>1, <3>2, <3>3, <1>2, <1>5, <1>8
    <3>5. entry'[g] \in In(g)' /\ IsInjective(blocks'[g])
      <4>1. entry'[g] = entry[g] /\ (g = f => entry[g] # old)
        BY <1>2
      <4> QED
        BY <4>1, <3>1, <1>7
    <3>6. In(g)' \subseteq made'
      BY <3>1, <1>2, <1>5, <1>7
    <3> QED
      BY <3>4, <3>5, <3>6
  <2> QED
    BY <2>1 DEF WellFormedBodies
<1>10. ProxiesTrue'
  <2> SUFFICES ASSUME NEW x \in Blocks, NEW y \in Blocks, NEW g \in Functions,
                      self_node'[x] = <<g, y>>
               PROVE  x \in made' /\ g \in defined' /\ y \in In(g)' /\ parent'[x] = g
    BY DEF ProxiesTrue
  <2>1. x # b
    BY <1>8, NotANode
  <2>2. CASE self_node[x] = <<f, old>>
    <3>1. x \in made /\ parent[x] = f /\ g = f /\ y = b
      BY <2>2, <1>1, <1>2 DEF Bodies, ProxiesTrue
    <3> QED
      BY <3>1, <2>1, <1>2, <1>5, <1>7
  <2>3. CASE self_node[x] # <<f, old>>
    <3>1. self_node[x] = <<g, y>> /\ <<g, y>> # <<f, old>>
      BY <2>3, <1>2
    <3>2. x \in made /\ g \in defined /\ y \in In(g) /\ parent[x] = g
      BY <3>1 DEF Bodies, ProxiesTrue
    <3> QED
      BY <3>1, <3>2, <2>1, <1>2, <1>5, <1>7
  <2> QED
    BY <2>2, <2>3
<1> QED
  BY <1>6, <1>9, <1>10 DEF Bodies

(* The list of f is dropped, and perhaps f itself.                         *)
LEMMA CleanKeeps ==
  ASSUME Bodies, NEW f \in defined, NEW H \in SUBSET held, NEW tg, NEW also \in SUBSET {f},
         H \cap also = {}, CleanList(f, H, tg, also), parent' = parent
  PROVE  Bodies' /\ (made \cap Functions) \ also \subseteq made'
<1> DEFINE gone == Gone(f, H)
<1>1. /\ made' = made \ (gone \cup also) /\ held' = H /\ defined' = defined \ {f}
      /\ blocks' = [blocks EXCEPT ![f] = << >>] /\ entry' = [entry EXCEPT ![f] = Null]
      /\ self_node' = [b \in Blocks |-> CASE b \in gone -> Null
                         [] b \notin gone /\ self_node[b] \in NodesOf(f) -> Stale
                         [] OTHER -> self_node[b]]
  BY DEF CleanList
<1>2. /\ f \in Functions /\ In(f) \subseteq Blocks
  BY OfBody
<1>3. /\ gone \subseteq Blocks /\ gone \cap H = {}
      /\ \A g \in Functions \ {f} : gone \cap In(g) = {}
  BY <1>2 DEF Gone
<1> HIDE DEF gone
<1>4. /\ blocks \in [Functions -> Seq(Blocks)] /\ entry \in [Functions -> Blocks \cup {Null}]
      /\ self_node \in [Blocks -> (Functions \X Blocks) \cup {Null, Stale}]
      /\ held \subseteq made /\ made \subseteq Functions \cup Blocks
      /\ defined \subseteq made \cap Functions
      /\ \A g \in Functions \ defined : blocks[g] = << >>
      /\ parent \in [Blocks -> Functions \cup {Null}]
  BY DEF Bodies, Typed
<1>5. (made \cap Functions) \ also \subseteq made'
  BY <1>1, <1>3, NamesAssumption
<1>6. Typed'
  <2>1. self_node' \in [Blocks -> (Functions \X Blocks) \cup {Null, Stale}]
    BY <1>1, <1>4
  <2>2. held' \subseteq made' /\ made' \subseteq Functions \cup Blocks
    BY <1>1, <1>3, <1>4
  <2>3. defined' \subseteq made' \cap Functions
    BY <1>1, <1>4, <1>5
  <2>4. /\ blocks' \in [Functions -> Seq(Blocks)] /\ entry' \in [Functions -> Blocks \cup {Null}]
        /\ \A g \in Functions \ defined' : blocks'[g] = << >>
    BY <1>1, <1>2, <1>4
  <2> QED
    BY <2>1, <2>2, <2>3, <2>4, <1>4 DEF Typed
<1>7. \A g \in Functions \ {f} :
        In(g)' = In(g) /\ blocks'[g] = blocks[g] /\ entry'[g] = entry[g]
  BY <1>1, <1>4 DEF In
<1>8. \A x \in Blocks, g \in Functions, y \in Blocks :
        self_node'[x] = <<g, y>> => self_node[x] = <<g, y>> /\ g # f
  <2> SUFFICES ASSUME NEW x \in Blocks, NEW g \in Functions, NEW y \in Blocks,
                      self_node'[x] = <<g, y>>
               PROVE  self_node[x] = <<g, y>> /\ g # f
    OBVIOUS
  <2>1. <<g, y>> # Null /\ <<g, y>> # Stale
    BY NotANode
  <2>2. self_node[x] = <<g, y>> /\ self_node[x] \notin NodesOf(f)
    BY <2>1, <1>1
  <2> QED
    BY <2>2 DEF NodesOf
<1>9. WellFormedBodies'
  <2>1. ASSUME NEW g \in defined'
        PROVE  /\ entry'[g] \in In(g)' /\ In(g)' \subseteq made' /\ IsInjective(blocks'[g])
               /\ \A c \in In(g)' : parent'[c] = g /\ self_node'[c] \in {Null, <<g, c>>}
    <3>1. /\ g \in defined /\ g \in Functions /\ g # f /\ entry[g] \in In(g)
          /\ In(g) \subseteq Blocks \cap made /\ IsInjective(blocks[g])
          /\ \A c \in In(g) : parent[c] = g /\ self_node[c] \in {Null, <<g, c>>}
      BY <1>1, <2>1, OfBody
    <3>2. In(g) \subseteq made'
      BY <3>1, <1>1, <1>2, <1>3, NamesAssumption
    <3>3. ASSUME NEW c \in In(g) PROVE self_node'[c] \in {Null, <<g, c>>}
      <4>1. c \in Blocks /\ c \notin gone /\ self_node[c] \in {Null, <<g, c>>}
        BY <3>1, <1>3
      <4>2. self_node[c] \notin NodesOf(f)
        BY <4>1, <3>1, <1>2, NotANode DEF NodesOf
      <4> QED
        BY <4>1, <4>2, <1>1
    <3> QED
      BY <3>1, <3>2, <3>3, <1>7
  <2> QED
    BY <2>1 DEF WellFormedBodies
<1>10. ProxiesTrue'
  <2> SUFFICES ASSUME NEW x \in Blocks, NEW y \in Blocks, NEW g \in Functions,
                      self_node'[x] = <<g, y>>
               PROVE  x \in made' /\ g \in defined' /\ y \in In(g)' /\ parent'[x] = g
    BY DEF ProxiesTrue
  <2>1. self_node[x] = <<g, y>> /\ g # f
    BY <1>8
  <2>2. x \in made /\ g \in defined /\ y \in In(g) /\ parent[x] = g
    BY <2>1 DEF Bodies, ProxiesTrue
  <2>3. x \notin gone
    BY <1>1, <2>1, NotANode
  <2> QED
    BY <2>1, <2>2, <2>3, <1>1, <1>2, <1>7, NamesAssumption
<1> QED
  BY <1>5, <1>6, <1>9, <1>10 DEF Bodies

(* A function without a name or another owner is destroyed.                *)
LEMMA DestroyKeeps ==
  ASSUME Bodies, NEW f \in Functions \cap made, Destroy(f, held \ {f})
  PROVE  Bodies' /\ (made \cap Functions) \ {f} \subseteq made'
<1>1. CASE f \notin defined
  <2>1. /\ made' = made \ {f} /\ held' = held \ {f}
        /\ UNCHANGED <<defined, blocks, entry, parent, self_node>>
    BY <1>1 DEF Destroy, body, fields
  <2>2. Typed'
    BY <1>1, <2>1 DEF Bodies, Typed
  <2>3. \A g \in Functions : In(g)' = In(g)
    BY <2>1 DEF In
  <2>4. WellFormedBodies'
    <3>1. ASSUME NEW g \in defined
          PROVE  /\ entry[g] \in In(g) /\ In(g) \subseteq made \ {f} /\ IsInjective(blocks[g])
                 /\ \A b \in In(g) : parent[b] = g /\ self_node[b] \in {Null, <<g, b>>}
      BY OfBody, NamesAssumption
    <3> QED
      BY <3>1, <2>1, <2>3 DEF WellFormedBodies, Bodies, Typed
  <2>5. ProxiesTrue'
    BY <2>1, <2>3, NamesAssumption DEF Bodies, ProxiesTrue
  <2> QED
    BY <2>1, <2>2, <2>4, <2>5 DEF Bodies
<1>2. CASE f \in defined
  <2>1. PICK tg : CleanList(f, held \ {f}, tg, {f}) /\ parent' = parent
    BY <1>2 DEF Destroy
  <2> QED
    BY <1>2, <2>1, CleanKeeps
<1> QED
  BY <1>1, <1>2

(* Nothing about the bodies changes, and nothing is destroyed.             *)
LEMMA UntouchedKeeps ==
  ASSUME Bodies, UNCHANGED <<defined, blocks, entry, parent, self_node>>,
         made \subseteq made', made' \subseteq Functions \cup Blocks, held' \subseteq made'
  PROVE  Bodies'
<1>1. \A g \in Functions : In(g)' = In(g)
  BY DEF In
<1>2. Typed'
  BY DEF Bodies, Typed
<1>3. WellFormedBodies'
  BY <1>1 DEF Bodies, WellFormedBodies, Typed
<1>4. ProxiesTrue'
  BY <1>1 DEF Bodies, ProxiesTrue
<1> QED
  BY <1>2, <1>3, <1>4 DEF Bodies

(* A new block is in no body, and the proxy of a block that does not exist *)
(* on no node.                                                             *)
LEMMA NewBlockKeeps ==
  ASSUME Bodies, NEW b \in Blocks, NEW f \in Functions, NEW t, NewBlock(b, f, t)
  PROVE  Bodies'
<1>1. /\ b \notin made /\ made' = made \cup {b} /\ held' = held \cup {b}
      /\ parent' = [parent EXCEPT ![b] = f]
      /\ UNCHANGED <<defined, blocks, entry, self_node>>
  BY DEF NewBlock, body
<1>2. \A g \in Functions : In(g)' = In(g)
  BY <1>1 DEF In
<1>3. Typed'
  BY <1>1 DEF Bodies, Typed
<1>4. WellFormedBodies'
  <2>1. ASSUME NEW g \in defined
        PROVE  /\ g \in Functions /\ entry[g] \in In(g) /\ In(g) \subseteq Blocks \cap made
               /\ IsInjective(blocks[g])
               /\ \A c \in In(g) : parent[c] = g /\ self_node[c] \in {Null, <<g, c>>}
    BY OfBody
  <2>2. \A g \in defined : \A c \in In(g) : parent'[c] = parent[c]
    BY <2>1, <1>1 DEF Bodies, Typed
  <2> QED
    BY <2>1, <2>2, <1>1, <1>2 DEF WellFormedBodies
<1>5. ProxiesTrue'
  BY <1>1, <1>2 DEF Bodies, ProxiesTrue, Typed
<1> QED
  BY <1>3, <1>4, <1>5 DEF Bodies

(* A client gives up a block.                                              *)
LEMMA ReleaseKeeps ==
  ASSUME Bodies, NEW b \in Blocks, ReleaseBlock(b)
  PROVE  Bodies' /\ made \cap Functions \subseteq made'
<1>1. /\ held' = held \ {b} /\ UNCHANGED <<defined, blocks, entry>>
  BY DEF ReleaseBlock, body
<1>2. CASE Listed(b)
  <2>1. UNCHANGED <<made, parent, self_node>>
    BY <1>2 DEF ReleaseBlock, fields
  <2> QED
    BY <2>1, <1>1, UntouchedKeeps DEF Bodies, Typed
<1>3. CASE ~Listed(b)
  <2>1. /\ made' = made \ {b} /\ parent' = [parent EXCEPT ![b] = Null]
        /\ self_node' = [self_node EXCEPT ![b] = Null]
    BY <1>3 DEF ReleaseBlock
  <2>2. \A g \in Functions : In(g)' = In(g) /\ b \notin In(g)
    BY <1>1, <1>3 DEF In, Listed
  <2>3. made \cap Functions \subseteq made'
    BY <2>1, NamesAssumption
  <2>4. Typed'
    BY <1>1, <2>1, NamesAssumption DEF Bodies, Typed
  <2>5. WellFormedBodies'
    <3>1. ASSUME NEW g \in defined
          PROVE  /\ g \in Functions /\ entry[g] \in In(g) /\ In(g) \subseteq Blocks \cap made
                 /\ IsInjective(blocks[g])
                 /\ \A c \in In(g) : parent[c] = g /\ self_node[c] \in {Null, <<g, c>>}
      BY OfBody
    <3>2. \A g \in defined : \A c \in In(g) :
            c # b /\ parent'[c] = parent[c] /\ self_node'[c] = self_node[c]
      BY <3>1, <2>1, <2>2 DEF Bodies, Typed
    <3> QED
      BY <3>1, <3>2, <1>1, <2>1, <2>2 DEF WellFormedBodies
  <2>6. ProxiesTrue'
    <3> SUFFICES ASSUME NEW x \in Blocks, NEW y \in Blocks, NEW g \in Functions,
                        self_node'[x] = <<g, y>>
                 PROVE  x \in made' /\ g \in defined' /\ y \in In(g)' /\ parent'[x] = g
      BY DEF ProxiesTrue
    <3>1. x # b
      BY <2>1, NotANode DEF Bodies, Typed
    <3> QED
      BY <3>1, <1>1, <2>1, <2>2 DEF Bodies, Typed, ProxiesTrue
  <2> QED
    BY <2>3, <2>4, <2>5, <2>6 DEF Bodies
<1> QED
  BY <1>2, <1>3, <1>1 DEF ReleaseBlock, fields
-----------------------------------------------------------------------------
(* The symbol table.                                                       *)
TableTyped ==
  /\ functions \in [Names -> Functions \cup {Null}]
  /\ global_variables \in [Names -> Globals \cup {Null}]

Table == TableTyped /\ OneDefinition

(* A step that leaves the table alone and unmakes no function keeps the table invariant. *)
LEMMA TableKeeps ==
  ASSUME Table, UNCHANGED table, made \cap Functions \subseteq made'
  PROVE  Table'
<1>1. functions' = functions /\ global_variables' = global_variables
  BY DEF table
<1>2. \A n \in Names : functions[n] # Null => functions[n] \in made \cap Functions
  BY DEF Table, TableTyped, OneDefinition
<1> QED
  BY <1>1, <1>2 DEF Table, TableTyped, OneDefinition

(* As UntouchedKeeps, of the table too.                                    *)
LEMMA NothingKeeps ==
  ASSUME Bodies, Table, UNCHANGED <<body, fields, table, made>>, held' \subseteq made
  PROVE  Bodies' /\ Table'
<1>1. UNCHANGED <<defined, blocks, entry, parent, self_node>>
  BY DEF body, fields
<1> QED
  BY <1>1, UntouchedKeeps, TableKeeps DEF Bodies, Typed

(* The owner that a name is goes: only a function without another one is   *)
(* destroyed.                                                              *)
LEMMA LoseKeeps ==
  ASSUME Bodies, Table, NEW n \in Names, Lose(n)
  PROVE  /\ Bodies' /\ held' = held
         /\ \A m \in Names \ {n} : functions[m] # Null => functions[m] \in made'
<1> DEFINE f == functions[n]
<1>1. \A m \in Names : functions[m] # Null => functions[m] \in made \cap Functions
  BY DEF Table, TableTyped, OneDefinition
<1>2. CASE f \in Functions \ held /\ \A m \in Names \ {n} : functions[m] # f
  <2>1. f \in Functions \cap made
    BY <1>1, <1>2, NamesAssumption
  <2>2. Destroy(f, held) /\ held = held \ {f}
    BY <1>2 DEF Lose
  <2>3. Destroy(f, held \ {f})
    BY <2>2
  <2>4. Bodies' /\ (made \cap Functions) \ {f} \subseteq made'
    BY <2>1, <2>3, DestroyKeeps
  <2>5. held' = held
    BY <2>2 DEF Destroy, CleanList
  <2> QED
    BY <1>1, <1>2, <2>4, <2>5
<1>3. CASE ~(f \in Functions \ held /\ \A m \in Names \ {n} : functions[m] # f)
  <2>1. UNCHANGED <<made, held, body, fields>>
    BY <1>3 DEF Lose
  <2>2. UNCHANGED <<defined, blocks, entry, parent, self_node>>
    BY <2>1 DEF body, fields
  <2>3. Bodies'
    BY <2>1, <2>2, UntouchedKeeps DEF Bodies, Typed
  <2> QED
    BY <1>1, <2>1, <2>3
<1> QED
  BY <1>2, <1>3

(* A name comes to stand for d, and what it stood for loses it.            *)
LEMMA NamingKeeps ==
  ASSUME Bodies, Table, NEW n \in Names, NEW d \in (Functions \cap held) \cup Globals,
         Lose(n),
         functions' = [functions EXCEPT ![n] = IF d \in Functions THEN d ELSE Null],
         global_variables' = [global_variables EXCEPT ![n] = IF d \in Globals THEN d ELSE Null]
  PROVE  Bodies' /\ Table'
<1>1. /\ Bodies' /\ held' = held
      /\ \A m \in Names \ {n} : functions[m] # Null => functions[m] \in made'
  BY LoseKeeps
<1>2. held \subseteq made'
  BY <1>1 DEF Bodies, Typed
<1>3. d \notin Functions \/ d \notin Globals
  BY NamesAssumption
<1>4. Table'
  BY <1>1, <1>2, <1>3 DEF Table, TableTyped, OneDefinition
<1> QED
  BY <1>1, <1>4
-----------------------------------------------------------------------------
(* Every step, given that the three calls are not made.                    *)
LEMMA InitHolds == Init => Bodies /\ Table
<1> SUFFICES ASSUME Init PROVE Bodies /\ Table
  OBVIOUS
<1>1. Typed
  BY DEF Init, Typed
<1>2. WellFormedBodies
  BY DEF Init, WellFormedBodies
<1>3. ProxiesTrue
  <2> SUFFICES ASSUME NEW x \in Blocks, NEW y \in Blocks, NEW f \in Functions,
                      self_node[x] = <<f, y>>
               PROVE  FALSE
    BY DEF ProxiesTrue
  <2> QED
    BY NotANode DEF Init
<1>4. Table
  BY DEF Init, Table, TableTyped, OneDefinition
<1> QED
  BY <1>1, <1>2, <1>3, <1>4 DEF Bodies

(* Making, opening and closing a body, making a block and setting the entry. *)
LEMMA BodyStepKeeps ==
  ASSUME Bodies, Table, BodiesRespected,
         \/ \E f \in Functions : Create(f) \/ enableBody(f) \/ disableBody(f)
         \/ \E b \in Blocks, f \in Functions, t \in Blocks \cup {Null} : NewBlock(b, f, t)
         \/ \E f \in Functions, b \in Blocks : set_entry(f, b)
  PROVE  Bodies' /\ Table'
<1>1. ASSUME NEW f \in Functions, Create(f) PROVE Bodies' /\ Table'
  <2>1. f \notin made /\ held' = held \cup {f} /\ UNCHANGED table
    BY <1>1 DEF Create
  <2>2. CASE made' = made \cup {f} /\ UNCHANGED <<body, fields>>
    <3>1. UNCHANGED <<defined, blocks, entry, parent, self_node>>
      BY <2>2 DEF body, fields
    <3> QED
      BY <2>1, <2>2, <3>1, UntouchedKeeps, TableKeeps DEF Bodies, Typed
  <2>3. CASE \E b \in Blocks : NewBody(f, b) /\ made' = made \cup {f, b}
    <3>1. f \in Functions \ defined
      BY <2>1 DEF Bodies, Typed
    <3>2. held \subseteq held' /\ held' \subseteq made' /\ made \subseteq made'
      BY <2>1, <2>3 DEF Bodies, Typed
    <3> QED
      BY <2>1, <2>3, <3>1, <3>2, NewBodyKeeps, TableKeeps
  <2> QED
    BY <1>1, <2>2, <2>3 DEF Create
<1>2. ASSUME NEW f \in Functions, enableBody(f) PROVE Bodies' /\ Table'
  <2>1. /\ f \in made /\ f \in Functions \ defined /\ UNCHANGED <<held, table>>
        /\ \E b \in Blocks : NewBody(f, b) /\ made' = made \cup {b}
    BY <1>2 DEF enableBody
  <2>2. PICK b \in Blocks : NewBody(f, b) /\ made' = made \cup {f, b}
    BY <2>1
  <2>3. held \subseteq held' /\ held' \subseteq made' /\ made \subseteq made'
    BY <2>1, <2>2 DEF Bodies, Typed
  <2> QED
    BY <2>1, <2>2, <2>3, NewBodyKeeps, TableKeeps
<1>3. ASSUME NEW f \in Functions, disableBody(f) PROVE Bodies' /\ Table'
  <2>1. f \in defined /\ CleanList(f, held, target, {}) /\ UNCHANGED <<parent, table>>
    BY <1>3 DEF disableBody
  <2>2. Bodies' /\ (made \cap Functions) \ {} \subseteq made'
    <3>1. {} \in SUBSET {f} /\ held \in SUBSET held /\ held \cap {} = {}
      OBVIOUS
    <3> QED
      BY <2>1, <3>1, CleanKeeps
  <2> QED
    BY <2>1, <2>2, TableKeeps
<1>4. ASSUME NEW b \in Blocks, NEW f \in Functions, NEW t, NewBlock(b, f, t)
      PROVE  Bodies' /\ Table'
  <2>1. UNCHANGED table /\ made \subseteq made'
    BY <1>4 DEF NewBlock
  <2> QED
    BY <1>4, <2>1, NewBlockKeeps, TableKeeps
<1>5. ASSUME NEW f \in Functions, NEW b \in Blocks, set_entry(f, b)
      PROVE  Bodies' /\ Table'
  <2>1. /\ f \in defined /\ b \in In(f) /\ entry' = [entry EXCEPT ![f] = b]
        /\ UNCHANGED <<made, defined, held, blocks, parent, self_node, table>>
    BY <1>5 DEF set_entry, fields, BodiesRespected
  <2>2. \A g \in Functions : In(g)' = In(g)
    BY <2>1 DEF In
  <2>3. Typed'
    BY <2>1 DEF Bodies, Typed
  <2>4. WellFormedBodies'
    BY <2>1, <2>2 DEF Bodies, Typed, WellFormedBodies
  <2>5. ProxiesTrue'
    BY <2>1, <2>2 DEF Bodies, ProxiesTrue
  <2> QED
    BY <2>1, <2>3, <2>4, <2>5, TableKeeps DEF Bodies
<1> QED
  BY <1>1, <1>2, <1>3, <1>4, <1>5

(* The list operations of a body, asked of the function, of a block or of a node. *)
LEMMA ListStepKeeps ==
  ASSUME Bodies, Table, BodiesRespected,
         \/ \E f \in Functions, b \in Blocks : append(f, b) \/ prepend(f, b)
         \/ \E x, b \in Blocks : append_to(x, b) \/ prepend_to(x, b)
         \/ \E f \in defined : \E k \in DOMAIN blocks[f] :
              remove_this(f, k) \/ \E b \in Blocks : replace_this(f, k, b)
  PROVE  Bodies' /\ Table'
<1>1. ASSUME NEW f \in defined, NEW b \in Blocks, NEW k \in 1 .. Len(blocks[f]) + 1,
             InsertInto(f, k, f, b)
      PROVE  Bodies' /\ Table'
  BY <1>1, InsertKeeps, TableKeeps DEF InsertInto
<1>2. ASSUME NEW f \in Functions, NEW b \in Blocks, append(f, b) \/ prepend(f, b)
      PROVE  Bodies' /\ Table'
  <2>1. f \in defined
    BY <1>2 DEF append, prepend
  <2>2. Len(blocks[f]) \in Nat
    BY <2>1, OfBody
  <2>3. 1 \in 1 .. Len(blocks[f]) + 1 /\ Len(blocks[f]) + 1 \in 1 .. Len(blocks[f]) + 1
    BY <2>2
  <2> QED
    BY <1>1, <1>2, <2>1, <2>3 DEF append, prepend
<1>3. ASSUME NEW x \in Blocks, NEW b \in Blocks, NEW after \in {0, 1},
             InsertAround(x, b, after)
      PROVE  Bodies' /\ Table'
  <2>1. PICK f \in defined : \E k \in DOMAIN blocks[f] :
               self_node[x] = <<f, blocks[f][k]>> /\ InsertInto(f, k + after, parent[x], b)
    BY <1>3 DEF InsertAround
  <2>2. PICK k \in DOMAIN blocks[f] :
               self_node[x] = <<f, blocks[f][k]>> /\ InsertInto(f, k + after, parent[x], b)
    BY <2>1
  <2>3. /\ f \in Functions /\ blocks[f][k] \in Blocks
        /\ Len(blocks[f]) \in Nat /\ DOMAIN blocks[f] = 1 .. Len(blocks[f])
    BY OfBody
  <2>4. parent[x] = f
    BY <2>2, <2>3 DEF Bodies, ProxiesTrue
  <2>5. k + after \in 1 .. Len(blocks[f]) + 1
    BY <2>3
  <2> QED
    BY <1>1, <2>2, <2>4, <2>5
<1>4. ASSUME NEW f \in defined, NEW k \in DOMAIN blocks[f], remove_this(f, k)
      PROVE  Bodies' /\ Table'
  BY <1>4, RemoveKeeps, TableKeeps DEF remove_this
<1>5. ASSUME NEW f \in defined, NEW k \in DOMAIN blocks[f], NEW b \in Blocks,
             replace_this(f, k, b)
      PROVE  Bodies' /\ Table'
  BY <1>5, ReplaceKeeps, TableKeeps DEF replace_this
<1> QED
  BY <1>2, <1>3, <1>4, <1>5 DEF append_to, prepend_to

(* Taking a reference to a function or a block and giving it up.           *)
LEMMA OwnerStepKeeps ==
  ASSUME Bodies, Table, BodiesRespected,
         \/ \E f \in Functions : ReleaseFunction(f)
         \/ \E x \in Functions \cup Blocks : Hold(x)
         \/ \E b \in Blocks : ReleaseBlock(b)
  PROVE  Bodies' /\ Table'
<1>1. ASSUME NEW f \in Functions, ReleaseFunction(f) PROVE Bodies' /\ Table'
  <2>1. f \in held /\ f \in made /\ UNCHANGED table
    BY <1>1 DEF ReleaseFunction, Bodies, Typed
  <2>2. CASE InTable(f)
    <3>1. UNCHANGED <<body, fields, table, made>> /\ held' \subseteq held
      BY <1>1, <2>2 DEF ReleaseFunction
    <3> QED
      BY <3>1, NothingKeeps DEF Bodies, Typed
  <2>3. CASE ~InTable(f)
    <3>1. Destroy(f, held \ {f})
      BY <1>1, <2>3 DEF ReleaseFunction
    <3>2. Bodies' /\ (made \cap Functions) \ {f} \subseteq made'
      BY <2>1, <3>1, DestroyKeeps
    <3>3. Table'
      BY <2>1, <2>3, <3>2 DEF table, InTable, Table, TableTyped, OneDefinition
    <3> QED
      BY <3>2, <3>3
  <2> QED
    BY <2>2, <2>3
<1>2. ASSUME NEW x \in Functions \cup Blocks, Hold(x) PROVE Bodies' /\ Table'
  BY <1>2, NothingKeeps DEF Hold, Bodies, Typed
<1>3. ASSUME NEW b \in Blocks, ReleaseBlock(b) PROVE Bodies' /\ Table'
  BY <1>3, ReleaseKeeps, TableKeeps DEF ReleaseBlock
<1> QED
  BY <1>1, <1>2, <1>3

(* The setters of the module table, with the definition they may drop.     *)
LEMMA TableStepKeeps ==
  ASSUME Bodies, Table,
         \/ \E n \in Names, f \in Functions \cap held : setFunction(n, f) \/ setOrReplaceFunction(n, f)
         \/ \E n \in Names, v \in Globals : setGlobalVariable(n, v) \/ setOrReplaceGlobalVariable(n, v)
         \/ \E n \in Names, d \in (Functions \cap held) \cup Globals : setOrReplaceDefinition(n, d)
  PROVE  Bodies' /\ Table'
<1>1. held \subseteq made
  BY DEF Bodies, Typed
<1>2. ASSUME UNCHANGED <<made, held, body, fields>> PROVE Bodies' /\ made' = made
  BY <1>1, <1>2, UntouchedKeeps DEF Bodies, Typed, body, fields
<1>3. ASSUME NEW n \in Names, NEW f \in Functions \cap held, setFunction(n, f)
      PROVE  Bodies' /\ Table'
  <2>1. /\ global_variables[n] = Null /\ functions' = [functions EXCEPT ![n] = f]
        /\ UNCHANGED <<made, held, body, fields, global_variables>>
    BY <1>3 DEF setFunction
  <2>2. Table'
    BY <1>1, <2>1 DEF Table, TableTyped, OneDefinition
  <2> QED
    BY <1>2, <2>1, <2>2
<1>4. ASSUME NEW n \in Names, NEW f \in Functions \cap held, setOrReplaceFunction(n, f)
      PROVE  Bodies' /\ Table'
  <2>1. /\ Lose(n) /\ global_variables[n] = Null /\ global_variables' = global_variables
        /\ functions' = [functions EXCEPT ![n] = f] /\ f \notin Globals
    BY <1>4, NamesAssumption DEF setOrReplaceFunction
  <2>2. /\ functions' = [functions EXCEPT ![n] = IF f \in Functions THEN f ELSE Null]
        /\ global_variables' = [global_variables EXCEPT ![n] = IF f \in Globals THEN f ELSE Null]
    BY <2>1 DEF Table, TableTyped
  <2> QED
    BY <2>1, <2>2, NamingKeeps
<1>5. ASSUME NEW n \in Names, NEW v \in Globals,
             setGlobalVariable(n, v) \/ setOrReplaceGlobalVariable(n, v)
      PROVE  Bodies' /\ Table'
  <2>1. /\ functions[n] = Null /\ global_variables' = [global_variables EXCEPT ![n] = v]
        /\ UNCHANGED <<made, held, body, fields, functions>>
    BY <1>5 DEF setGlobalVariable, setOrReplaceGlobalVariable
  <2>2. Table'
    BY <2>1 DEF Table, TableTyped, OneDefinition
  <2> QED
    BY <1>2, <2>1, <2>2
<1>6. ASSUME NEW n \in Names, NEW d \in (Functions \cap held) \cup Globals,
             setOrReplaceDefinition(n, d)
      PROVE  Bodies' /\ Table'
  <2>1. Lose(n)
    BY <1>6 DEF setOrReplaceDefinition
  <2>2. /\ functions' = [functions EXCEPT ![n] = IF d \in Functions THEN d ELSE Null]
        /\ global_variables' = [global_variables EXCEPT ![n] = IF d \in Globals THEN d ELSE Null]
    BY <1>6 DEF setOrReplaceDefinition, Erased, Table, TableTyped
  <2> QED
    BY <2>1, <2>2, NamingKeeps
<1> QED
  BY <1>3, <1>4, <1>5, <1>6

(* Every step keeps the invariants of bodies and table while no body is overrun. *)
LEMMA StepKeeps ==
  ASSUME Bodies, Table, BodiesRespected, [Next]_vars
  PROVE  Bodies' /\ Table'
<1>1. CASE UNCHANGED vars
  BY <1>1, NothingKeeps DEF vars, Bodies, Typed
<1>2. CASE Next
  BY <1>2, BodyStepKeeps, ListStepKeeps, OwnerStepKeeps, TableStepKeeps DEF Next
<1> QED
  BY <1>1, <1>2

(***************************************************************************)
(* Whatever the functions and blocks: unless a client inserts a listed     *)
(* block, replaces by a block with a proxy of its own, or makes an entry   *)
(* of a block that is in no list, the bodies stay well-formed, through any *)
(* sequence of insertions, removals, replacements and destructions.        *)
(***************************************************************************)
THEOREM BodiesStayWellFormed ==
  ASSUME BodiesRespected
  PROVE  Spec => []WellFormedBodies
<1>1. Init => Bodies /\ Table
  BY InitHolds
<1>2. Bodies /\ Table /\ [Next]_vars => (Bodies /\ Table)'
  BY StepKeeps
<1>3. Bodies /\ Table => WellFormedBodies
  BY DEF Bodies
<1> QED
  BY <1>1, <1>2, <1>3, PTL DEF Spec

(***************************************************************************)
(* Under the same condition a name stands for one definition, and a        *)
(* function in the symbol table has not been destroyed.                    *)
(***************************************************************************)
THEOREM NamesStandForOne ==
  ASSUME BodiesRespected
  PROVE  Spec => []OneDefinition
<1>1. Init => Bodies /\ Table
  BY InitHolds
<1>2. Bodies /\ Table /\ [Next]_vars => (Bodies /\ Table)'
  BY StepKeeps
<1>3. Bodies /\ Table => OneDefinition
  BY DEF Table
<1> QED
  BY <1>1, <1>2, <1>3, PTL DEF Spec
-----------------------------------------------------------------------------
(* A jump leads from a block that exists to one that exists.               *)
Jumps ==
  /\ target \in [Blocks -> Blocks \cup {Null}]
  /\ \A b \in Blocks : target[b] # Null => b \in made /\ target[b] \in made
  /\ touched = FALSE

(* Jumps that are not touched, in blocks that all stay, stay good.         *)
LEMMA JumpsStay ==
  ASSUME Jumps, UNCHANGED <<target, touched>>, made \subseteq made'
  PROVE  Jumps'
BY DEF Jumps

(* The blocks that go take their jumps along, and no other jumps to them.  *)
LEMMA CleanKeepsJumps ==
  ASSUME Bodies, Jumps, Calls = {}, NEW f \in defined, NEW H,
         NEW tg \in [Blocks -> Blocks \cup {Null}], NEW also \in SUBSET {f},
         \A b \in Blocks : tg[b] \in {Null, target[b]},
         CleanList(f, H, tg, also), ~Reaches(blocks[f], Gone(f, H), tg)
  PROVE  Jumps'
<1> DEFINE gone == Gone(f, H)
<1>1. /\ made' = made \ (gone \cup also)
      /\ target' = [b \in Blocks |-> IF b \in gone THEN Null ELSE tg[b]]
      /\ touched' = (touched \/ Reaches(blocks[f], gone, tg))
      /\ \A b \in (Blocks \cap made) \ gone : tg[b] \notin gone
  BY DEF CleanList
<1>0. touched' = FALSE
  BY <1>1 DEF Jumps
<1> HIDE DEF gone
<1>2. \A b \in Blocks : b \notin also
  BY OfBody, NamesAssumption
<1>3. ASSUME NEW b \in Blocks, target'[b] # Null
      PROVE  b \in made' /\ target'[b] \in made'
  <2>1. b \notin gone /\ target'[b] = tg[b] /\ tg[b] = target[b]
    BY <1>1, <1>3
  <2>2. b \in made /\ target[b] \in made /\ target[b] \in Blocks
    BY <2>1, <1>3 DEF Jumps
  <2> QED
    BY <2>1, <2>2, <1>1, <1>2
<1>4. target' \in [Blocks -> Blocks \cup {Null}]
  BY <1>1
<1> QED
  BY <1>0, <1>3, <1>4 DEF Jumps

(* A function that is destroyed takes its own jumps along.                 *)
LEMMA DestroyKeepsJumps ==
  ASSUME Bodies, Jumps, Calls = {}, NEW f \in Functions, NEW H, Destroy(f, H)
  PROVE  Jumps'
<1>1. CASE f \notin defined
  <2>1. made' = made \ {f} /\ UNCHANGED <<target, touched>>
    BY <1>1 DEF Destroy, fields
  <2> QED
    BY <2>1, NamesAssumption DEF Jumps
<1>2. CASE f \in defined
  <2> DEFINE tg == [b \in Blocks |-> IF b \in In(f) THEN Null ELSE target[b]]
  <2>1. CleanList(f, H, tg, {f})
    BY <1>2 DEF Destroy, Finalized
  <2>2. /\ tg \in [Blocks -> Blocks \cup {Null}]
        /\ \A b \in Blocks : tg[b] \in {Null, target[b]}
    BY DEF Jumps
  <2>3. ~Reaches(blocks[f], Gone(f, H), tg)
    <3>1. \A b \in Gone(f, H) : tg[b] = Null
      BY <1>2, OfBody DEF Gone
    <3> HIDE DEF tg
    <3> QED
      BY <3>1 DEF Reaches
  <2> HIDE DEF tg
  <2> QED
    BY <1>2, <2>1, <2>2, <2>3, CleanKeepsJumps
<1> QED
  BY <1>1, <1>2

(* So does one destroyed because a table entry was its last owner.         *)
LEMMA LoseKeepsJumps ==
  ASSUME Bodies, Jumps, Calls = {}, NEW n \in Names, Lose(n)
  PROVE  Jumps'
<1>1. CASE functions[n] \in Functions \ held /\ \A m \in Names \ {n} : functions[m] # functions[n]
  <2>1. Destroy(functions[n], held)
    BY <1>1 DEF Lose
  <2> QED
    BY <1>1, <2>1, DestroyKeepsJumps
<1>2. CASE ~(functions[n] \in Functions \ held /\ \A m \in Names \ {n} : functions[m] # functions[n])
  <2>1. UNCHANGED <<made, target, touched>>
    BY <1>2 DEF Lose, fields
  <2> QED
    BY <2>1, JumpsStay
<1> QED
  BY <1>1, <1>2

(* Every step of clients with none of the unsafe calls keeps the jumps good. *)
LEMMA StepKeepsJumps ==
  ASSUME Bodies, Jumps, Calls = {}, [Next]_vars
  PROVE  Jumps'
<1>1. CASE UNCHANGED vars
  BY <1>1, JumpsStay DEF vars, fields
<1>2. ASSUME NEW f \in Functions, Create(f) \/ enableBody(f) PROVE Jumps'
  <2>1. UNCHANGED <<target, touched>> /\ made \subseteq made'
    BY <1>2 DEF Create, enableBody, NewBody, fields
  <2> QED
    BY <2>1, JumpsStay
<1>3. ASSUME NEW f \in Functions, disableBody(f) PROVE Jumps'
  <2>1. /\ f \in defined /\ CleanList(f, held, target, {})
        /\ ~Reaches(blocks[f], Gone(f, held), target)
    BY <1>3 DEF disableBody
  <2>2. /\ target \in [Blocks -> Blocks \cup {Null}] /\ {} \in SUBSET {f}
        /\ \A b \in Blocks : target[b] \in {Null, target[b]}
    BY DEF Jumps
  <2> QED
    BY <2>1, <2>2, CleanKeepsJumps
<1>4. ASSUME NEW f \in Functions, ReleaseFunction(f) PROVE Jumps'
  <2>1. CASE InTable(f)
    BY <1>4, <2>1, JumpsStay DEF ReleaseFunction, fields
  <2>2. CASE ~InTable(f)
    BY <1>4, <2>2, DestroyKeepsJumps DEF ReleaseFunction
  <2> QED
    BY <2>1, <2>2
<1>5. ASSUME NEW b \in Blocks, NEW f \in Functions, NEW t \in Blocks \cup {Null}, NewBlock(b, f, t)
      PROVE  Jumps'
  <2>1. /\ b \notin made /\ made' = made \cup {b} /\ (t # Null => t \in made)
        /\ target' = [target EXCEPT ![b] = t] /\ touched' = touched
    BY <1>5 DEF NewBlock
  <2> QED
    BY <2>1 DEF Jumps
<1>6. ASSUME NEW f, NEW k, NEW l, NEW b, InsertInto(f, k, l, b) PROVE Jumps'
  BY <1>6, JumpsStay DEF InsertInto
<1>7. ASSUME NEW f, NEW b, append(f, b) \/ prepend(f, b) \/ set_entry(f, b) PROVE Jumps'
  <2>1. CASE set_entry(f, b)
    BY <2>1, JumpsStay DEF set_entry, fields
  <2> QED
    BY <1>6, <1>7, <2>1 DEF append, prepend
<1>8. ASSUME NEW x, NEW b, append_to(x, b) \/ prepend_to(x, b) PROVE Jumps'
  BY <1>6, <1>8 DEF append_to, prepend_to, InsertAround
<1>9. ASSUME NEW f, NEW k, remove_this(f, k) PROVE Jumps'
  BY <1>9, JumpsStay DEF remove_this
<1>10. ASSUME NEW f, NEW k, NEW b, replace_this(f, k, b) PROVE Jumps'
  BY <1>10, JumpsStay DEF replace_this
<1>11. ASSUME NEW x, Hold(x) PROVE Jumps'
  BY <1>11, JumpsStay DEF Hold, fields
<1>12. ASSUME NEW b \in Blocks, ReleaseBlock(b) PROVE Jumps'
  <2>1. CASE Listed(b)
    BY <1>12, <2>1, JumpsStay DEF ReleaseBlock, fields
  <2>2. CASE ~Listed(b)
    <3>1. /\ \A c \in (Blocks \cap made) \ {b} : target[c] # b
          /\ made' = made \ {b} /\ target' = [target EXCEPT ![b] = Null]
          /\ touched' = (touched \/ target[b] \notin made \cup {Null})
      BY <1>12, <2>2 DEF ReleaseBlock
    <3>2. touched' = FALSE
      <4>1. target[b] \in made \cup {Null} /\ touched = FALSE
        BY DEF Jumps
      <4> QED
        BY <3>1, <4>1
    <3> QED
      BY <3>1, <3>2 DEF Jumps
  <2> QED
    BY <2>1, <2>2
<1>13. ASSUME NEW n \in Names, NEW d, setFunction(n, d) \/ setGlobalVariable(n, d)
                                     \/ setOrReplaceGlobalVariable(n, d)
       PROVE  Jumps'
  BY <1>13, JumpsStay DEF setFunction, setGlobalVariable, setOrReplaceGlobalVariable, fields
<1>14. ASSUME NEW n \in Names, NEW d, setOrReplaceFunction(n, d) \/ setOrReplaceDefinition(n, d)
       PROVE  Jumps'
  BY <1>14, LoseKeepsJumps DEF setOrReplaceFunction, setOrReplaceDefinition
<1>15. CASE Next
  BY <1>15, <1>2, <1>3, <1>4, <1>5, <1>7, <1>8, <1>9, <1>10, <1>11, <1>12, <1>13, <1>14 DEF Next
<1> QED
  BY <1>1, <1>15

(***************************************************************************)
(* Whatever the functions and blocks: as long as the five calls are not    *)
(* made, no destructor reaches into a block that is gone.                  *)
(***************************************************************************)
THEOREM NothingFreedIsEverTouched ==
  ASSUME Calls = {}
  PROVE  Spec => []NothingFreedIsTouched
<1>1. BodiesRespected
  BY DEF BodiesRespected
<1>2. Init => Bodies /\ Table /\ Jumps
  BY InitHolds DEF Init, Jumps
<1>3. Bodies /\ Table /\ Jumps /\ [Next]_vars => (Bodies /\ Table /\ Jumps)'
  BY <1>1, StepKeeps, StepKeepsJumps
<1>4. Bodies /\ Table /\ Jumps => NothingFreedIsTouched
  BY DEF Jumps, NothingFreedIsTouched
<1> QED
  BY <1>2, <1>3, <1>4, PTL DEF Spec

-----------------------------------------------------------------------------
(* The types.                                                              *)
(* The lengths that a hash tells apart.                                     *)
Spans == {n \in Nat : 4 * n < HashSize}

Fields ==
  [id : {"void", "int", "float", "pointer", "array", "function"}, base : Nat, bits : Nat,
   signed : BOOLEAN, const : BOOLEAN, len : Spans, params : Seq(Nat), context : BOOLEAN]

Derived == {"pointer", "array", "function"}

(* A type is made from types that were there before it.                    *)
MadeFrom(type, t) ==
  /\ type \in Fields
  /\ type.id \in Derived => type.base \in 1 .. t - 1
  /\ \A i \in 1 .. Len(type.params) : type.params[i] \in 1 .. t - 1
  /\ type.id # "function" => type.params = << >>
  /\ type.id = "float" => ~type.signed /\ ~type.const

Founded(o) == o \in Seq(Fields) /\ \A t \in 1 .. Len(o) : MadeFrom(o[t], t)

(* No search for an object finds another one.                              *)
Distinct(o) ==
  \A s, t \in 1 .. Len(o) : hash(o)[s] = hash(o)[t] /\ fully_equals(o)[t][s] => s = t

(* The map has all integer types there are, under their widths.            *)
Mapped(o, map) ==
  /\ \A w \in DOMAIN map : map[w] \in 1 .. Len(o) /\ o[map[w]].id = "int"
                           /\ o[map[w]].bits = w /\ ~o[map[w]].const
  /\ \A t \in 1 .. Len(o) : o[t].id = "int" => o[t].bits \in DOMAIN map

Answered == last.ret \in 1 .. Len(obj) /\ Shape(obj, last.seen)[last.ret] = last.want

TypesInv ==
  /\ Founded(obj) /\ Distinct(obj) /\ Mapped(obj, ity_map) /\ Answered
  /\ type_set = 1 .. Len(obj) /\ 9 <= Len(obj)

-----------------------------------------------------------------------------
(* The recursions over the types are well-founded: what each of them says  *)
(* of a type depends on what it says of earlier ones only.                 *)
LEMMA FieldsOf ==
  ASSUME NEW o, Founded(o), NEW t \in 1 .. Len(o)
  PROVE  /\ DOMAIN o = 1 .. Len(o) /\ Len(o) \in Nat
         /\ o[t] \in Fields
         /\ o[t].params \in Seq(Nat) /\ DOMAIN o[t].params = 1 .. Len(o[t].params)
         /\ o[t].id \in Derived => o[t].base \in 1 .. Len(o) /\ o[t].base < t
         /\ \A i \in DOMAIN o[t].params : o[t].params[i] \in 1 .. Len(o) /\ o[t].params[i] < t
         /\ o[t].id \in {"void", "int", "float", "pointer", "array", "function"}
         /\ o[t].id # "function" => o[t].params = << >>
         /\ o[t].id = "float" => ~o[t].signed /\ ~o[t].const
<1>1. o \in Seq(Fields) /\ MadeFrom(o[t], t) /\ Len(o) \in Nat /\ DOMAIN o = 1 .. Len(o)
  BY DEF Founded
<1>2. o[t] \in Fields /\ o[t].params \in Seq(Nat)
  BY <1>1 DEF MadeFrom, Fields
<1>3. DOMAIN o[t].params = 1 .. Len(o[t].params)
  BY <1>2
<1>4. o[t].id \in Derived => o[t].base \in 1 .. Len(o) /\ o[t].base < t
  BY <1>1 DEF MadeFrom
<1>5. \A i \in DOMAIN o[t].params : o[t].params[i] \in 1 .. Len(o) /\ o[t].params[i] < t
  BY <1>1, <1>3 DEF MadeFrom
<1>6. o[t].id \in {"void", "int", "float", "pointer", "array", "function"}
  BY <1>2 DEF Fields
<1> QED
  BY <1>1, <1>2, <1>3, <1>4, <1>5, <1>6 DEF MadeFrom

(* The hash of a type depends on the hashes of earlier types only.         *)
LEMMA HashLocal ==
  ASSUME NEW o, Founded(o), NEW t \in 1 .. Len(o), NEW f, NEW g,
         \A u \in 1 .. Len(o) : u < t => f[u] = g[u]
  PROVE  get_hash(o, f, t) = get_hash(o, g, t)
<1>1. o[t].id \in Derived => f[o[t].base] = g[o[t].base]
  BY FieldsOf
<1>2. [i \in DOMAIN o[t].params |-> f[o[t].params[i]]] = [i \in DOMAIN o[t].params |-> g[o[t].params[i]]]
  BY FieldsOf
<1> QED
  BY <1>1, <1>2 DEF get_hash, Derived

(* So does its shape.                                                      *)
LEMMA ShapeLocal ==
  ASSUME NEW seen, NEW o, Founded(o), NEW t \in 1 .. Len(o), NEW f, NEW g,
         \A u \in 1 .. Len(o) : u < t => f[u] = g[u]
  PROVE  ShapeOf(o, seen, f, t) = ShapeOf(o, seen, g, t)
<1>1. o[t].id \in Derived => f[o[t].base] = g[o[t].base]
  BY FieldsOf
<1>2. [i \in DOMAIN o[t].params |-> f[o[t].params[i]]] = [i \in DOMAIN o[t].params |-> g[o[t].params[i]]]
  BY FieldsOf
<1> QED
  BY <1>1, <1>2 DEF ShapeOf, Derived

(* So does whether it is solid.                                            *)
LEMMA SolidLocal ==
  ASSUME NEW o, Founded(o), NEW t \in 1 .. Len(o), NEW f, NEW g,
         \A u \in 1 .. Len(o) : u < t => f[u] = g[u]
  PROVE  SolidOf(o, f, t) = SolidOf(o, g, t)
<1>1. o[t].id \in Derived => f[o[t].base] = g[o[t].base]
  BY FieldsOf
<1>2. \A i \in DOMAIN o[t].params : f[o[t].params[i]] = g[o[t].params[i]]
  BY FieldsOf
<1> QED
  BY <1>1, <1>2 DEF SolidOf, Derived

(* Whether a type equals another depends on what earlier types than it     *)
(* equal.                                                                  *)
LEMMA EqualsLocal ==
  ASSUME NEW o, Founded(o), NEW s \in 1 .. Len(o), NEW t \in 1 .. Len(o), NEW f, NEW g,
         \A u \in 1 .. Len(o) : u < s => f[u] = g[u]
  PROVE  type_equals(o, f, s, t) = type_equals(o, g, s, t)
<1>1. o[s].id \in Derived => f[o[s].base] = g[o[s].base]
  BY FieldsOf
<1>2. \A i \in DOMAIN o[s].params : f[o[s].params[i]] = g[o[s].params[i]]
  BY FieldsOf
<1>3. o[s].id \in {"void", "int", "float", "pointer", "array", "function"}
  BY FieldsOf
<1>4. CASE o[s].id = "function"
  BY <1>1, <1>2, <1>4 DEF type_equals, Derived, function_equals
<1>5. CASE o[s].id # "function"
  BY <1>1, <1>3, <1>5 DEF type_equals, Derived, pointer_equals
<1> QED
  BY <1>4, <1>5

(* There is therefore a function that the hashes are: else there would be  *)
(* a least number of types for which there is none.                        *)
LEMMA HashDefined ==
  ASSUME NEW o, Founded(o)
  PROVE  hash(o) = [t \in 1 .. Len(o) |-> get_hash(o, hash(o), t)]
<1> DEFINE Upto(k) == \E f : f = [t \in 1 .. k |-> get_hash(o, f, t)]
           T == {k \in 0 .. Len(o) : ~Upto(k)}
<1>0. Len(o) \in Nat /\ DOMAIN o = 1 .. Len(o)
  BY DEF Founded
<1>1. ASSUME T # {} PROVE FALSE
  <2>0. T \in SUBSET Nat
    BY <1>0
  <2>1. PICK k \in T : \A j \in T : k <= j
    <3> HIDE DEF T
    <3> QED
      BY <1>1, <2>0, LeastNatural
  <2>2. k # 0
    <3>1. [t \in 1 .. 0 |-> 0] = [t \in 1 .. 0 |-> get_hash(o, [u \in 1 .. 0 |-> 0], t)]
      OBVIOUS
    <3> QED
      BY <3>1, <2>1
  <2>3. k \in 1 .. Len(o) /\ Upto(k - 1)
    BY <1>0, <2>1, <2>2
  <2>4. PICK f : f = [t \in 1 .. k - 1 |-> get_hash(o, f, t)]
    BY <2>3
  <2> DEFINE g == [t \in 1 .. k |-> get_hash(o, f, t)]
  <2>5. \A t \in 1 .. k - 1 : f[t] = g[t]
    BY <2>3, <2>4
  <2>6. \A t \in 1 .. k : get_hash(o, f, t) = get_hash(o, g, t)
    <3> HIDE DEF g
    <3> SUFFICES ASSUME NEW t \in 1 .. k PROVE get_hash(o, f, t) = get_hash(o, g, t)
      OBVIOUS
    <3>1. k \in Nat /\ k <= Len(o) /\ t \in 1 .. Len(o)
      BY <1>0, <2>3
    <3>2. \A u \in 1 .. Len(o) : u < t => f[u] = g[u]
      BY <1>0, <2>5, <3>1
    <3> QED
      BY <3>1, <3>2, HashLocal
  <2>7. g = [t \in 1 .. k |-> get_hash(o, g, t)]
    BY <2>6
  <2> QED
    BY <2>1, <2>7
<1>2. PICK f : f = [t \in 1 .. Len(o) |-> get_hash(o, f, t)]
  BY <1>0, <1>1
<1>3. f = [t \in DOMAIN o |-> get_hash(o, f, t)]
  BY <1>0, <1>2
<1>4. hash(o) = [t \in DOMAIN o |-> get_hash(o, hash(o), t)]
  BY <1>3, Zenon DEF hash
<1> QED
  BY <1>0, <1>4

(* There is a function that the shapes are.                                *)
LEMMA ShapeDefined ==
  ASSUME NEW seen, NEW o, Founded(o)
  PROVE  Shape(o, seen) = [t \in 1 .. Len(o) |-> ShapeOf(o, seen, Shape(o, seen), t)]
<1> DEFINE Upto(k) == \E f : f = [t \in 1 .. k |-> ShapeOf(o, seen, f, t)]
           T == {k \in 0 .. Len(o) : ~Upto(k)}
<1>0. Len(o) \in Nat /\ DOMAIN o = 1 .. Len(o)
  BY DEF Founded
<1>1. ASSUME T # {} PROVE FALSE
  <2>0. T \in SUBSET Nat
    BY <1>0
  <2>1. PICK k \in T : \A j \in T : k <= j
    <3> HIDE DEF T
    <3> QED
      BY <1>1, <2>0, LeastNatural
  <2>2. k # 0
    <3>1. [t \in 1 .. 0 |-> 0] = [t \in 1 .. 0 |-> ShapeOf(o, seen, [u \in 1 .. 0 |-> 0], t)]
      OBVIOUS
    <3> QED
      BY <3>1, <2>1
  <2>3. k \in 1 .. Len(o) /\ Upto(k - 1)
    BY <1>0, <2>1, <2>2
  <2>4. PICK f : f = [t \in 1 .. k - 1 |-> ShapeOf(o, seen, f, t)]
    BY <2>3
  <2> DEFINE g == [t \in 1 .. k |-> ShapeOf(o, seen, f, t)]
  <2>5. \A t \in 1 .. k - 1 : f[t] = g[t]
    BY <2>3, <2>4
  <2>6. \A t \in 1 .. k : ShapeOf(o, seen, f, t) = ShapeOf(o, seen, g, t)
    <3> HIDE DEF g
    <3> SUFFICES ASSUME NEW t \in 1 .. k PROVE ShapeOf(o, seen, f, t) = ShapeOf(o, seen, g, t)
      OBVIOUS
    <3>1. k \in Nat /\ k <= Len(o) /\ t \in 1 .. Len(o)
      BY <1>0, <2>3
    <3>2. \A u \in 1 .. Len(o) : u < t => f[u] = g[u]
      BY <1>0, <2>5, <3>1
    <3> QED
      BY <3>1, <3>2, ShapeLocal
  <2>7. g = [t \in 1 .. k |-> ShapeOf(o, seen, g, t)]
    BY <2>6
  <2> QED
    BY <2>1, <2>7
<1>2. PICK f : f = [t \in 1 .. Len(o) |-> ShapeOf(o, seen, f, t)]
  BY <1>0, <1>1
<1>3. f = [t \in DOMAIN o |-> ShapeOf(o, seen, f, t)]
  BY <1>0, <1>2
<1>4. Shape(o, seen) = [t \in DOMAIN o |-> ShapeOf(o, seen, Shape(o, seen), t)]
  BY <1>3, Zenon DEF Shape
<1> QED
  BY <1>0, <1>4

(* There is a function that says which types are solid.                    *)
LEMMA SolidDefined ==
  ASSUME NEW o, Founded(o)
  PROVE  Solid(o) = [t \in 1 .. Len(o) |-> SolidOf(o, Solid(o), t)]
<1> DEFINE Upto(k) == \E f : f = [t \in 1 .. k |-> SolidOf(o, f, t)]
           T == {k \in 0 .. Len(o) : ~Upto(k)}
<1>0. Len(o) \in Nat /\ DOMAIN o = 1 .. Len(o)
  BY DEF Founded
<1>1. ASSUME T # {} PROVE FALSE
  <2>0. T \in SUBSET Nat
    BY <1>0
  <2>1. PICK k \in T : \A j \in T : k <= j
    <3> HIDE DEF T
    <3> QED
      BY <1>1, <2>0, LeastNatural
  <2>2. k # 0
    <3>1. [t \in 1 .. 0 |-> 0] = [t \in 1 .. 0 |-> SolidOf(o, [u \in 1 .. 0 |-> 0], t)]
      OBVIOUS
    <3> QED
      BY <3>1, <2>1
  <2>3. k \in 1 .. Len(o) /\ Upto(k - 1)
    BY <1>0, <2>1, <2>2
  <2>4. PICK f : f = [t \in 1 .. k - 1 |-> SolidOf(o, f, t)]
    BY <2>3
  <2> DEFINE g == [t \in 1 .. k |-> SolidOf(o, f, t)]
  <2>5. \A t \in 1 .. k - 1 : f[t] = g[t]
    BY <2>3, <2>4
  <2>6. \A t \in 1 .. k : SolidOf(o, f, t) = SolidOf(o, g, t)
    <3> HIDE DEF g
    <3> SUFFICES ASSUME NEW t \in 1 .. k PROVE SolidOf(o, f, t) = SolidOf(o, g, t)
      OBVIOUS
    <3>1. k \in Nat /\ k <= Len(o) /\ t \in 1 .. Len(o)
      BY <1>0, <2>3
    <3>2. \A u \in 1 .. Len(o) : u < t => f[u] = g[u]
      BY <1>0, <2>5, <3>1
    <3> QED
      BY <3>1, <3>2, SolidLocal
  <2>7. g = [t \in 1 .. k |-> SolidOf(o, g, t)]
    BY <2>6
  <2> QED
    BY <2>1, <2>7
<1>2. PICK f : f = [t \in 1 .. Len(o) |-> SolidOf(o, f, t)]
  BY <1>0, <1>1
<1>3. f = [t \in DOMAIN o |-> SolidOf(o, f, t)]
  BY <1>0, <1>2
<1>4. Solid(o) = [t \in DOMAIN o |-> SolidOf(o, Solid(o), t)]
  BY <1>3, Zenon DEF Solid
<1> QED
  BY <1>0, <1>4

(* There is a function that says which types are equal.                    *)
LEMMA EqualsDefined ==
  ASSUME NEW o, Founded(o)
  PROVE  fully_equals(o) =
           [s \in 1 .. Len(o) |-> [t \in 1 .. Len(o) |-> type_equals(o, fully_equals(o), s, t)]]
<1> DEFINE Row(s, f) == [t \in 1 .. Len(o) |-> type_equals(o, f, s, t)]
           Upto(k) == \E f : f = [t \in 1 .. k |-> Row(t, f)]
           T == {k \in 0 .. Len(o) : ~Upto(k)}
<1> HIDE DEF Row
<1>0. Len(o) \in Nat /\ DOMAIN o = 1 .. Len(o)
  BY DEF Founded
<1>1. ASSUME T # {} PROVE FALSE
  <2>0. T \in SUBSET Nat
    BY <1>0
  <2>1. PICK k \in T : \A j \in T : k <= j
    <3> HIDE DEF T
    <3> QED
      BY <1>1, <2>0, LeastNatural
  <2>2. k # 0
    <3>1. [t \in 1 .. 0 |-> 0] = [t \in 1 .. 0 |-> Row(t, [u \in 1 .. 0 |-> 0])]
      OBVIOUS
    <3> QED
      BY <3>1, <2>1
  <2>3. k \in 1 .. Len(o) /\ Upto(k - 1)
    BY <1>0, <2>1, <2>2
  <2>4. PICK f : f = [t \in 1 .. k - 1 |-> Row(t, f)]
    BY <2>3
  <2> DEFINE g == [t \in 1 .. k |-> Row(t, f)]
  <2>5. \A t \in 1 .. k - 1 : f[t] = g[t]
    BY <2>3, <2>4
  <2>6. \A t \in 1 .. k : Row(t, f) = Row(t, g)
    <3> HIDE DEF g
    <3> SUFFICES ASSUME NEW t \in 1 .. k PROVE Row(t, f) = Row(t, g)
      OBVIOUS
    <3>1. k \in Nat /\ k <= Len(o) /\ t \in 1 .. Len(o)
      BY <1>0, <2>3
    <3>2. \A u \in 1 .. Len(o) : u < t => f[u] = g[u]
      BY <1>0, <2>5, <3>1
    <3> QED
      BY <3>1, <3>2, EqualsLocal DEF Row
  <2>7. g = [t \in 1 .. k |-> Row(t, g)]
    BY <2>6
  <2> QED
    BY <2>1, <2>7
<1>2. PICK f : f = [t \in 1 .. Len(o) |-> Row(t, f)]
  BY <1>0, <1>1
<1>3. f = [s \in DOMAIN o |-> [t \in DOMAIN o |-> type_equals(o, f, s, t)]]
  BY <1>0, <1>2 DEF Row
<1>4. fully_equals(o) = [s \in DOMAIN o |-> [t \in DOMAIN o |-> type_equals(o, fully_equals(o), s, t)]]
  BY <1>3, Zenon DEF fully_equals
<1> QED
  BY <1>0, <1>4

-----------------------------------------------------------------------------
(* What the recursions say of a type, class by class.                      *)
HashAt(o, h, t) ==
  /\ o[t].id = "array" => h[t] = array_hash(h[o[t].base], o[t].len)
  /\ o[t].id = "function" =>
       h[t] = function_hash(h[o[t].base], [i \in DOMAIN o[t].params |-> h[o[t].params[i]]])
  /\ o[t].id = "pointer" => h[t] = pointer_hash(h[o[t].base], o[t].const)
  /\ o[t].id \notin Derived => h[t] = value_hash(o[t])

ShapeAt(o, seen, sh, t) ==
  /\ o[t].id = "array" => sh[t] = ArrayShape(seen, sh[o[t].base], o[t].len)
  /\ o[t].id = "function" =>
       sh[t] = <<"function", sh[o[t].base], [i \in DOMAIN o[t].params |-> sh[o[t].params[i]]]>>
  /\ o[t].id = "pointer" => sh[t] = <<"pointer", t, o[t].base, o[t].const>>
  /\ o[t].id \notin Derived =>
       sh[t] = <<o[t].id, o[t].bits, "sign" \in seen /\ o[t].signed, o[t].const>>

SolidAt(o, solid, t) ==
  solid[t] <=> /\ o[t].id # "void"
               /\ o[t].id \in Derived => solid[o[t].base]
               /\ \A i \in DOMAIN o[t].params : solid[o[t].params[i]]

EqualsAt(o, same, s, t) ==
  /\ o[s].id = "void" => ~same[s][t]
  /\ o[s].id = "pointer" => (same[s][t] <=> s = t /\ same[o[s].base][o[t].base])
  /\ o[s].id \notin {"void", "pointer"} /\ s = t => same[s][t]
  /\ o[s].id # o[t].id => ~same[s][t]
  /\ s # t /\ o[s].id = o[t].id =>
       /\ o[s].id = "int" => (same[s][t] <=> int_equals(o[s], o[t]))
       /\ o[s].id = "float" => (same[s][t] <=> float_equals(o[s], o[t]))
       /\ o[s].id = "array" => (same[s][t] <=> same[o[s].base][o[t].base])
       /\ o[s].id = "function" => (same[s][t] <=> function_equals(same, o[s], o[t]))

(* The hash of every type, by its class.                                   *)
LEMMA HashIs ==
  ASSUME NEW o, Founded(o), NEW t \in 1 .. Len(o)
  PROVE  HashAt(o, hash(o), t)
<1>1. hash(o)[t] = get_hash(o, hash(o), t)
  BY HashDefined, Zenon
<1> QED
  BY <1>1, Zenon DEF HashAt, get_hash, Derived

(* The shape of every type, by its class.                                  *)
LEMMA ShapeIs ==
  ASSUME NEW seen, NEW o, Founded(o), NEW t \in 1 .. Len(o)
  PROVE  ShapeAt(o, seen, Shape(o, seen), t)
<1>1. Shape(o, seen)[t] = ShapeOf(o, seen, Shape(o, seen), t)
  BY ShapeDefined, Zenon
<1> QED
  BY <1>1, Zenon DEF ShapeAt, ShapeOf, ArrayShape, Derived

(* When a type is solid.                                                   *)
LEMMA SolidIs ==
  ASSUME NEW o, Founded(o), NEW t \in 1 .. Len(o)
  PROVE  SolidAt(o, Solid(o), t)
<1>1. Solid(o)[t] = SolidOf(o, Solid(o), t)
  BY SolidDefined, Zenon
<1> QED
  BY <1>1 DEF SolidAt, SolidOf, Derived

(* When a type equals another, by the class of the first.                  *)
LEMMA EqualsIs ==
  ASSUME NEW o, Founded(o), NEW s \in 1 .. Len(o), NEW t \in 1 .. Len(o)
  PROVE  EqualsAt(o, fully_equals(o), s, t)
<1> DEFINE same == fully_equals(o)
<1>0. same = [u \in 1 .. Len(o) |-> [v \in 1 .. Len(o) |-> type_equals(o, same, u, v)]]
  BY EqualsDefined
<1> HIDE DEF same
<1>1. same[s][t] = type_equals(o, same, s, t)
  <2> DEFINE step(u, v) == type_equals(o, same, u, v)
  <2>1. same = [u \in 1 .. Len(o) |-> [v \in 1 .. Len(o) |-> step(u, v)]]
    BY <1>0
  <2> HIDE DEF step
  <2>2. same[s][t] = step(s, t)
    BY <2>1
  <2> QED
    BY <2>2 DEF step
<1>2. o[s].id = "void" => ~type_equals(o, same, s, t)
  BY Zenon DEF type_equals
<1>3. o[s].id = "pointer" => (type_equals(o, same, s, t) <=> s = t /\ same[o[s].base][o[t].base])
  BY Zenon DEF type_equals, pointer_equals
<1>4. o[s].id \notin {"void", "pointer"} /\ s = t => type_equals(o, same, s, t)
  BY Zenon DEF type_equals
<1>5. o[s].id # o[t].id => ~type_equals(o, same, s, t)
  BY Zenon DEF type_equals, pointer_equals
<1>6. s # t /\ o[s].id = o[t].id =>
        /\ o[s].id = "int" => (type_equals(o, same, s, t) <=> int_equals(o[s], o[t]))
        /\ o[s].id = "float" => (type_equals(o, same, s, t) <=> float_equals(o[s], o[t]))
        /\ o[s].id = "array" => (type_equals(o, same, s, t) <=> same[o[s].base][o[t].base])
        /\ o[s].id = "function" => (type_equals(o, same, s, t) <=> function_equals(same, o[s], o[t]))
  <2> SUFFICES ASSUME s # t, o[s].id = o[t].id
      PROVE
        /\ o[s].id = "int" => (type_equals(o, same, s, t) <=> int_equals(o[s], o[t]))
        /\ o[s].id = "float" => (type_equals(o, same, s, t) <=> float_equals(o[s], o[t]))
        /\ o[s].id = "array" => (type_equals(o, same, s, t) <=> same[o[s].base][o[t].base])
        /\ o[s].id = "function" => (type_equals(o, same, s, t) <=> function_equals(same, o[s], o[t]))
    OBVIOUS
  <2>1. o[s].id = "int" => (type_equals(o, same, s, t) <=> int_equals(o[s], o[t]))
    BY Zenon DEF type_equals
  <2>2. o[s].id = "float" => (type_equals(o, same, s, t) <=> float_equals(o[s], o[t]))
    BY Zenon DEF type_equals
  <2>3. o[s].id = "array" => (type_equals(o, same, s, t) <=> same[o[s].base][o[t].base])
    BY Zenon DEF type_equals
  <2>4. o[s].id = "function" => (type_equals(o, same, s, t) <=> function_equals(same, o[s], o[t]))
    BY Zenon DEF type_equals
  <2> QED
    BY <2>1, <2>2, <2>3, <2>4
<1> QED
  BY <1>1, <1>2, <1>3, <1>4, <1>5, <1>6 DEF same, EqualsAt

-----------------------------------------------------------------------------
(* What the hashes and equalities of the code find alike: all but the      *)
(* lengths of arrays is told by the equality alone, the length of one that *)
(* is not nested by the hash.                                              *)

(* Types of one shape are of one kind.                                     *)
LEMMA Kinds ==
  ASSUME NEW seen, NEW o, Founded(o), NEW s \in 1 .. Len(o), NEW t \in 1 .. Len(o), Shape(o, seen)[s] = Shape(o, seen)[t]
  PROVE  o[s].id = o[t].id
<1>1. ASSUME NEW u \in 1 .. Len(o) PROVE Shape(o, seen)[u][1] = o[u].id
  <2>1. ShapeAt(o, seen, Shape(o, seen), u)
    BY ShapeIs
  <2>2. o[u].id \in {"void", "int", "float", "pointer", "array", "function"}
    BY FieldsOf
  <2> HIDE DEF Derived
  <2>3. CASE o[u].id \in Derived
    BY <2>1, <2>3 DEF ShapeAt, ArrayShape, Derived
  <2>4. CASE o[u].id \notin Derived
    BY <2>1, <2>4 DEF ShapeAt, ArrayShape
  <2> QED
    BY <2>3, <2>4
<1> QED
  BY <1>1

(* Equality goes both ways.                                                *)
LEMMA Symmetric ==
  ASSUME NEW o, Founded(o)
  PROVE  \A u, v \in 1 .. Len(o) : fully_equals(o)[u][v] => fully_equals(o)[v][u]
<1> DEFINE same == fully_equals(o)
           Fine(u) == \A v \in 1 .. Len(o) : same[u][v] => same[v][u]
           T == {u \in 1 .. Len(o) : ~Fine(u)}
<1>1. ASSUME T # {} PROVE FALSE
  <2>0. T \in SUBSET Nat
    OBVIOUS
  <2>1. PICK u \in T : \A v \in T : u <= v
    <3> HIDE DEF T
    <3> QED
      BY <1>1, <2>0, LeastNatural
  <2>2. u \in 1 .. Len(o) /\ \A w \in 1 .. Len(o) : w < u => Fine(w)
    BY <2>1 DEF Founded
  <2>3. PICK v \in 1 .. Len(o) : same[u][v] /\ ~same[v][u]
    BY <2>1
  <2> HIDE DEF same, Fine, T
  <2>4. EqualsAt(o, same, u, v) /\ EqualsAt(o, same, v, u)
    BY <2>2, EqualsIs DEF same
  <2>5. u # v
    BY <2>3
  <2>6. o[u].id = o[v].id /\ o[u].id \notin {"void", "pointer"}
    BY <2>2, <2>3, <2>4, <2>5 DEF EqualsAt
  <2>7. o[u].id \in {"int", "float", "array", "function"}
    BY <2>2, <2>6, FieldsOf
  <2>8. CASE o[u].id \in {"int", "float"}
    BY <2>2, <2>3, <2>4, <2>5, <2>6, <2>8 DEF EqualsAt, int_equals, float_equals
  <2>9. CASE o[u].id = "array"
    <3>1. same[o[u].base][o[v].base]
      BY <2>2, <2>3, <2>4, <2>5, <2>6, <2>9 DEF EqualsAt
    <3>2. o[u].base \in 1 .. Len(o) /\ o[u].base < u /\ o[v].base \in 1 .. Len(o)
      BY <2>2, <2>3, <2>6, <2>9, FieldsOf DEF Derived
    <3>3. same[o[v].base][o[u].base]
      BY <2>2, <3>1, <3>2 DEF Fine
    <3> QED
      BY <2>2, <2>3, <2>4, <2>5, <2>6, <2>9, <3>3 DEF EqualsAt
  <2>10. CASE o[u].id = "function"
    <3> DEFINE p == o[u].params
               q == o[v].params
    <3>1. function_equals(same, o[u], o[v])
      BY <2>2, <2>3, <2>4, <2>5, <2>6, <2>10 DEF EqualsAt
    <3>2. o[u].base \in 1 .. Len(o) /\ o[u].base < u /\ o[v].base \in 1 .. Len(o)
      BY <2>2, <2>3, <2>6, <2>10, FieldsOf DEF Derived
    <3>3. same[o[v].base][o[u].base]
      BY <2>2, <3>1, <3>2 DEF Fine, function_equals
    <3>4. DOMAIN p = 1 .. Len(p) /\ DOMAIN q = 1 .. Len(q) /\ Len(p) = Len(q)
      BY <2>2, <2>3, <3>1, FieldsOf DEF function_equals
    <3>5. \A i \in DOMAIN p : p[i] \in 1 .. Len(o) /\ p[i] < u /\ q[i] \in 1 .. Len(o)
      BY <2>2, <2>3, <3>4, FieldsOf
    <3>6. \A i \in DOMAIN q : same[q[i]][p[i]]
      BY <2>2, <3>1, <3>4, <3>5 DEF Fine, function_equals
    <3>7. function_equals(same, o[v], o[u])
      BY <3>3, <3>4, <3>6 DEF function_equals
    <3> QED
      BY <2>2, <2>3, <2>4, <2>5, <2>6, <2>10, <3>7 DEF EqualsAt
  <2> QED
    BY <2>7, <2>8, <2>9, <2>10
<1> QED
  BY <1>1

Loose == Details \ {"length"}

(* What the shapes have in them.                                           *)
LEMMA Seen ==
  /\ "sign" \in Details /\ "length" \in Details
  /\ "sign" \in Loose /\ "length" \notin Loose
BY DEF Details, Loose

(* Types that are equal have one shape, but for the lengths of arrays.     *)
LEMMA EqualAlike ==
  ASSUME NEW o, Founded(o)
  PROVE  \A t, s \in 1 .. Len(o) : fully_equals(o)[t][s] => Shape(o, Loose)[s] = Shape(o, Loose)[t]
<1> DEFINE same == fully_equals(o)
           sh == Shape(o, Loose)
           Fine(u) == \A v \in 1 .. Len(o) : same[u][v] => sh[v] = sh[u]
           T == {u \in 1 .. Len(o) : ~Fine(u)}
<1>1. ASSUME T # {} PROVE FALSE
  <2>0. T \in SUBSET Nat
    OBVIOUS
  <2>1. PICK u \in T : \A v \in T : u <= v
    <3> HIDE DEF T
    <3> QED
      BY <1>1, <2>0, LeastNatural
  <2>2. u \in 1 .. Len(o) /\ \A w \in 1 .. Len(o) : w < u => Fine(w)
    BY <2>1 DEF Founded
  <2>3. PICK v \in 1 .. Len(o) : same[u][v] /\ sh[v] # sh[u]
    BY <2>1
  <2> HIDE DEF same, sh, Fine, T
  <2>12. ShapeAt(o, Loose, sh, u) /\ ShapeAt(o, Loose, sh, v)
    BY <2>2, ShapeIs DEF sh
  <2>13. EqualsAt(o, same, u, v)
    BY <2>2, EqualsIs DEF same
  <2>4. u # v
    BY <2>3
  <2>5. o[u].id = o[v].id /\ o[u].id \notin {"void", "pointer"}
    BY <2>2, <2>3, <2>4, <2>13 DEF EqualsAt
  <2>6. o[u].id \in {"int", "float", "array", "function"}
    BY <2>2, <2>5, FieldsOf
  <2>7. CASE o[u].id = "int"
    <3>1. int_equals(o[u], o[v])
      BY <2>2, <2>3, <2>4, <2>5, <2>7, <2>13 DEF EqualsAt
    <3> QED
      BY <2>2, <2>3, <2>5, <2>7, <3>1, <2>12 DEF ShapeAt, Derived, int_equals
  <2>8. CASE o[u].id = "float"
    <3>1. float_equals(o[u], o[v])
      BY <2>2, <2>3, <2>4, <2>5, <2>8, <2>13 DEF EqualsAt
    <3>2. ~o[u].signed /\ ~o[u].const /\ ~o[v].signed /\ ~o[v].const
      BY <2>2, <2>3, <2>5, <2>8, FieldsOf
    <3>3. o[u] \in Fields /\ o[v] \in Fields
      BY <2>2, <2>3, FieldsOf
    <3>4. o[u].signed = o[v].signed /\ o[u].const = o[v].const
      BY <3>2, <3>3 DEF Fields
    <3> QED
      BY <2>2, <2>3, <2>5, <2>8, <3>1, <3>4, <2>12 DEF ShapeAt, Derived, float_equals
  <2>9. CASE o[u].id = "array"
    <3>1. same[o[u].base][o[v].base]
      BY <2>2, <2>3, <2>4, <2>5, <2>9, <2>13 DEF EqualsAt
    <3>2. o[u].base \in 1 .. Len(o) /\ o[u].base < u /\ o[v].base \in 1 .. Len(o)
      BY <2>2, <2>3, <2>5, <2>9, FieldsOf DEF Derived
    <3>3. sh[o[u].base] = sh[o[v].base]
      BY <2>2, <3>1, <3>2 DEF Fine
    <3>4. sh[u] = <<"array", sh[o[u].base], -1>> /\ sh[v] = <<"array", sh[o[v].base], -1>>
      BY <2>5, <2>9, <2>12, Seen DEF ShapeAt, ArrayShape
    <3> QED
      BY <2>3, <3>3, <3>4
  <2>10. CASE o[u].id = "function"
    <3> DEFINE p == o[u].params
               q == o[v].params
    <3>1. function_equals(same, o[u], o[v])
      BY <2>2, <2>3, <2>4, <2>5, <2>10, <2>13 DEF EqualsAt
    <3>2. o[u].base \in 1 .. Len(o) /\ o[u].base < u /\ o[v].base \in 1 .. Len(o)
      BY <2>2, <2>3, <2>5, <2>10, FieldsOf DEF Derived
    <3>3. sh[o[u].base] = sh[o[v].base]
      BY <2>2, <3>1, <3>2 DEF Fine, function_equals
    <3>4. DOMAIN p = DOMAIN q
      BY <2>2, <2>3, <3>1, FieldsOf DEF function_equals
    <3>5. \A i \in DOMAIN p : p[i] \in 1 .. Len(o) /\ p[i] < u /\ q[i] \in 1 .. Len(o)
      BY <2>2, <2>3, <3>4, FieldsOf
    <3>6. \A i \in DOMAIN p : sh[p[i]] = sh[q[i]]
      BY <2>2, <3>1, <3>5 DEF Fine, function_equals
    <3>7. [i \in DOMAIN p |-> sh[p[i]]] = [i \in DOMAIN q |-> sh[q[i]]]
      BY <3>4, <3>6
    <3> QED
      BY <2>2, <2>3, <2>5, <2>10, <3>3, <3>7, <2>12 DEF ShapeAt
  <2> QED
    BY <2>6, <2>7, <2>8, <2>9, <2>10
<1> QED
  BY <1>1

(* A type that is like one without lengths has none either.                *)
LEMMA RigidTwin ==
  ASSUME NEW o, Founded(o)
  PROVE  \A t, s \in 1 .. Len(o) :
           Shape(o, Loose)[s] = Shape(o, Details)[t] => Shape(o, Details)[s] = Shape(o, Details)[t]
<1> DEFINE sh == Shape(o, Details)
           lo == Shape(o, Loose)
           Fine(u) == \A v \in 1 .. Len(o) : lo[v] = sh[u] => sh[v] = sh[u]
           T == {u \in 1 .. Len(o) : ~Fine(u)}
<1>1. ASSUME T # {} PROVE FALSE
  <2>0. T \in SUBSET Nat
    OBVIOUS
  <2>1. PICK u \in T : \A v \in T : u <= v
    <3> HIDE DEF T
    <3> QED
      BY <1>1, <2>0, LeastNatural
  <2>2. u \in 1 .. Len(o) /\ \A w \in 1 .. Len(o) : w < u => Fine(w)
    BY <2>1 DEF Founded
  <2>3. PICK v \in 1 .. Len(o) : lo[v] = sh[u] /\ sh[v] # sh[u]
    BY <2>1
  <2> HIDE DEF sh, lo, Fine, T
  <2>4. ShapeAt(o, Details, sh, u) /\ ShapeAt(o, Details, sh, v) /\ ShapeAt(o, Loose, lo, v)
    BY <2>2, ShapeIs DEF sh, lo
  <2>5. o[u].id = o[v].id
    <3>1. ASSUME NEW w \in 1 .. Len(o), NEW seen, NEW f, ShapeAt(o, seen, f, w) PROVE f[w][1] = o[w].id
      <4>1. o[w].id \in {"void", "int", "float", "pointer", "array", "function"}
        BY FieldsOf
      <4>2. CASE o[w].id \in Derived
        BY <3>1, <4>2 DEF ShapeAt, ArrayShape, Derived
      <4>3. CASE o[w].id \notin Derived
        BY <3>1, <4>3 DEF ShapeAt
      <4> QED
        BY <4>2, <4>3
    <3>2. lo[v][1] = o[v].id /\ sh[u][1] = o[u].id
      BY <2>2, <2>4, <3>1
    <3> QED
      BY <2>3, <3>2
  <2>6. CASE o[u].id \notin {"array", "function"}
    <3>1. sh[v] = lo[v]
      BY <2>4, <2>5, <2>6, Seen, FieldsOf DEF ShapeAt, Derived
    <3> QED
      BY <2>3, <3>1
  <2>7. CASE o[u].id = "array"
    <3>1. sh[u] = <<"array", sh[o[u].base], o[u].len>> /\ lo[v] = <<"array", lo[o[v].base], -1>>
      BY <2>4, <2>5, <2>7, Seen DEF ShapeAt, ArrayShape
    <3>2. o[u].len = -1
      BY <2>3, <3>1
    <3>3. o[u].len \in Nat
      BY <2>2, FieldsOf DEF Fields, Spans
    <3> QED
      BY <3>2, <3>3
  <2>8. CASE o[u].id = "function"
    <3> DEFINE p == o[u].params
               q == o[v].params
    <3>1. /\ sh[u] = <<"function", sh[o[u].base], [i \in DOMAIN p |-> sh[p[i]]]>>
          /\ sh[v] = <<"function", sh[o[v].base], [i \in DOMAIN q |-> sh[q[i]]]>>
          /\ lo[v] = <<"function", lo[o[v].base], [i \in DOMAIN q |-> lo[q[i]]]>>
      BY <2>4, <2>5, <2>8 DEF ShapeAt
    <3>2. lo[o[v].base] = sh[o[u].base] /\ [i \in DOMAIN q |-> lo[q[i]]] = [i \in DOMAIN p |-> sh[p[i]]]
      BY <2>3, <3>1
    <3>3. o[u].base \in 1 .. Len(o) /\ o[u].base < u /\ o[v].base \in 1 .. Len(o)
      BY <2>2, <2>3, <2>5, <2>8, FieldsOf DEF Derived
    <3>4. sh[o[v].base] = sh[o[u].base]
      BY <2>2, <3>2, <3>3 DEF Fine
    <3>5. DOMAIN p = DOMAIN q
      <4>1. DOMAIN [i \in DOMAIN p |-> sh[p[i]]] = DOMAIN p /\ DOMAIN [i \in DOMAIN q |-> lo[q[i]]] = DOMAIN q
        OBVIOUS
      <4> QED
        BY <3>2, <4>1
    <3>6. \A i \in DOMAIN p : sh[q[i]] = sh[p[i]]
      <4> SUFFICES ASSUME NEW i \in DOMAIN p PROVE sh[q[i]] = sh[p[i]]
        OBVIOUS
      <4>1. [j \in DOMAIN q |-> lo[q[j]]][i] = lo[q[i]] /\ [j \in DOMAIN p |-> sh[p[j]]][i] = sh[p[i]]
        BY <3>5
      <4>2. p[i] \in 1 .. Len(o) /\ p[i] < u /\ q[i] \in 1 .. Len(o)
        BY <2>2, <2>3, <3>5, FieldsOf
      <4> QED
        BY <2>2, <3>2, <4>1, <4>2 DEF Fine
    <3>7. [i \in DOMAIN q |-> sh[q[i]]] = [i \in DOMAIN p |-> sh[p[i]]]
      BY <3>5, <3>6
    <3> QED
      BY <2>3, <3>1, <3>4, <3>7
  <2> QED
    BY <2>6, <2>7, <2>8
<1> QED
  BY <1>1

(* Types of one shape have one hash.                                       *)
LEMMA SameHash ==
  ASSUME NEW o, Founded(o)
  PROVE  \A t, s \in 1 .. Len(o) :
           Shape(o, Details)[s] = Shape(o, Details)[t] => hash(o)[s] = hash(o)[t]
<1> DEFINE h == hash(o)
           sh == Shape(o, Details)
           Fine(u) == \A v \in 1 .. Len(o) : sh[v] = sh[u] => h[v] = h[u]
           T == {u \in 1 .. Len(o) : ~Fine(u)}
<1>1. ASSUME T # {} PROVE FALSE
  <2>0. T \in SUBSET Nat
    OBVIOUS
  <2>1. PICK u \in T : \A v \in T : u <= v
    <3> HIDE DEF T
    <3> QED
      BY <1>1, <2>0, LeastNatural
  <2>2. u \in 1 .. Len(o) /\ \A w \in 1 .. Len(o) : w < u => Fine(w)
    BY <2>1 DEF Founded
  <2>3. PICK v \in 1 .. Len(o) : sh[v] = sh[u] /\ h[v] # h[u]
    BY <2>1
  <2>4. o[u].id = o[v].id
    BY <2>2, <2>3, Kinds
  <2> HIDE DEF h, sh, Fine, T
  <2>5. HashAt(o, h, u) /\ HashAt(o, h, v)
    BY <2>2, HashIs DEF h
  <2>6. ShapeAt(o, Details, sh, u) /\ ShapeAt(o, Details, sh, v)
    BY <2>2, ShapeIs DEF sh
  <2>7. CASE o[u].id = "pointer"
    <3>1. /\ sh[u] = <<"pointer", u, o[u].base, o[u].const>>
          /\ sh[v] = <<"pointer", v, o[v].base, o[v].const>>
      BY <2>4, <2>6, <2>7 DEF ShapeAt
    <3>2. u = v
      BY <2>3, <3>1
    <3> QED
      BY <2>3, <3>2
  <2>8. CASE o[u].id = "array"
    <3>1. sh[u] = <<"array", sh[o[u].base], o[u].len>> /\ sh[v] = <<"array", sh[o[v].base], o[v].len>>
      BY <2>4, <2>6, <2>8, Seen DEF ShapeAt, ArrayShape
    <3>2. sh[o[v].base] = sh[o[u].base] /\ o[u].len = o[v].len
      BY <2>3, <3>1
    <3>3. o[u].base \in 1 .. Len(o) /\ o[u].base < u /\ o[v].base \in 1 .. Len(o)
      BY <2>2, <2>3, <2>4, <2>8, FieldsOf DEF Derived
    <3>4. h[o[v].base] = h[o[u].base]
      BY <2>2, <3>2, <3>3 DEF Fine
    <3> QED
      BY <2>3, <2>4, <2>5, <2>8, <3>2, <3>4 DEF HashAt
  <2>9. CASE o[u].id = "function"
    <3> DEFINE p == o[u].params
               q == o[v].params
    <3>1. /\ sh[u] = <<"function", sh[o[u].base], [i \in DOMAIN p |-> sh[p[i]]]>>
          /\ sh[v] = <<"function", sh[o[v].base], [i \in DOMAIN q |-> sh[q[i]]]>>
      BY <2>4, <2>6, <2>9 DEF ShapeAt
    <3>2. /\ sh[o[v].base] = sh[o[u].base]
          /\ [i \in DOMAIN q |-> sh[q[i]]] = [i \in DOMAIN p |-> sh[p[i]]]
      BY <2>3, <3>1
    <3>3. o[u].base \in 1 .. Len(o) /\ o[u].base < u /\ o[v].base \in 1 .. Len(o)
      BY <2>2, <2>3, <2>4, <2>9, FieldsOf DEF Derived
    <3>4. h[o[v].base] = h[o[u].base]
      BY <2>2, <3>2, <3>3 DEF Fine
    <3>5. DOMAIN p = DOMAIN q
      <4>1. DOMAIN [i \in DOMAIN p |-> sh[p[i]]] = DOMAIN p /\ DOMAIN [i \in DOMAIN q |-> sh[q[i]]] = DOMAIN q
        OBVIOUS
      <4> QED
        BY <3>2, <4>1
    <3>6. \A i \in DOMAIN p : h[q[i]] = h[p[i]]
      <4> SUFFICES ASSUME NEW i \in DOMAIN p PROVE h[q[i]] = h[p[i]]
        OBVIOUS
      <4>1. [j \in DOMAIN q |-> sh[q[j]]][i] = sh[q[i]] /\ [j \in DOMAIN p |-> sh[p[j]]][i] = sh[p[i]]
        BY <3>5
      <4>2. p[i] \in 1 .. Len(o) /\ p[i] < u /\ q[i] \in 1 .. Len(o)
        BY <2>2, <2>3, <3>5, FieldsOf
      <4> QED
        BY <2>2, <3>2, <4>1, <4>2 DEF Fine
    <3>7. [i \in DOMAIN q |-> h[q[i]]] = [i \in DOMAIN p |-> h[p[i]]]
      BY <3>5, <3>6
    <3>8. /\ h[u] = function_hash(h[o[u].base], [i \in DOMAIN p |-> h[p[i]]])
          /\ h[v] = function_hash(h[o[v].base], [i \in DOMAIN q |-> h[q[i]]])
      BY <2>4, <2>5, <2>9 DEF HashAt
    <3> QED
      BY <2>3, <3>4, <3>7, <3>8
  <2>10. CASE o[u].id \notin Derived
    <3>1. /\ sh[u] = <<o[u].id, o[u].bits, "sign" \in Details /\ o[u].signed, o[u].const>>
          /\ sh[v] = <<o[v].id, o[v].bits, "sign" \in Details /\ o[v].signed, o[v].const>>
      BY <2>4, <2>6, <2>10 DEF ShapeAt
    <3>2. o[u].bits = o[v].bits
      BY <2>3, <3>1
    <3>3. h[u] = value_hash(o[u]) /\ h[v] = value_hash(o[v])
      BY <2>4, <2>5, <2>10 DEF HashAt
    <3>4. value_hash(o[u]) = value_hash(o[v])
      BY <2>4, <3>2 DEF value_hash
    <3> QED
      BY <2>3, <3>3, <3>4
  <2> QED
    BY <2>7, <2>8, <2>9, <2>10 DEF Derived
<1> QED
  BY <1>1

(* A combination of hashes is a hash.                                      *)
LEMMA CombinedInt ==
  ASSUME NEW a \in Int, NEW b \in Int
  PROVE  hash_combine(a, b) \in Int
<1> DEFINE x == a - 2 * b - 2
<1>1. x \in Int /\ HashSize \in Nat /\ HashSize > 0
  BY ConstantsAssumption
<1> HIDE DEF x
<1>2. x % HashSize \in Int
  BY <1>1
<1> QED
  BY <1>2 DEF hash_combine, x

(* The loop over the parameters ends in a hash.                            *)
LEMMA FunctionHashInt ==
  ASSUME NEW r \in Int, NEW ps \in Seq(Int)
  PROVE  function_hash(r, ps) \in Int
<1> DEFINE Fits(f, n) == f = [x \in 0 .. n |-> IF x = 0 THEN hash_combine(7, r)
                                               ELSE hash_combine(f[x - 1], ps[x])]
           k == Len(ps)
           T == {m \in Nat : ~\E f : Fits(f, m)}
<1>0. k \in Nat /\ \A i \in 1 .. k : ps[i] \in Int
  OBVIOUS
<1>1. ASSUME T # {} PROVE FALSE
  <2>1. T \in SUBSET Nat
    OBVIOUS
  <2>2. PICK m \in T : \A j \in T : m <= j
    <3> HIDE DEF T
    <3> QED
      BY <1>1, <2>1, LeastNatural
  <2>3. m # 0
    <3>1. Fits([x \in 0 .. 0 |-> hash_combine(7, r)], 0)
      OBVIOUS
    <3> QED
      BY <2>2, <3>1
  <2>4. m \in Nat /\ m - 1 \in Nat /\ m - 1 \notin T
    <3> HIDE DEF T
    <3>1. m \in Nat /\ m - 1 \in Nat
      BY <2>1, <2>2, <2>3
    <3> QED
      BY <2>2, <3>1
  <2>5. PICK f : Fits(f, m - 1)
    BY <2>4
  <2> DEFINE g == [x \in 0 .. m |-> IF x = 0 THEN hash_combine(7, r) ELSE hash_combine(f[x - 1], ps[x])]
  <2>6. \A x \in 0 .. m - 1 : g[x] = f[x]
    BY <2>4, <2>5
  <2>7. \A x \in 0 .. m : x # 0 => x - 1 \in 0 .. m - 1
    BY <2>4
  <2>8. Fits(g, m)
    BY <2>6, <2>7
  <2> QED
    BY <2>2, <2>8
<1> DEFINE R == CHOOSE f : Fits(f, k)
<1>2. Fits(R, k)
  <2>1. \E f : Fits(f, k)
    <3> HIDE DEF Fits
    <3> QED
      BY <1>0, <1>1
  <2> HIDE DEF Fits, k
  <2> QED
    BY <2>1, Zenon
<1>3. function_hash(r, ps) = R[k]
  BY Zenon DEF function_hash
<1> HIDE DEF R
<1>4. \A x \in 0 .. k : R[x] = IF x = 0 THEN hash_combine(7, r) ELSE hash_combine(R[x - 1], ps[x])
  BY <1>2
<1> HIDE DEF Fits
<1> DEFINE S == {x \in 0 .. k : R[x] \notin Int}
<1>5. ASSUME S # {} PROVE FALSE
  <2>1. S \in SUBSET Nat
    BY <1>0
  <2>2. PICK x \in S : \A j \in S : x <= j
    <3> HIDE DEF S
    <3> QED
      BY <1>5, <2>1, LeastNatural
  <2>3. x \in 0 .. k /\ R[x] \notin Int
    BY <2>2
  <2>4. x # 0
    <3>1. hash_combine(7, r) \in Int
      BY CombinedInt
    <3> QED
      BY <1>4, <2>3, <3>1
  <2>5. x - 1 \in 0 .. k /\ x \in 1 .. k /\ ~(x <= x - 1)
    BY <1>0, <2>3, <2>4
  <2>6. R[x - 1] \in Int
    BY <2>2, <2>5
  <2>7. hash_combine(R[x - 1], ps[x]) \in Int
    BY <1>0, <2>5, <2>6, CombinedInt
  <2> QED
    BY <1>4, <2>3, <2>4, <2>7
<1>6. k \in 0 .. k
  BY <1>0
<1> QED
  BY <1>3, <1>5, <1>6

(* Hashes are numbers.                                                     *)
LEMMA HashInt ==
  ASSUME NEW o, Founded(o)
  PROVE  \A t \in 1 .. Len(o) : hash(o)[t] \in Int
<1> DEFINE h == hash(o)
           T == {t \in 1 .. Len(o) : h[t] \notin Int}
<1>1. ASSUME T # {} PROVE FALSE
  <2>0. T \in SUBSET Nat
    OBVIOUS
  <2>1. PICK u \in T : \A v \in T : u <= v
    <3> HIDE DEF T
    <3> QED
      BY <1>1, <2>0, LeastNatural
  <2>2. u \in 1 .. Len(o) /\ h[u] \notin Int /\ \A w \in 1 .. Len(o) : w < u => h[w] \in Int
    BY <2>1 DEF Founded
  <2>3. HashAt(o, h, u)
    BY <2>2, HashIs
  <2> HIDE DEF h, T
  <2>4. o[u] \in Fields /\ o[u].id \in Derived => h[o[u].base] \in Int
    BY <2>2, FieldsOf
  <2>5. o[u] \in Fields /\ o[u].id \in {"void", "int", "float", "pointer", "array", "function"}
    BY <2>2, FieldsOf
  <2>6. CASE o[u].id = "array"
    <3>1. o[u].len \in Int /\ h[o[u].base] \in Int
      BY <2>4, <2>5, <2>6 DEF Fields, Spans, Derived
    <3>2. hash_combine(6, o[u].len) \in Int
      <4>1. PICK k \in Int : k = 6
        OBVIOUS
      <4>2. hash_combine(k, o[u].len) \in Int
        BY <3>1, CombinedInt
      <4> QED
        BY <4>1, <4>2
    <3>3. array_hash(h[o[u].base], o[u].len) \in Int
      BY <3>1, <3>2, CombinedInt DEF array_hash
    <3> QED
      BY <2>2, <2>3, <2>6, <3>3 DEF HashAt
  <2>7. CASE o[u].id = "pointer"
    <3>1. h[o[u].base] \in Int
      BY <2>4, <2>5, <2>7 DEF Derived
    <3>2. PICK k \in Int : k = IF o[u].const THEN 1 ELSE 0
      OBVIOUS
    <3>3. hash_combine(h[o[u].base], k) \in Int
      BY <3>1, CombinedInt
    <3>4. pointer_hash(h[o[u].base], o[u].const) \in Int
      BY <3>2, <3>3, CombinedInt DEF pointer_hash
    <3> QED
      BY <2>2, <2>3, <2>7, <3>4 DEF HashAt
  <2>8. CASE o[u].id = "function"
    <3> DEFINE p == o[u].params
               ps == [i \in DOMAIN p |-> h[p[i]]]
    <3>1. h[o[u].base] \in Int
      BY <2>4, <2>5, <2>8 DEF Derived
    <3>2. p \in Seq(Nat) /\ DOMAIN p = 1 .. Len(p) /\ Len(p) \in Nat
      BY <2>2, FieldsOf
    <3>3. \A i \in 1 .. Len(p) : h[p[i]] \in Int
      BY <2>2, <3>2, FieldsOf
    <3> HIDE DEF p
    <3>4. ps \in [1 .. Len(p) -> Int]
      BY <3>2, <3>3
    <3>5. ps \in Seq(Int)
      <4> HIDE DEF ps
      <4> QED
        BY <3>2, <3>4, SeqDef
    <3> HIDE DEF ps
    <3>6. function_hash(h[o[u].base], ps) \in Int
      BY <3>1, <3>5, FunctionHashInt
    <3>7. h[u] = function_hash(h[o[u].base], ps)
      BY <2>3, <2>8 DEF HashAt, ps, p
    <3> QED
      BY <2>2, <3>6, <3>7
  <2>9. CASE o[u].id \notin Derived
    <3>1. h[u] = value_hash(o[u])
      BY <2>3, <2>9 DEF HashAt
    <3>2. o[u].bits \in Nat
      BY <2>5 DEF Fields
    <3>3. value_hash(o[u]) \in Int
      BY <3>2 DEF value_hash
    <3> QED
      BY <2>2, <3>1, <3>3
  <2> QED
    BY <2>6, <2>7, <2>8, <2>9 DEF Derived
<1> QED
  BY <1>1

(* Two numbers with one remainder are a multiple apart.                    *)
LEMMA SameRest ==
  ASSUME NEW x \in Int, NEW y \in Int, NEW n \in Nat \ {0}, x % n = y % n
  PROVE  \E k \in Int : x - y = k * n
<1> DEFINE a == x \div n
           b == y \div n
           r == x % n
           q == y % n
<1>1. a \in Int /\ r \in Int /\ x = n * a + r
  OBVIOUS
<1>2. b \in Int /\ q \in Int /\ y = n * b + q
  OBVIOUS
<1>3. r = q
  OBVIOUS
<1> HIDE DEF a, b, r, q
<1>4. x - y = (a - b) * n /\ a - b \in Int
  <2>1. x - y = n * a - n * b
    BY <1>1, <1>2, <1>3
  <2> QED
    BY <1>1, <1>2, <2>1
<1> QED
  BY <1>4

(* A remainder is a multiple away from its number.                         *)
LEMMA RestOf ==
  ASSUME NEW x \in Int, NEW n \in Nat \ {0}
  PROVE  x % n \in Int /\ \E k \in Int : x % n = x - k * n
<1> DEFINE a == x \div n
           r == x % n
<1>1. a \in Int /\ r \in Int /\ x = n * a + r
  OBVIOUS
<1> HIDE DEF a, r
<1>2. r = x - a * n
  BY <1>1
<1> QED
  BY <1>1, <1>2 DEF r

(* The hashes of two arrays of elements of one hash tell their lengths     *)
(* apart: they are four times as far apart as the lengths.                 *)
LEMMA LengthTold ==
  ASSUME NEW h \in Int, NEW n \in Spans, NEW m \in Spans, array_hash(h, n) = array_hash(h, m)
  PROVE  n = m
<1> DEFINE H == HashSize
<1>1. H \in Nat \ {0} /\ n \in Nat /\ m \in Nat /\ 4 * n < H /\ 4 * m < H
  BY ConstantsAssumption DEF Spans
<1> DEFINE x == (6 - 2 * n - 2) % H
           y == (6 - 2 * m - 2) % H
<1>2. (h - 2 * x - 2) % H = (h - 2 * y - 2) % H
  BY DEF array_hash, hash_combine
<1>3. x \in Int /\ \E a \in Int : x = 4 - 2 * n - a * H
  <2>1. 6 - 2 * n - 2 \in Int /\ 6 - 2 * n - 2 = 4 - 2 * n
    BY <1>1
  <2> QED
    BY <1>1, <2>1, RestOf
<1>4. y \in Int /\ \E b \in Int : y = 4 - 2 * m - b * H
  <2>1. 6 - 2 * m - 2 \in Int /\ 6 - 2 * m - 2 = 4 - 2 * m
    BY <1>1
  <2> QED
    BY <1>1, <2>1, RestOf
<1> HIDE DEF x, y, H
<1>5. PICK a \in Int : x = 4 - 2 * n - a * H
  BY <1>3
<1>6. PICK b \in Int : y = 4 - 2 * m - b * H
  BY <1>4
<1>7. PICK k \in Int : (h - 2 * x - 2) - (h - 2 * y - 2) = k * H
  <2>1. h - 2 * x - 2 \in Int /\ h - 2 * y - 2 \in Int
    BY <1>3, <1>4
  <2> QED
    BY <1>1, <1>2, <2>1, SameRest
<1>8. 4 * n - 4 * m = (k - 2 * a + 2 * b) * H
  <2>1. 2 * y - 2 * x = k * H
    BY <1>3, <1>4, <1>7
  <2>2. 2 * y - 2 * x = 4 * n - 4 * m + 2 * (a * H) - 2 * (b * H)
    <3> DEFINE aH == a * H
               bH == b * H
    <3>1. aH \in Int /\ bH \in Int
      BY <1>1
    <3> HIDE DEF aH, bH
    <3>2. x = 4 - 2 * n - aH /\ y = 4 - 2 * m - bH
      BY <1>5, <1>6 DEF aH, bH
    <3>3. 2 * y - 2 * x = 4 * n - 4 * m + 2 * aH - 2 * bH
      BY <1>1, <3>1, <3>2
    <3> QED
      BY <3>3 DEF aH, bH
  <2>3. (k - 2 * a + 2 * b) * H = k * H - 2 * (a * H) + 2 * (b * H)
    BY <1>1
  <2> QED
    BY <1>1, <2>1, <2>2, <2>3
<1>9. PICK j \in Int : j = k - 2 * a + 2 * b
  OBVIOUS
<1>10. 4 * n - 4 * m = j * H /\ -H < 4 * n - 4 * m /\ 4 * n - 4 * m < H
  BY <1>1, <1>8, <1>9
<1>11. j = 0
  <2>1. CASE j >= 1
    <3>1. j * H >= H
      BY <1>1, <2>1
    <3> QED
      BY <1>1, <1>10, <3>1
  <2>2. CASE j <= -1
    <3>1. j * H <= -H
      BY <1>1, <2>2
    <3> QED
      BY <1>1, <1>10, <3>1
  <2> QED
    BY <2>1, <2>2
<1> QED
  BY <1>1, <1>10, <1>11

Flat(o, t) == Shape(o, Details)[t] = Shape(o, Loose)[t]

(* When a request is sure of what it sees of its answer: it does not look  *)
(* at lengths, or there is none but the outermost.                         *)
Sure(o, seen, t) ==
  \/ seen = Loose
  \/ seen = Details /\ (Flat(o, t) \/ (o[t].id = "array" /\ Flat(o, o[t].base)))

(* Types with one hash that are equal have one shape, as far as that.      *)
LEMMA TwinsAlike ==
  ASSUME NEW o, Founded(o), NEW t \in 1 .. Len(o), NEW s \in 1 .. Len(o), NEW seen, Sure(o, seen, t),
         hash(o)[s] = hash(o)[t], fully_equals(o)[t][s]
  PROVE  Shape(o, seen)[s] = Shape(o, seen)[t]
<1>1. Shape(o, Loose)[s] = Shape(o, Loose)[t]
  BY EqualAlike
<1>2. CASE seen = Loose
  BY <1>1, <1>2
<1>3. CASE seen = Details /\ Flat(o, t)
  <2>1. Shape(o, Loose)[s] = Shape(o, Details)[t]
    BY <1>1, <1>3 DEF Flat
  <2> QED
    BY <1>3, <2>1, RigidTwin
<1>4. CASE seen = Details /\ o[t].id = "array" /\ Flat(o, o[t].base)
  <2> DEFINE a == o[t].base
             b == o[s].base
             h == hash(o)
             sh == Shape(o, Details)
             lo == Shape(o, Loose)
  <2>1. o[s].id = "array"
    BY <1>1, <1>4, Kinds
  <2>2. a \in 1 .. Len(o) /\ b \in 1 .. Len(o) /\ o[s].len \in Spans /\ o[t].len \in Spans
    BY <1>4, <2>1, FieldsOf DEF Derived, Fields
  <2>3. ShapeAt(o, Details, sh, s) /\ ShapeAt(o, Details, sh, t)
        /\ ShapeAt(o, Loose, lo, s) /\ ShapeAt(o, Loose, lo, t) /\ HashAt(o, h, s) /\ HashAt(o, h, t)
    BY ShapeIs, HashIs
  <2>4. h[a] \in Int
    BY <2>2, HashInt
  <2> HIDE DEF sh, lo, h, a, b
  <2>5. lo[s] = <<"array", lo[b], -1>> /\ lo[t] = <<"array", lo[a], -1>>
    BY <1>4, <2>1, <2>3, Seen DEF ShapeAt, ArrayShape, a, b
  <2>6. lo[b] = lo[a] /\ lo[a] = sh[a]
    <3>1. lo[s] = lo[t]
      BY <1>1 DEF lo
    <3>2. lo[a] = sh[a]
      BY <1>4 DEF lo, sh, Flat, a
    <3> QED
      BY <2>5, <3>1, <3>2
  <2>7. sh[b] = sh[a]
    BY <2>2, <2>6, RigidTwin DEF sh, lo
  <2>8. h[b] = h[a]
    BY <2>2, <2>7, SameHash DEF sh, h
  <2>9. array_hash(h[a], o[s].len) = array_hash(h[a], o[t].len)
    BY <1>4, <2>1, <2>3, <2>8 DEF HashAt, a, b, h
  <2>10. o[s].len = o[t].len
    BY <2>2, <2>4, <2>9, LengthTold
  <2>11. sh[s] = ArrayShape(Details, sh[b], o[s].len) /\ sh[t] = ArrayShape(Details, sh[a], o[t].len)
    BY <1>4, <2>1, <2>3 DEF ShapeAt, a, b
  <2>12. sh[s] = sh[t]
    BY <2>7, <2>10, <2>11
  <2> QED
    BY <1>4, <2>12 DEF sh
<1> QED
  BY <1>2, <1>3, <1>4 DEF Sure

(* Types that are alike are equal, if they are not made from void.         *)
LEMMA AlikeTwins ==
  ASSUME NEW o, Founded(o)
  PROVE  \A t, s \in 1 .. Len(o) :
           Shape(o, Details)[s] = Shape(o, Details)[t] /\ Solid(o)[t] =>
             fully_equals(o)[t][s] /\ Solid(o)[s]
<1> DEFINE same == fully_equals(o)
           sh == Shape(o, Details)
           solid == Solid(o)
           Fine(u) == \A v \in 1 .. Len(o) : sh[v] = sh[u] /\ solid[u] =>
                        same[u][v] /\ solid[v]
           T == {u \in 1 .. Len(o) : ~Fine(u)}
<1>1. ASSUME T # {} PROVE FALSE
  <2>0. T \in SUBSET Nat
    OBVIOUS
  <2>1. PICK u \in T : \A v \in T : u <= v
    <3> HIDE DEF T
    <3> QED
      BY <1>1, <2>0, LeastNatural
  <2>2. u \in 1 .. Len(o) /\ \A w \in 1 .. Len(o) : w < u => Fine(w)
    BY <2>1 DEF Founded
  <2>3. PICK v \in 1 .. Len(o) : sh[v] = sh[u] /\ solid[u] /\ ~(same[u][v] /\ solid[v])
    BY <2>1
  <2> HIDE DEF same, sh, solid, Fine, T
  <2>12. ShapeAt(o, Details, sh, u) /\ ShapeAt(o, Details, sh, v)
    BY <2>2, ShapeIs DEF sh
  <2>13. EqualsAt(o, same, u, v) /\ EqualsAt(o, same, u, u)
    BY <2>2, EqualsIs DEF same
  <2>14. SolidAt(o, solid, u) /\ SolidAt(o, solid, v)
    BY <2>2, SolidIs DEF solid
  <2>4. o[u].id = o[v].id
    BY <2>2, <2>3, Kinds DEF sh
  <2>5. o[u].id \in {"void", "int", "float", "pointer", "array", "function"} /\ o[u].id # "void"
    BY <2>2, <2>3, FieldsOf, <2>14 DEF SolidAt
  <2>6. CASE o[u].id = "pointer"
    <3>1. u = v
      <4>1. /\ sh[u] = <<"pointer", u, o[u].base, o[u].const>>
            /\ sh[v] = <<"pointer", v, o[v].base, o[v].const>>
        BY <2>2, <2>4, <2>6, <2>12 DEF ShapeAt
      <4> QED
        BY <2>3, <4>1
    <3>2. o[u].base \in 1 .. Len(o) /\ o[u].base < u /\ solid[o[u].base]
      BY <2>2, <2>3, <2>6, FieldsOf, <2>14 DEF SolidAt, Derived
    <3>3. same[o[u].base][o[u].base]
      BY <2>2, <3>2 DEF Fine
    <3> QED
      BY <2>2, <2>3, <2>6, <3>1, <3>3, <2>13 DEF EqualsAt
  <2>7. CASE o[u].id \in {"int", "float"}
    <3>1. o[u].bits = o[v].bits /\ o[u].signed = o[v].signed /\ o[u].const = o[v].const
      <4>1. /\ sh[u] = <<o[u].id, o[u].bits, "sign" \in Details /\ o[u].signed, o[u].const>>
            /\ sh[v] = <<o[v].id, o[v].bits, "sign" \in Details /\ o[v].signed, o[v].const>>
        BY <2>2, <2>4, <2>7, <2>12 DEF ShapeAt, Derived
      <4>2. "sign" \in Details /\ o[u] \in Fields /\ o[v] \in Fields
        BY <2>2, <2>3, FieldsOf DEF Details
      <4>3. ("sign" \in Details /\ o[u].signed) = o[u].signed /\ ("sign" \in Details /\ o[v].signed) = o[v].signed
        BY <4>2 DEF Fields
      <4> QED
        BY <2>3, <4>1, <4>3
    <3>3. same[u][v]
      <4>1. CASE u = v
        BY <2>2, <2>7, <4>1, <2>13 DEF EqualsAt
      <4>2. CASE u # v /\ o[u].id = "int"
        BY <2>2, <2>4, <3>1, <4>2, <2>13 DEF EqualsAt, int_equals
      <4>3. CASE u # v /\ o[u].id = "float"
        BY <2>2, <2>4, <3>1, <4>3, <2>13 DEF EqualsAt, float_equals
      <4> QED
        BY <2>7, <4>1, <4>2, <4>3
    <3>4. solid[v]
      <4>1. DOMAIN o[v].params = {}
        <5>1. o[v].params = << >>
          BY <2>4, <2>7, FieldsOf
        <5> QED
          BY <5>1
      <4> QED
        BY <2>4, <2>5, <2>7, <4>1, <2>14 DEF SolidAt, Derived
    <3> QED
      BY <2>3, <3>3, <3>4
  <2>8. CASE o[u].id = "array"
    <3>1. sh[o[u].base] = sh[o[v].base]
      <4>1. /\ sh[u] = ArrayShape(Details, sh[o[u].base], o[u].len)
            /\ sh[v] = ArrayShape(Details, sh[o[v].base], o[v].len)
        BY <2>2, <2>4, <2>8, <2>12 DEF ShapeAt
      <4> QED
        BY <2>3, <4>1 DEF ArrayShape
    <3>2. /\ o[u].base \in 1 .. Len(o) /\ o[u].base < u /\ solid[o[u].base]
          /\ o[v].base \in 1 .. Len(o)
      BY <2>2, <2>3, <2>4, <2>8, FieldsOf, <2>14 DEF SolidAt, Derived
    <3>3. same[o[u].base][o[v].base] /\ solid[o[v].base]
      BY <2>2, <3>1, <3>2 DEF Fine
    <3>5. same[u][v]
      BY <2>2, <2>4, <2>8, <3>3, <2>13 DEF EqualsAt
    <3>6. solid[v]
      <4>1. DOMAIN o[v].params = {}
        <5>1. o[v].params = << >>
          BY <2>4, <2>8, FieldsOf
        <5> QED
          BY <5>1
      <4> QED
        BY <2>4, <2>5, <2>8, <3>3, <4>1, <2>14 DEF SolidAt
    <3> QED
      BY <2>3, <3>5, <3>6
  <2>9. CASE o[u].id = "function"
    <3> DEFINE p == o[u].params
               q == o[v].params
    <3>1. /\ sh[o[u].base] = sh[o[v].base]
          /\ [i \in DOMAIN p |-> sh[p[i]]] = [i \in DOMAIN q |-> sh[q[i]]]
      <4>1. /\ sh[u] = <<"function", sh[o[u].base], [i \in DOMAIN p |-> sh[p[i]]]>>
            /\ sh[v] = <<"function", sh[o[v].base], [i \in DOMAIN q |-> sh[q[i]]]>>
        BY <2>2, <2>4, <2>9, <2>12 DEF ShapeAt
      <4> QED
        BY <2>3, <4>1
    <3>2. /\ o[u].base \in 1 .. Len(o) /\ o[u].base < u /\ solid[o[u].base]
          /\ o[v].base \in 1 .. Len(o)
      BY <2>2, <2>3, <2>4, <2>9, FieldsOf, <2>14 DEF SolidAt, Derived
    <3>3. same[o[u].base][o[v].base] /\ solid[o[v].base]
      BY <2>2, <3>1, <3>2 DEF Fine
    <3>4. DOMAIN p = DOMAIN q /\ Len(p) = Len(q)
      <4>1. DOMAIN [i \in DOMAIN p |-> sh[p[i]]] = DOMAIN p /\ DOMAIN [i \in DOMAIN q |-> sh[q[i]]] = DOMAIN q
        OBVIOUS
      <4>2. DOMAIN p = DOMAIN q
        BY <3>1, <4>1
      <4>3. p \in Seq(Nat) /\ q \in Seq(Nat)
        BY <2>2, FieldsOf
      <4> QED
        BY <4>2, <4>3
    <3>5. \A i \in DOMAIN p : same[p[i]][q[i]] /\ solid[q[i]]
      <4> SUFFICES ASSUME NEW i \in DOMAIN p
                   PROVE  same[p[i]][q[i]] /\ solid[q[i]]
        OBVIOUS
      <4>1. [j \in DOMAIN p |-> sh[p[j]]][i] = sh[p[i]] /\ [j \in DOMAIN q |-> sh[q[j]]][i] = sh[q[i]]
        BY <3>4
      <4>2. p[i] \in 1 .. Len(o) /\ p[i] < u /\ q[i] \in 1 .. Len(o) /\ solid[p[i]]
        BY <2>2, <2>3, <3>4, FieldsOf, <2>14 DEF SolidAt
      <4> QED
        BY <2>2, <3>1, <4>1, <4>2 DEF Fine
    <3>7. same[u][v]
      <4>1. function_equals(same, o[u], o[v])
        BY <3>3, <3>4, <3>5 DEF function_equals
      <4> QED
        BY <2>2, <2>4, <2>9, <4>1, <2>13 DEF EqualsAt
    <3>8. solid[v]
      BY <2>4, <2>5, <3>3, <3>4, <3>5, <2>14 DEF SolidAt
    <3> QED
      BY <2>3, <3>7, <3>8
  <2> QED
    BY <2>5, <2>6, <2>7, <2>8, <2>9
<1> QED
  BY <1>1

-----------------------------------------------------------------------------
(* Objects are added, and get their context; nothing else about them       *)
(* changes, so that the old ones remain the types they were.               *)
SameType(a, b) ==
  /\ a.id = b.id /\ a.base = b.base /\ a.bits = b.bits /\ a.signed = b.signed
  /\ a.const = b.const /\ a.len = b.len /\ a.params = b.params

Grown(o, p) ==
  /\ Founded(o) /\ Founded(p) /\ Len(o) <= Len(p)
  /\ \A t \in 1 .. Len(o) : SameType(p[t], o[t])

(* The old types keep their shapes, and stay solid or not.                 *)
LEMMA OldShapes ==
  ASSUME NEW seen, NEW o, NEW p, Grown(o, p)
  PROVE  \A t \in 1 .. Len(o) : Shape(p, seen)[t] = Shape(o, seen)[t] /\ (Solid(p)[t] <=> Solid(o)[t])
<1> DEFINE sh == Shape(o, seen)
           psh == Shape(p, seen)
           solid == Solid(o)
           psolid == Solid(p)
           Fine(u) == psh[u] = sh[u] /\ (psolid[u] <=> solid[u])
           T == {u \in 1 .. Len(o) : ~Fine(u)}
<1>0. Founded(o) /\ Founded(p) /\ Len(o) \in Nat /\ Len(p) \in Nat /\ Len(o) <= Len(p)
  BY DEF Grown, Founded
<1>1. ASSUME T # {} PROVE FALSE
  <2>0. T \in SUBSET Nat
    OBVIOUS
  <2>1. PICK u \in T : \A v \in T : u <= v
    <3> HIDE DEF T
    <3> QED
      BY <1>1, <2>0, LeastNatural
  <2>2. /\ u \in 1 .. Len(o) /\ u \in 1 .. Len(p)
        /\ \A w \in 1 .. Len(o) : w < u => psh[w] = sh[w] /\ (psolid[w] <=> solid[w])
    BY <1>0, <2>1
  <2>3. ~Fine(u)
    BY <2>1
  <2>4. ShapeAt(o, seen, sh, u) /\ ShapeAt(p, seen, psh, u)
    BY <1>0, <2>2, ShapeIs
  <2>5. SolidAt(o, solid, u) /\ SolidAt(p, psolid, u)
    BY <1>0, <2>2, SolidIs
  <2> HIDE DEF sh, psh, solid, psolid, T
  <2>6. SameType(p[u], o[u])
    BY <2>2 DEF Grown
  <2>7. /\ o[u].id \in Derived => o[u].base \in 1 .. Len(o) /\ o[u].base < u
        /\ \A i \in DOMAIN o[u].params : o[u].params[i] \in 1 .. Len(o) /\ o[u].params[i] < u
        /\ o[u].id \in {"void", "int", "float", "pointer", "array", "function"}
    BY <1>0, <2>2, FieldsOf
  <2>8. psolid[u] <=> solid[u]
    BY <2>2, <2>5, <2>6, <2>7 DEF SolidAt, SameType
  <2>9. CASE o[u].id = "array"
    <3>1. psh[o[u].base] = sh[o[u].base]
      BY <2>2, <2>7, <2>9 DEF Derived
    <3> QED
      BY <2>3, <2>4, <2>6, <2>8, <2>9, <3>1 DEF ShapeAt, SameType
  <2>10. CASE o[u].id = "function"
    <3>1. psh[o[u].base] = sh[o[u].base]
      BY <2>2, <2>7, <2>10 DEF Derived
    <3>2. [i \in DOMAIN o[u].params |-> psh[o[u].params[i]]] = [i \in DOMAIN o[u].params |-> sh[o[u].params[i]]]
      BY <2>2, <2>7
    <3> QED
      BY <2>3, <2>4, <2>6, <2>8, <2>10, <3>1, <3>2 DEF ShapeAt, SameType
  <2>11. CASE o[u].id \notin {"array", "function"}
    BY <2>3, <2>4, <2>6, <2>7, <2>8, <2>11 DEF ShapeAt, SameType, Derived
  <2> QED
    BY <2>9, <2>10, <2>11
<1> QED
  BY <1>1

(* And their hashes.                                                       *)
LEMMA OldHashes ==
  ASSUME NEW o, NEW p, Grown(o, p)
  PROVE  \A t \in 1 .. Len(o) : hash(p)[t] = hash(o)[t]
<1> DEFINE h == hash(o)
           ph == hash(p)
           T == {u \in 1 .. Len(o) : ph[u] # h[u]}
<1>0. Founded(o) /\ Founded(p) /\ Len(o) \in Nat /\ Len(p) \in Nat /\ Len(o) <= Len(p)
  BY DEF Grown, Founded
<1>1. ASSUME T # {} PROVE FALSE
  <2>0. T \in SUBSET Nat
    OBVIOUS
  <2>1. PICK u \in T : \A v \in T : u <= v
    <3> HIDE DEF T
    <3> QED
      BY <1>1, <2>0, LeastNatural
  <2>2. /\ u \in 1 .. Len(o) /\ u \in 1 .. Len(p) /\ ph[u] # h[u]
        /\ \A w \in 1 .. Len(o) : w < u => ph[w] = h[w]
    BY <1>0, <2>1
  <2>3. HashAt(o, h, u) /\ HashAt(p, ph, u)
    BY <1>0, <2>2, HashIs
  <2> HIDE DEF h, ph, T
  <2>4. SameType(p[u], o[u])
    BY <2>2 DEF Grown
  <2>5. /\ o[u].id \in Derived => ph[o[u].base] = h[o[u].base]
        /\ \A i \in DOMAIN o[u].params : ph[o[u].params[i]] = h[o[u].params[i]]
        /\ o[u].id \in {"void", "int", "float", "pointer", "array", "function"}
    BY <1>0, <2>2, FieldsOf
  <2>6. [i \in DOMAIN o[u].params |-> ph[o[u].params[i]]] = [i \in DOMAIN o[u].params |-> h[o[u].params[i]]]
    BY <2>5
  <2>7. CASE o[u].id \in Derived
    BY <2>2, <2>3, <2>4, <2>5, <2>6, <2>7 DEF HashAt, SameType, Derived
  <2>8. CASE o[u].id \notin Derived
    <3>1. value_hash(p[u]) = value_hash(o[u])
      BY <2>4 DEF value_hash, SameType
    <3> QED
      BY <2>2, <2>3, <2>4, <2>8, <3>1 DEF HashAt, SameType
  <2> QED
    BY <2>7, <2>8
<1> QED
  BY <1>1

(* And what they equal of each other.                                      *)
LEMMA OldEquals ==
  ASSUME NEW o, NEW p, Grown(o, p)
  PROVE  \A u, v \in 1 .. Len(o) : fully_equals(p)[u][v] <=> fully_equals(o)[u][v]
<1> DEFINE same == fully_equals(o)
           psame == fully_equals(p)
           Fine(u) == \A v \in 1 .. Len(o) : psame[u][v] <=> same[u][v]
           T == {u \in 1 .. Len(o) : ~Fine(u)}
<1>0. Founded(o) /\ Founded(p) /\ Len(o) \in Nat /\ Len(p) \in Nat /\ Len(o) <= Len(p)
  BY DEF Grown, Founded
<1>1. ASSUME T # {} PROVE FALSE
  <2>0. T \in SUBSET Nat
    OBVIOUS
  <2>1. PICK u \in T : \A v \in T : u <= v
    <3> HIDE DEF T
    <3> QED
      BY <1>1, <2>0, LeastNatural
  <2>2. u \in 1 .. Len(o) /\ u \in 1 .. Len(p) /\ \A w \in 1 .. Len(o) : w < u => Fine(w)
    BY <1>0, <2>1
  <2>3. PICK v \in 1 .. Len(o) : ~(psame[u][v] <=> same[u][v])
    BY <2>1
  <2>4. v \in 1 .. Len(p)
    BY <1>0
  <2>5. EqualsAt(o, same, u, v) /\ EqualsAt(p, psame, u, v)
    BY <1>0, <2>2, <2>4, EqualsIs
  <2> HIDE DEF same, psame, Fine, T
  <2>6. SameType(p[u], o[u]) /\ SameType(p[v], o[v])
    BY <2>2 DEF Grown
  <2>7. /\ o[u].id \in Derived => o[u].base \in 1 .. Len(o) /\ o[u].base < u
        /\ o[v].id \in Derived => o[v].base \in 1 .. Len(o)
        /\ o[u].id \in {"void", "int", "float", "pointer", "array", "function"}
    BY <1>0, <2>2, FieldsOf
  <2>8. CASE o[u].id = "void"
    BY <2>3, <2>5, <2>6, <2>8 DEF EqualsAt, SameType
  <2>9. CASE o[u].id # o[v].id
    BY <2>3, <2>5, <2>6, <2>9 DEF EqualsAt, SameType
  <2>10. CASE u = v /\ o[u].id \notin {"void", "pointer"}
    BY <2>3, <2>5, <2>6, <2>10 DEF EqualsAt, SameType
  <2>11. CASE o[u].id = "pointer"
    <3>1. psame[u][v] <=> u = v /\ psame[o[u].base][o[v].base]
      BY <2>5, <2>6, <2>11 DEF EqualsAt, SameType
    <3>2. same[u][v] <=> u = v /\ same[o[u].base][o[v].base]
      BY <2>5, <2>11 DEF EqualsAt
    <3>3. u = v => (psame[o[u].base][o[v].base] <=> same[o[u].base][o[v].base])
      BY <2>2, <2>7, <2>11 DEF Fine, Derived
    <3> QED
      BY <2>3, <3>1, <3>2, <3>3
  <2>12. CASE u # v /\ o[u].id = o[v].id /\ o[u].id \in {"int", "float"}
    BY <2>3, <2>5, <2>6, <2>12 DEF EqualsAt, SameType, int_equals, float_equals
  <2>13. CASE u # v /\ o[u].id = o[v].id /\ o[u].id = "array"
    <3>1. psame[o[u].base][o[v].base] <=> same[o[u].base][o[v].base]
      BY <2>2, <2>7, <2>13 DEF Fine, Derived
    <3> QED
      BY <2>3, <2>5, <2>6, <2>13, <3>1 DEF EqualsAt, SameType
  <2>14. CASE u # v /\ o[u].id = o[v].id /\ o[u].id = "function"
    <3> DEFINE a == o[u].params
               b == o[v].params
    <3>1. psame[o[u].base][o[v].base] <=> same[o[u].base][o[v].base]
      BY <2>2, <2>7, <2>14 DEF Fine, Derived
    <3>2. Len(a) = Len(b) => \A i \in DOMAIN a : psame[a[i]][b[i]] <=> same[a[i]][b[i]]
      <4> SUFFICES ASSUME Len(a) = Len(b), NEW i \in DOMAIN a
                   PROVE  psame[a[i]][b[i]] <=> same[a[i]][b[i]]
        OBVIOUS
      <4>1. i \in DOMAIN b
        BY <1>0, <2>2, FieldsOf
      <4>2. a[i] \in 1 .. Len(o) /\ a[i] < u /\ b[i] \in 1 .. Len(o)
        BY <1>0, <2>2, <4>1, FieldsOf
      <4> QED
        BY <2>2, <4>2 DEF Fine
    <3>3. function_equals(psame, o[u], o[v]) <=> function_equals(same, o[u], o[v])
      BY <3>1, <3>2 DEF function_equals
    <3>4. function_equals(psame, p[u], p[v]) <=> function_equals(psame, o[u], o[v])
      BY <2>6 DEF function_equals, SameType
    <3>5. psame[u][v] <=> function_equals(psame, p[u], p[v])
      BY <2>5, <2>6, <2>14 DEF EqualsAt, SameType
    <3>6. same[u][v] <=> function_equals(same, o[u], o[v])
      BY <2>5, <2>14 DEF EqualsAt
    <3> QED
      BY <2>3, <3>3, <3>4, <3>5, <3>6
  <2> QED
    BY <2>7, <2>8, <2>9, <2>10, <2>11, <2>12, <2>13, <2>14
<1> QED
  BY <1>1

(* Objects added after others have been added have been added.             *)
LEMMA GrownOn ==
  ASSUME NEW o, NEW p, NEW q, Grown(o, p), Grown(p, q)
  PROVE  Grown(o, q)
<1>1. Len(o) \in Nat /\ Len(p) \in Nat /\ Len(q) \in Nat
  BY DEF Grown, Founded
<1> QED
  BY <1>1 DEF Grown, SameType

(* Nothing need be added.                                                  *)
LEMMA GrownItself ==
  ASSUME NEW o, Founded(o)
  PROVE  Grown(o, o)
BY DEF Grown, SameType, Founded

(* A new type, made from old ones.                                         *)
LEMMA Appended ==
  ASSUME NEW o, Founded(o), NEW type, MadeFrom(type, Len(o) + 1)
  PROVE  LET p == Append(o, type) IN
         Grown(o, p) /\ Len(p) = Len(o) + 1 /\ p[Len(o) + 1] = type /\ Len(o) \in Nat
<1> DEFINE p == Append(o, type)
<1>1. o \in Seq(Fields) /\ type \in Fields /\ Len(o) \in Nat
  BY DEF Founded, MadeFrom
<1>2. p \in Seq(Fields) /\ Len(p) = Len(o) + 1 /\ p[Len(o) + 1] = type
      /\ \A t \in 1 .. Len(o) : p[t] = o[t]
  BY <1>1
<1>3. Founded(p)
  <2> SUFFICES ASSUME NEW t \in 1 .. Len(p) PROVE MadeFrom(p[t], t)
    BY <1>2 DEF Founded
  <2>1. CASE t = Len(o) + 1
    BY <1>2, <2>1
  <2>2. CASE t # Len(o) + 1
    <3>1. t \in 1 .. Len(o)
      BY <1>1, <1>2, <2>2
    <3> QED
      BY <1>2, <3>1 DEF Founded
  <2> QED
    BY <2>1, <2>2
<1> HIDE DEF p
<1>4. Grown(o, p)
  BY <1>1, <1>2, <1>3 DEF Grown, SameType
<1> QED
  BY <1>1, <1>2, <1>4 DEF p

(* A type gets its context.                                                *)
LEMMA Registered ==
  ASSUME NEW o, Founded(o), NEW t \in 1 .. Len(o)
  PROVE  LET p == [o EXCEPT ![t].context = TRUE] IN Grown(o, p) /\ Len(p) = Len(o)
<1> DEFINE p == [o EXCEPT ![t].context = TRUE]
<1>1. o \in Seq(Fields) /\ Len(o) \in Nat /\ DOMAIN o = 1 .. Len(o)
  BY DEF Founded
<1>2. \A u \in 1 .. Len(o) : o[u] \in Fields /\ MadeFrom(o[u], u)
  BY <1>1 DEF Founded
<1>3. \A u \in 1 .. Len(o) : p[u] \in Fields /\ SameType(p[u], o[u])
  BY <1>1, <1>2 DEF Fields, SameType
<1>4. p \in Seq(Fields) /\ Len(p) = Len(o)
  <2>1. p \in [1 .. Len(o) -> Fields]
    BY <1>1, <1>3
  <2> QED
    BY <1>1, <2>1, SeqDef
<1> HIDE DEF p
<1>5. \A u \in 1 .. Len(p) : MadeFrom(p[u], u)
  BY <1>2, <1>3, <1>4 DEF MadeFrom, SameType
<1>6. Grown(o, p) /\ Len(p) = Len(o)
  BY <1>1, <1>3, <1>4, <1>5 DEF Grown, Founded
<1> QED
  BY <1>6 DEF p

-----------------------------------------------------------------------------
(* The operations of the context.                                          *)
Good(c) ==
  /\ c \in [obj : Seq(Fields), set : SUBSET Nat, ret : Nat]
  /\ Founded(c.obj) /\ Distinct(c.obj) /\ c.set = 1 .. Len(c.obj)

(* The integer types an operation adds are of these widths.                *)
NewInts(o, p, W) == \A u \in Len(o) + 1 .. Len(p) : p[u].id = "int" => p[u].bits \in W

(* An operation's answer is this type.                                     *)
Reply(c, d, seen, shape, W) ==
  /\ Good(d) /\ Grown(c.obj, d.obj) /\ NewInts(c.obj, d.obj, W)
  /\ d.ret \in 1 .. Len(d.obj) /\ Shape(d.obj, seen)[d.ret] = shape

(* A change of contexts leaves distinct types distinct.                    *)
LEMMA StillDistinct ==
  ASSUME NEW o, NEW p, Grown(o, p), Len(p) = Len(o), Distinct(o)
  PROVE  Distinct(p)
<1>1. \A t \in 1 .. Len(o) : hash(p)[t] = hash(o)[t]
  BY OldHashes
<1>2. \A s, t \in 1 .. Len(o) : fully_equals(p)[t][s] <=> fully_equals(o)[t][s]
  BY OldEquals
<1> QED
  BY <1>1, <1>2 DEF Distinct

(* A request for a type that is there returns it.                          *)
LEMMA KnownType ==
  ASSUME NEW seen, NEW c, Good(c), NEW t \in 1 .. Len(c.obj)
  PROVE  LET d == getOrRegisterType(c, t) IN
         Reply(c, d, seen, Shape(c.obj, seen)[t], {}) /\ Len(d.obj) = Len(c.obj) /\ d.ret = t
<1> DEFINE d == getOrRegisterType(c, t)
           o == c.obj
<1>0. /\ c \in [obj : Seq(Fields), set : SUBSET Nat, ret : Nat]
      /\ Founded(o) /\ Distinct(o) /\ c.set = 1 .. Len(o) /\ Len(o) \in Nat
  BY DEF Good, Founded
<1>1. CASE hasType(c, t)
  <2>1. PICK s \in Twins(c, t) : s = CHOOSE x \in Twins(c, t) : TRUE
    BY <1>1 DEF hasType
  <2>2. d = [c EXCEPT !.ret = s]
    BY <1>1, <2>1 DEF getOrRegisterType
  <2>3. s \in 1 .. Len(o) /\ hash(o)[s] = hash(o)[t] /\ fully_equals(o)[t][s]
    BY <1>0 DEF Twins
  <2>4. s = t
    BY <1>0, <2>3 DEF Distinct
  <2>5. d \in [obj : Seq(Fields), set : SUBSET Nat, ret : Nat] /\ d.obj = o /\ d.set = c.set /\ d.ret = s
    BY <1>0, <2>2, <2>3
  <2>6. Grown(o, o)
    BY <1>0, GrownItself
  <2>7. NewInts(o, o, {})
    BY <1>0 DEF NewInts
  <2> QED
    BY <1>0, <2>3, <2>4, <2>5, <2>6, <2>7 DEF Reply, Good
<1>2. CASE ~hasType(c, t)
  <2> DEFINE p == [o EXCEPT ![t].context = TRUE]
  <2>1. d = [c EXCEPT !.set = @ \cup {t}, !.obj[t].context = TRUE, !.ret = t]
    BY <1>2 DEF getOrRegisterType, hasType
  <2>2. Grown(o, p) /\ Len(p) = Len(o)
    BY <1>0, Registered
  <2>3. d.obj = p /\ d.set = c.set \cup {t} /\ d.ret = t /\ d = [obj |-> p, set |-> c.set \cup {t}, ret |-> t]
    BY <1>0, <2>1
  <2> HIDE DEF p, d
  <2>4. Distinct(p) /\ Founded(p) /\ p \in Seq(Fields)
    BY <1>0, <2>2, StillDistinct DEF Grown, Founded
  <2>5. Good(d)
    BY <1>0, <2>2, <2>3, <2>4 DEF Good
  <2>6. Shape(p, seen)[t] = Shape(o, seen)[t]
    BY <2>2, OldShapes
  <2>7. NewInts(o, p, {})
    BY <1>0, <2>2 DEF NewInts
  <2>8. Reply(c, d, seen, Shape(o, seen)[t], {}) /\ Len(d.obj) = Len(o) /\ d.ret = t
    BY <1>0, <2>2, <2>3, <2>5, <2>6, <2>7 DEF Reply
  <2> QED
    BY <2>8 DEF d
<1> QED
  BY <1>1, <1>2

(* A new type that is not found among the others leaves types distinct.    *)
LEMMA NewDistinct ==
  ASSUME NEW o, Founded(o), Distinct(o), NEW type, NEW p, p = Append(o, type), Grown(o, p), Len(p) = Len(o) + 1,
         \A s \in 1 .. Len(o) : ~(hash(p)[s] = hash(p)[Len(o) + 1] /\ fully_equals(p)[Len(o) + 1][s])
  PROVE  Distinct(p)
<1> DEFINE n == Len(o) + 1
<1>1. Founded(p) /\ Len(o) \in Nat /\ n \in 1 .. Len(p)
  BY DEF Grown, Founded
<1>2. \A s, t \in 1 .. Len(o) : hash(p)[t] = hash(o)[t] /\ (fully_equals(p)[t][s] <=> fully_equals(o)[t][s])
  BY OldHashes, OldEquals
<1>3. \A s \in 1 .. Len(o) : s \in 1 .. Len(p)
  BY <1>1
<1>4. \A s \in 1 .. Len(o) : ~(hash(p)[s] = hash(p)[n] /\ fully_equals(p)[n][s])
  OBVIOUS
<1>5. \A s \in 1 .. Len(p) : s = n \/ s \in 1 .. Len(o)
  BY <1>1
<1> HIDE DEF n
<1>6. \A s \in 1 .. Len(o) : ~(hash(p)[n] = hash(p)[s] /\ fully_equals(p)[s][n])
  BY <1>1, <1>3, <1>4, Symmetric
<1> SUFFICES ASSUME NEW s \in 1 .. Len(p), NEW t \in 1 .. Len(p),
                    hash(p)[s] = hash(p)[t], fully_equals(p)[t][s]
             PROVE  s = t
  BY DEF Distinct
<1>7. CASE s \in 1 .. Len(o) /\ t \in 1 .. Len(o)
  BY <1>2, <1>7 DEF Distinct
<1> QED
  BY <1>4, <1>5, <1>6, <1>7

(* A new type is the only one of its kind, unless the set has an equal one *)
(* under the same hash: then that is returned.  A pointer type is always   *)
(* the new one.                                                            *)
LEMMA MadeType ==
  ASSUME NEW seen, NEW c, Good(c), NEW type, MadeFrom(type, Len(c.obj) + 1), NEW W,
         type.id = "int" => type.bits \in W,
         Sure(Append(c.obj, type), seen, Len(c.obj) + 1)
  PROVE  LET d == makeType(c, type)
             p == Append(c.obj, type)
             n == Len(c.obj) + 1
         IN Reply(c, d, seen, Shape(p, seen)[n], W) /\ (type.id = "pointer" => d.ret = n)
<1> DEFINE o == c.obj
           d == makeType(c, type)
           p == Append(o, type)
           n == Len(o) + 1
           c1 == New(c, type)
           got == getOrRegisterType(c1, n)
<1>0. /\ c \in [obj : Seq(Fields), set : SUBSET Nat, ret : Nat]
      /\ Founded(o) /\ Distinct(o) /\ c.set = 1 .. Len(o) /\ Len(o) \in Nat
  BY DEF Good, Founded
<1>1. Grown(o, p) /\ Len(p) = n /\ p[n] = type /\ Founded(p)
  BY <1>0, Appended DEF Grown
<1>2. c1 = [obj |-> p, set |-> 1 .. Len(o), ret |-> n]
  <2>1. c1 = [c EXCEPT !.obj = p, !.ret = n]
    BY DEF New
  <2>2. p \in Seq(Fields) /\ n \in Nat
    BY <1>0, <1>1 DEF Founded
  <2> HIDE DEF p, c1, n, o
  <2>3. /\ c1 \in [obj : Seq(Fields), set : SUBSET Nat, ret : Nat]
        /\ c1.obj = p /\ c1.set = c.set /\ c1.ret = n
    BY <1>0, <2>1, <2>2
  <2> QED
    BY <1>0, <2>3
<1>3. d = IF got.ret > Len(o) THEN got ELSE [got EXCEPT !.obj = o]
  BY DEF makeType
<1>4. \A t \in 1 .. Len(o) : Shape(p, seen)[t] = Shape(o, seen)[t]
  BY <1>1, OldShapes
<1> HIDE DEF p, d, c1
<1>5. Twins(c1, n) = {s \in 1 .. Len(o) : hash(p)[s] = hash(p)[n] /\ fully_equals(p)[n][s]}
  BY <1>2 DEF Twins
<1>6. CASE hasType(c1, n)
  <2>1. PICK s \in Twins(c1, n) : s = CHOOSE x \in Twins(c1, n) : TRUE
    BY <1>6 DEF hasType
  <2>2. got = [c1 EXCEPT !.ret = s]
    BY <1>6, <2>1 DEF getOrRegisterType
  <2>3. s \in 1 .. Len(o) /\ s \in 1 .. Len(p) /\ n \in 1 .. Len(p)
    BY <1>0, <1>1, <1>5
  <2>4. Shape(p, seen)[s] = Shape(p, seen)[n]
    <3>1. hash(p)[s] = hash(p)[n] /\ fully_equals(p)[n][s]
      BY <1>5, <2>1
    <3>2. Sure(p, seen, n)
      BY DEF p
    <3> QED
      BY <1>1, <2>3, <3>1, <3>2, TwinsAlike
  <2>5. d = [obj |-> o, set |-> 1 .. Len(o), ret |-> s]
    <3> HIDE DEF got
    <3>1. got = [obj |-> p, set |-> 1 .. Len(o), ret |-> s]
      BY <1>2, <2>2
    <3>2. ~(got.ret > Len(o))
      BY <1>0, <2>3, <3>1
    <3> QED
      BY <1>3, <3>1, <3>2
  <2>6. Good(d)
    BY <1>0, <2>3, <2>5 DEF Good
  <2>7. Grown(o, o) /\ NewInts(o, o, W)
    BY <1>0, GrownItself DEF NewInts
  <2>8. Shape(o, seen)[s] = Shape(p, seen)[n]
    BY <1>4, <2>3, <2>4
  <2>9. Reply(c, d, seen, Shape(p, seen)[n], W)
    BY <2>3, <2>5, <2>6, <2>7, <2>8 DEF Reply
  <2>10. type.id # "pointer"
    <3>1. p[s].id = p[n].id
      BY <1>1, <2>3, <2>4, Kinds
    <3>2. ShapeAt(p, seen, Shape(p, seen), s) /\ ShapeAt(p, seen, Shape(p, seen), n)
      BY <1>1, <2>3, ShapeIs
    <3>3. type.id = "pointer" => /\ Shape(p, seen)[s] = <<"pointer", s, p[s].base, p[s].const>>
                                 /\ Shape(p, seen)[n] = <<"pointer", n, p[n].base, p[n].const>>
      BY <1>1, <3>1, <3>2 DEF ShapeAt
    <3>4. s # n
      BY <1>0, <2>3
    <3>5. <<"pointer", s, p[s].base, p[s].const>> # <<"pointer", n, p[n].base, p[n].const>>
      BY <3>4
    <3> QED
      BY <2>4, <3>3, <3>5
  <2> QED
    BY <2>9, <2>10 DEF p, d
<1>7. CASE ~hasType(c1, n)
  <2> DEFINE q == [p EXCEPT ![n].context = TRUE]
  <2>1. got = [c1 EXCEPT !.set = @ \cup {n}, !.obj[n].context = TRUE, !.ret = n]
    BY <1>7 DEF getOrRegisterType, hasType
  <2>2. n \in 1 .. Len(p) /\ n \in Nat /\ n > Len(o)
    BY <1>0, <1>1
  <2>3. Grown(p, q) /\ Len(q) = n
    BY <1>1, <2>2, Registered
  <2>4. got = [obj |-> q, set |-> 1 .. Len(o) \cup {n}, ret |-> n]
    BY <1>2, <2>1
  <2> HIDE DEF q, got
  <2>5. d = [obj |-> q, set |-> 1 .. n, ret |-> n]
    <3>1. 1 .. Len(o) \cup {n} = 1 .. n
      BY <1>0
    <3> QED
      BY <1>3, <2>2, <2>4, <3>1
  <2>6. Distinct(p)
    <3>2. \A s \in 1 .. Len(o) : ~(hash(p)[s] = hash(p)[n] /\ fully_equals(p)[n][s])
      BY <1>5, <1>7 DEF hasType
    <3> QED
      BY <1>0, <1>1, <3>2, NewDistinct DEF p
  <2>7. Distinct(q) /\ Founded(q) /\ q \in Seq(Fields)
    BY <1>1, <2>3, <2>6, StillDistinct DEF Grown, Founded
  <2>8. Good(d)
    BY <1>0, <2>2, <2>3, <2>5, <2>7 DEF Good
  <2>9. Grown(o, q)
    BY <1>1, <2>3, GrownOn
  <2>10. Shape(q, seen)[n] = Shape(p, seen)[n]
    BY <2>2, <2>3, OldShapes
  <2>11. NewInts(o, q, W)
    <3>1. \A u \in n .. n : q[u].id = "int" => q[u].bits \in W
      BY <1>1, <2>2, <2>3 DEF Grown, SameType
    <3> QED
      BY <2>3, <3>1 DEF NewInts
  <2>12. Reply(c, d, seen, Shape(p, seen)[n], W) /\ d.ret = n
    BY <2>2, <2>3, <2>5, <2>8, <2>9, <2>10, <2>11 DEF Reply
  <2> QED
    BY <2>12 DEF p, d
<1> QED
  BY <1>6, <1>7

(* An operation on what another one left answers as if it were one.        *)
LEMMA RepliedOn ==
  ASSUME NEW c, NEW k, NEW d, NEW before, NEW known, NEW seen, NEW shape, NEW W,
         Reply(c, k, before, known, W), Reply(k, d, seen, shape, W)
  PROVE  Reply(c, d, seen, shape, W)
<1>1. Grown(c.obj, k.obj) /\ Grown(k.obj, d.obj)
  BY DEF Reply
<1>2. Grown(c.obj, d.obj)
  BY <1>1, GrownOn
<1>3. Len(c.obj) \in Nat /\ Len(k.obj) \in Nat /\ Len(d.obj) \in Nat
  BY <1>1 DEF Grown, Founded
<1>4. ASSUME NEW u \in Len(c.obj) + 1 .. Len(d.obj), d.obj[u].id = "int"
      PROVE  d.obj[u].bits \in W
  <2>1. CASE u \in 1 .. Len(k.obj)
    <3>1. SameType(d.obj[u], k.obj[u])
      BY <1>1, <2>1 DEF Grown
    <3>2. u \in Len(c.obj) + 1 .. Len(k.obj)
      BY <1>3, <2>1
    <3> QED
      BY <1>4, <3>1, <3>2 DEF Reply, NewInts, SameType
  <2>2. CASE u \notin 1 .. Len(k.obj)
    <3>1. u \in Len(k.obj) + 1 .. Len(d.obj)
      BY <1>3, <2>2
    <3> QED
      BY <1>4, <3>1 DEF Reply, NewInts
  <2> QED
    BY <2>1, <2>2
<1> QED
  BY <1>2, <1>4 DEF Reply, NewInts

(* The shape of a new type, in those of the types it is made from.         *)
ShapeMade(o, seen, type) ==
  LET p == Append(o, type)
      n == Len(o) + 1
  IN /\ \A u \in 1 .. Len(o) : Shape(p, seen)[u] = Shape(o, seen)[u]
     /\ type.id = "array" => Shape(p, seen)[n] = ArrayShape(seen, Shape(o, seen)[type.base], type.len)
     /\ type.id = "function" =>
          Shape(p, seen)[n] = <<"function", Shape(o, seen)[type.base],
                          [i \in DOMAIN type.params |-> Shape(o, seen)[type.params[i]]]>>
     /\ type.id = "pointer" => Shape(p, seen)[n] = <<"pointer", n, type.base, type.const>>
     /\ type.id = "int" => Shape(p, seen)[n] = <<"int", type.bits, "sign" \in seen /\ type.signed, type.const>>

(* The shape of a type just made.                                          *)
LEMMA NewShape ==
  ASSUME NEW seen, NEW o, Founded(o), NEW type, MadeFrom(type, Len(o) + 1)
  PROVE  ShapeMade(o, seen, type)
<1> DEFINE p == Append(o, type)
           n == Len(o) + 1
<1>1. Grown(o, p) /\ Len(p) = n /\ p[n] = type /\ Founded(p) /\ Len(o) \in Nat
  BY Appended DEF Grown
<1>2. \A u \in 1 .. Len(o) : Shape(p, seen)[u] = Shape(o, seen)[u]
  BY <1>1, OldShapes
<1>3. n \in 1 .. Len(p)
  BY <1>1
<1>4. ShapeAt(p, seen, Shape(p, seen), n)
  BY <1>1, <1>3, ShapeIs
<1>5. /\ type.id \in Derived => type.base \in 1 .. Len(o)
      /\ \A i \in DOMAIN type.params : type.params[i] \in 1 .. Len(o)
  <2> HIDE DEF p, n
  <2>1. /\ type.id \in Derived => type.base \in 1 .. Len(p) /\ type.base < n
        /\ \A i \in DOMAIN type.params : type.params[i] \in 1 .. Len(p) /\ type.params[i] < n
    BY <1>1, <1>3, FieldsOf
  <2> QED
    BY <1>1, <2>1 DEF n
<1> HIDE DEF p, n
<1>6. type.id = "array" => Shape(p, seen)[n] = ArrayShape(seen, Shape(o, seen)[type.base], type.len)
  BY <1>1, <1>2, <1>4, <1>5 DEF ShapeAt, Derived
<1>7. type.id = "function" =>
        Shape(p, seen)[n] = <<"function", Shape(o, seen)[type.base], [i \in DOMAIN type.params |-> Shape(o, seen)[type.params[i]]]>>
  <2>1. [i \in DOMAIN type.params |-> Shape(p, seen)[type.params[i]]] = [i \in DOMAIN type.params |-> Shape(o, seen)[type.params[i]]]
    BY <1>2, <1>5
  <2> QED
    BY <1>1, <1>2, <1>4, <1>5, <2>1 DEF ShapeAt, Derived
<1>8. type.id = "pointer" => Shape(p, seen)[n] = <<"pointer", n, type.base, type.const>>
  BY <1>1, <1>4 DEF ShapeAt
<1>9. type.id = "int" => Shape(p, seen)[n] = <<"int", type.bits, "sign" \in seen /\ type.signed, type.const>>
  BY <1>1, <1>4 DEF ShapeAt, Derived
<1> QED
  BY <1>2, <1>6, <1>7, <1>8, <1>9 DEF p, n, ShapeMade

(* What the constructors of types make.                                    *)
LEMMA NobodyIs ==
  /\ Nobody \in Fields /\ Nobody.params = << >> /\ 0 \in Spans
<1>1. 0 \in Spans
  BY ConstantsAssumption DEF Spans
<1> QED
  BY <1>1 DEF Nobody, Fields

(* An array type.                                                          *)
LEMMA ArrayFields ==
  ASSUME NEW t \in Nat, NEW n \in Spans, NEW type, type = ArrayType(t, n)
  PROVE  type \in Fields /\ type.id = "array" /\ type.base = t /\ type.len = n /\ type.params = << >>
BY NobodyIs DEF ArrayType, Fields

(* A pointer type.                                                         *)
LEMMA PointerFields ==
  ASSUME NEW t \in Nat, NEW k \in BOOLEAN, NEW type, type = PointerType(t, k)
  PROVE  type \in Fields /\ type.id = "pointer" /\ type.base = t /\ type.const = k /\ type.params = << >>
BY NobodyIs DEF PointerType, Fields

(* A function type.                                                        *)
LEMMA FunctionFields ==
  ASSUME NEW t \in Nat, NEW ps \in Seq(Nat), NEW type, type = FunctionType(t, ps)
  PROVE  type \in Fields /\ type.id = "function" /\ type.base = t /\ type.params = ps
BY NobodyIs DEF FunctionType, Fields

IntMade(type, n, u, k) ==
  /\ type \in Fields /\ type.id = "int" /\ type.bits = n /\ type.signed = ~u
  /\ type.const = k /\ type.params = << >>

(* An integer type of a width that fits uint8_t.                           *)
LEMMA IntFields ==
  ASSUME NEW n \in 0 .. 255, NEW u \in BOOLEAN, NEW k \in BOOLEAN
  PROVE  IntMade(IntType(n, u, k), n, u, k)
<1> DEFINE type == IntType(n, u, k)
<1>1. PICK b \in Nat : b = n % 256 /\ b = n
  OBVIOUS
<1>2. PICK s \in BOOLEAN : s = ~u
  OBVIOUS
<1>3. type = [Nobody EXCEPT !.id = "int", !.bits = b, !.signed = s, !.const = k]
  BY <1>1, <1>2 DEF IntType
<1> HIDE DEF type
<1>4. IntMade(type, n, u, k)
  BY <1>1, <1>2, <1>3, NobodyIs DEF Fields, IntMade
<1> QED
  BY <1>4 DEF type

(* A request for an array type is answered with one of that element and    *)
(* length (getArrayType).                                                  *)
LEMMA ArrayAnswer ==
  ASSUME NEW seen, NEW c, Good(c), NEW t \in 1 .. Len(c.obj), NEW length \in Spans,
         seen = Loose \/ (seen = Details /\ Flat(c.obj, t))
  PROVE  Reply(c, ArrayIn(c, t, length), seen, ArrayShape(seen, Shape(c.obj, seen)[t], length), {})
<1> DEFINE known == getOrRegisterType(c, t)
           type == ArrayType(known.ret, length)
           d == makeType(known, type)
           n == Len(known.obj) + 1
           p == Append(known.obj, type)
<1>1. Reply(c, known, seen, Shape(c.obj, seen)[t], {}) /\ known.ret = t
  BY KnownType
<1>2. d = ArrayIn(c, t, length)
  BY DEF ArrayIn
<1> HIDE DEF known
<1>3. /\ Good(known) /\ Founded(known.obj) /\ t \in 1 .. Len(known.obj) /\ Len(known.obj) \in Nat
      /\ Shape(known.obj, seen)[t] = Shape(c.obj, seen)[t]
  BY <1>1 DEF Reply, Good, Founded
<1>4. /\ type.id = "array" /\ type.base = t /\ type.len = length
      /\ type \in Fields /\ type.params = << >>
  BY <1>1, <1>3, ArrayFields
<1> HIDE DEF type
<1>8. MadeFrom(type, n)
  BY <1>3, <1>4 DEF MadeFrom
<1>10. Grown(known.obj, p) /\ p[n] = type
  BY <1>3, <1>8, Appended
<1>11. Sure(p, seen, n)
  <2>1. CASE seen = Loose
    BY <2>1 DEF Sure
  <2>2. CASE seen = Details /\ Flat(c.obj, t)
    <3>1. Grown(c.obj, known.obj)
      BY <1>1 DEF Reply
    <3>2. Grown(c.obj, p)
      BY <1>10, <3>1, GrownOn
    <3>3. Shape(p, Details)[t] = Shape(c.obj, Details)[t] /\ Shape(p, Loose)[t] = Shape(c.obj, Loose)[t]
      BY <3>2, OldShapes
    <3>4. Flat(p, t)
      BY <2>2, <3>3 DEF Flat
    <3> QED
      BY <1>4, <1>10, <2>2, <3>4 DEF Sure
  <2> QED
    BY <2>1, <2>2
<1>5. Reply(known, d, seen, Shape(p, seen)[n], {})
  BY <1>3, <1>4, <1>8, <1>11, MadeType
<1>9. ShapeMade(known.obj, seen, type)
  BY <1>3, <1>8, NewShape
<1>6. Shape(p, seen)[n] = ArrayShape(seen, Shape(known.obj, seen)[t], length)
  BY <1>4, <1>9 DEF ShapeMade
<1> HIDE DEF p, n, d
<1>7. Reply(known, d, seen, ArrayShape(seen, Shape(c.obj, seen)[t], length), {})
  BY <1>3, <1>5, <1>6
<1> QED
  BY <1>1, <1>2, <1>7, RepliedOn

(* A request for a pointer type is answered with a pointer to that target  *)
(* (getPointerType).                                                       *)
LEMMA PointerAnswer ==
  ASSUME NEW c, Good(c), NEW t \in 1 .. Len(c.obj), NEW const \in BOOLEAN
  PROVE  LET d == PointerIn(c, t, const) IN Reply(c, d, Details, <<"pointer", d.ret, t, const>>, {})
<1> DEFINE known == getOrRegisterType(c, t)
           type == PointerType(known.ret, const)
           d == makeType(known, type)
           n == Len(known.obj) + 1
           p == Append(known.obj, type)
<1>1. Reply(c, known, Details, Shape(c.obj, Details)[t], {}) /\ known.ret = t
  BY KnownType
<1>2. d = PointerIn(c, t, const)
  BY DEF PointerIn
<1> HIDE DEF known
<1>3. Good(known) /\ Founded(known.obj) /\ t \in 1 .. Len(known.obj) /\ Len(known.obj) \in Nat
  BY <1>1 DEF Reply, Good, Founded
<1>4. /\ type.id = "pointer" /\ type.base = t /\ type.const = const
      /\ type \in Fields /\ type.params = << >>
  BY <1>1, <1>3, PointerFields
<1> HIDE DEF type
<1>8. MadeFrom(type, n)
  BY <1>3, <1>4 DEF MadeFrom
<1>9. \A seen : ShapeMade(known.obj, seen, type)
  BY <1>3, <1>8, NewShape
<1>6. \A seen : Shape(p, seen)[n] = <<"pointer", n, t, const>>
  BY <1>4, <1>9 DEF ShapeMade
<1>10. Sure(p, Details, n)
  BY <1>6 DEF Sure, Flat
<1>5. Reply(known, d, Details, Shape(p, Details)[n], {}) /\ d.ret = n
  BY <1>3, <1>4, <1>8, <1>10, MadeType
<1> HIDE DEF p, n, d
<1>7. Reply(known, d, Details, <<"pointer", d.ret, t, const>>, {})
  BY <1>5, <1>6
<1> QED
  BY <1>1, <1>2, <1>7, RepliedOn

(* A request for a function type is answered with one of those types       *)
(* (getFunctionType).                                                      *)
LEMMA FunctionAnswer ==
  ASSUME NEW seen, NEW c, Good(c), NEW r \in 1 .. Len(c.obj), NEW params \in Seq(1 .. Len(c.obj)),
         seen = Loose \/ (seen = Details /\ Flat(c.obj, r) /\ \A i \in DOMAIN params : Flat(c.obj, params[i]))
  PROVE  LET d == FunctionIn(c, r, params) IN
         Reply(c, d, seen,
               <<"function", Shape(c.obj, seen)[r], [i \in DOMAIN params |-> Shape(c.obj, seen)[params[i]]]>>, {})
<1> DEFINE known == getOrRegisterType(c, r)
           type == FunctionType(known.ret, params)
           d == makeType(known, type)
           n == Len(known.obj) + 1
           p == Append(known.obj, type)
           want(see) == <<"function", Shape(c.obj, see)[r],
                          [i \in DOMAIN params |-> Shape(c.obj, see)[params[i]]]>>
<1>1. Reply(c, known, seen, Shape(c.obj, seen)[r], {}) /\ Len(known.obj) = Len(c.obj) /\ known.ret = r
  BY KnownType
<1>2. d = FunctionIn(c, r, params)
  BY DEF FunctionIn
<1> HIDE DEF known
<1>3. /\ Good(known) /\ Founded(known.obj) /\ r \in 1 .. Len(known.obj) /\ Len(known.obj) \in Nat
      /\ Grown(c.obj, known.obj)
  BY <1>1 DEF Reply, Good, Founded
<1>0. Len(c.obj) \in Nat /\ 1 .. Len(c.obj) \subseteq Nat
  BY DEF Good
<1>4. /\ params \in Seq(Nat) /\ \A i \in 1 .. Len(params) : params[i] \in 1 .. Len(known.obj)
      /\ DOMAIN params = 1 .. Len(params)
  <2>1. params \in Seq(Nat)
    BY <1>0
  <2>2. DOMAIN params = 1 .. Len(params)
    OBVIOUS
  <2>3. \A i \in 1 .. Len(params) : params[i] \in 1 .. Len(c.obj)
    OBVIOUS
  <2> QED
    BY <1>1, <2>1, <2>2, <2>3
<1>5. /\ type.id = "function" /\ type.base = r /\ type.params = params
      /\ type \in Fields
  BY <1>1, <1>3, <1>4, FunctionFields
<1> HIDE DEF type
<1>6. MadeFrom(type, n)
  BY <1>3, <1>4, <1>5 DEF MadeFrom
<1>8. ASSUME NEW see PROVE Shape(p, see)[n] = want(see)
  <2>1. ShapeMade(known.obj, see, type)
    BY <1>3, <1>6, NewShape
  <2>2. Shape(p, see)[n] = <<"function", Shape(known.obj, see)[r],
                             [i \in DOMAIN params |-> Shape(known.obj, see)[params[i]]]>>
    BY <1>5, <2>1 DEF ShapeMade
  <2>3. \A u \in 1 .. Len(c.obj) : Shape(known.obj, see)[u] = Shape(c.obj, see)[u]
    BY <1>3, OldShapes
  <2>4. [i \in DOMAIN params |-> Shape(known.obj, see)[params[i]]]
          = [i \in DOMAIN params |-> Shape(c.obj, see)[params[i]]]
    BY <1>1, <1>4, <2>3
  <2> QED
    BY <2>2, <2>3, <2>4
<1>9. Sure(p, seen, n)
  <2>1. CASE seen = Loose
    BY <2>1 DEF Sure
  <2>2. CASE seen = Details /\ Flat(c.obj, r) /\ \A i \in DOMAIN params : Flat(c.obj, params[i])
    <3>1. Shape(c.obj, Details)[r] = Shape(c.obj, Loose)[r]
      BY <2>2 DEF Flat
    <3>2. [i \in DOMAIN params |-> Shape(c.obj, Details)[params[i]]]
            = [i \in DOMAIN params |-> Shape(c.obj, Loose)[params[i]]]
      BY <2>2 DEF Flat
    <3>3. want(Details) = want(Loose)
      BY <3>1, <3>2
    <3>5. Shape(p, Details)[n] = want(Details) /\ Shape(p, Loose)[n] = want(Loose)
      BY <1>8
    <3> HIDE DEF want, p, n
    <3>4. Flat(p, n)
      BY <3>3, <3>5 DEF Flat
    <3> QED
      BY <2>2, <3>4 DEF Sure
  <2> QED
    BY <2>1, <2>2
<1>7. Reply(known, d, seen, Shape(p, seen)[n], {})
  BY <1>3, <1>5, <1>6, <1>9, MadeType
<1>11. Shape(p, seen)[n] = want(seen)
  BY <1>8
<1> HIDE DEF p, n, d, want
<1>10. Reply(known, d, seen, want(seen), {})
  BY <1>7, <1>11
<1>12. Reply(c, d, seen, want(seen), {})
  BY <1>1, <1>10, RepliedOn
<1> QED
  BY <1>2, <1>12 DEF want

IntReply(c, d, w) ==
  /\ Reply(c, d, Details \ {"sign"}, <<"int", w, FALSE, FALSE>>, {w})
  /\ d.obj[d.ret].id = "int" /\ d.obj[d.ret].bits = w /\ ~d.obj[d.ret].const

(* An integer of a new width is no twin of a type that is there, since the *)
(* map has the widths of all of them.                                      *)
LEMMA IntAnswer ==
  ASSUME NEW c, Good(c), Mapped(c.obj, ity_map), NEW w \in 0 .. 255, NEW u \in BOOLEAN
  PROVE  IntReply(c, IntIn(c, w, u), w)
<1> DEFINE o == c.obj
           d == IntIn(c, w, u)
           type == IntType(w, u, FALSE)
           c1 == New(c, type)
           p == Append(o, type)
           n == Len(o) + 1
           seen == Details \ {"sign"}
<1>0. /\ c \in [obj : Seq(Fields), set : SUBSET Nat, ret : Nat]
      /\ Founded(o) /\ Distinct(o) /\ c.set = 1 .. Len(o) /\ Len(o) \in Nat
  BY DEF Good, Founded
<1>1. CASE w \in DOMAIN ity_map
  <2>1. d = [c EXCEPT !.ret = ity_map[w]]
    BY <1>1 DEF IntIn
  <2>2. ity_map[w] \in 1 .. Len(o) /\ o[ity_map[w]].id = "int" /\ o[ity_map[w]].bits = w
        /\ ~o[ity_map[w]].const /\ o[ity_map[w]] \in Fields
    BY <1>0, <1>1, FieldsOf DEF Mapped
  <2>3. /\ d \in [obj : Seq(Fields), set : SUBSET Nat, ret : Nat]
        /\ d.obj = o /\ d.set = c.set /\ d.ret = ity_map[w]
    BY <1>0, <2>1, <2>2
  <2>4. Shape(o, seen)[ity_map[w]] = <<"int", w, FALSE, FALSE>>
    <3>1. ShapeAt(o, seen, Shape(o, seen), ity_map[w])
      BY <1>0, <2>2, ShapeIs
    <3>2. o[ity_map[w]].const = FALSE
      BY <2>2 DEF Fields
    <3>3. ("sign" \in seen /\ o[ity_map[w]].signed) = FALSE
      OBVIOUS
    <3> HIDE DEF seen
    <3>4. Shape(o, seen)[ity_map[w]] = <<"int", w, "sign" \in seen /\ o[ity_map[w]].signed, o[ity_map[w]].const>>
      BY <2>2, <3>1 DEF ShapeAt, Derived
    <3> QED
      BY <3>2, <3>3, <3>4
  <2>5. Grown(o, o) /\ NewInts(o, o, {w})
    BY <1>0, GrownItself DEF NewInts
  <2> HIDE DEF d
  <2>6. Good(d)
    BY <1>0, <2>3 DEF Good
  <2>7. Reply(c, d, seen, <<"int", w, FALSE, FALSE>>, {w})
    BY <2>2, <2>3, <2>4, <2>5, <2>6 DEF Reply
  <2> QED
    BY <2>2, <2>3, <2>7 DEF d, IntReply
<1>2. CASE w \notin DOMAIN ity_map
  <2>1. /\ type \in Fields /\ type.id = "int" /\ type.bits = w /\ type.const = FALSE
        /\ type.params = << >>
    <3>1. PICK k \in BOOLEAN : k = FALSE
      OBVIOUS
    <3>2. IntMade(IntType(w, u, k), w, u, k)
      BY IntFields
    <3>3. IntMade(type, w, u, FALSE)
      BY <3>1, <3>2
    <3> HIDE DEF type
    <3> QED
      BY <3>3 DEF IntMade
  <2>2. d = IF hasType(c1, c1.ret) THEN c1 ELSE [c1 EXCEPT !.set = @ \cup {c1.ret}]
    BY <1>2 DEF IntIn
  <2> HIDE DEF type
  <2>3. MadeFrom(type, n)
    BY <1>0, <2>1 DEF MadeFrom, Derived
  <2>4. Grown(o, p) /\ Len(p) = n /\ p[n] = type /\ Founded(p) /\ n \in 1 .. Len(p)
    <3>1. Grown(o, p) /\ Len(p) = n /\ p[n] = type
      BY <1>0, <2>3, Appended
    <3> HIDE DEF p, o
    <3> QED
      BY <1>0, <3>1 DEF Grown
  <2>5. c1 = [obj |-> p, set |-> 1 .. Len(o), ret |-> n]
    <3>1. c1 = [c EXCEPT !.obj = p, !.ret = n]
      BY DEF New
    <3>2. p \in Seq(Fields) /\ n \in Nat
      BY <1>0, <2>4 DEF Founded
    <3> HIDE DEF p, c1, n, o
    <3>3. /\ c1 \in [obj : Seq(Fields), set : SUBSET Nat, ret : Nat]
          /\ c1.obj = p /\ c1.set = c.set /\ c1.ret = n
      BY <1>0, <3>1, <3>2
    <3> QED
      BY <1>0, <3>3
  <2>6. Shape(p, seen)[n] = <<"int", w, FALSE, FALSE>>
    <3>1. ShapeMade(o, seen, type)
      BY <1>0, <2>3, NewShape
    <3>2. ("sign" \in seen /\ type.signed) = FALSE
      OBVIOUS
    <3> HIDE DEF seen
    <3>3. Shape(p, seen)[n] = <<"int", type.bits, "sign" \in seen /\ type.signed, type.const>>
      BY <2>1, <3>1 DEF ShapeMade
    <3> QED
      BY <2>1, <3>2, <3>3
  <2>7. \A s \in 1 .. Len(o) : ~fully_equals(p)[n][s]
    <3> HIDE DEF p, n
    <3> SUFFICES ASSUME NEW s \in 1 .. Len(o), fully_equals(p)[n][s] PROVE FALSE
      OBVIOUS
    <3>1. s \in 1 .. Len(p) /\ SameType(p[s], o[s]) /\ s # n
      BY <1>0, <2>4 DEF Grown, n
    <3>2. EqualsAt(p, fully_equals(p), n, s)
      BY <2>4, <3>1, EqualsIs
    <3>3. p[n].id = "int" /\ p[n].bits = w
      BY <2>1, <2>4
    <3>4. p[s].id = "int"
      BY <3>2, <3>3 DEF EqualsAt
    <3>5. int_equals(p[n], p[s])
      BY <3>1, <3>2, <3>3, <3>4 DEF EqualsAt
    <3>6. o[s].id = "int" /\ o[s].bits = w
      BY <3>1, <3>3, <3>4, <3>5 DEF SameType, int_equals
    <3> QED
      BY <1>2, <3>6 DEF Mapped
  <2>8. Distinct(p)
    BY <1>0, <2>4, <2>7, NewDistinct
  <2> HIDE DEF p, c1, d
  <2>9. Twins(c1, n) = {}
    <3>1. Twins(c1, n) = {s \in 1 .. Len(o) : hash(p)[s] = hash(p)[n] /\ fully_equals(p)[n][s]}
      BY <2>5 DEF Twins
    <3> QED
      BY <2>7, <3>1
  <2>10. d = [c1 EXCEPT !.set = @ \cup {n}]
    BY <2>2, <2>5, <2>9 DEF hasType
  <2>11. /\ d \in [obj : Seq(Fields), set : SUBSET Nat, ret : Nat]
         /\ d.obj = p /\ d.set = 1 .. n /\ d.ret = n
    <3>1. p \in Seq(Fields) /\ n \in Nat /\ 1 .. Len(o) \cup {n} = 1 .. n /\ 1 .. Len(o) \cup {n} \in SUBSET Nat
      BY <1>0, <2>4 DEF Founded
    <3> QED
      BY <2>5, <2>10, <3>1
  <2>12. Good(d)
    BY <2>4, <2>8, <2>11 DEF Good
  <2>13. NewInts(o, p, {w})
    <3>1. \A v \in n .. n : p[v].bits \in {w}
      BY <1>0, <2>1, <2>4
    <3> QED
      BY <2>4, <3>1 DEF NewInts
  <2>14. Reply(c, d, seen, <<"int", w, FALSE, FALSE>>, {w})
    BY <2>4, <2>6, <2>11, <2>12, <2>13 DEF Reply
  <2> QED
    BY <2>1, <2>4, <2>11, <2>14 DEF d, IntReply
<1> QED
  BY <1>1, <1>2

(* The map still has all integer types.                                    *)
LEMMA StillMapped ==
  ASSUME NEW o, NEW p, NEW map, Mapped(o, map), Grown(o, p), NewInts(o, p, DOMAIN map)
  PROVE  Mapped(p, map)
<1>1. Len(o) \in Nat /\ Len(p) \in Nat /\ Len(o) <= Len(p)
  BY DEF Grown, Founded
<1>2. \A x \in DOMAIN map : map[x] \in 1 .. Len(p) /\ p[map[x]].id = "int"
                             /\ p[map[x]].bits = x /\ ~p[map[x]].const
  <2> SUFFICES ASSUME NEW x \in DOMAIN map
               PROVE  map[x] \in 1 .. Len(p) /\ p[map[x]].id = "int"
                      /\ p[map[x]].bits = x /\ ~p[map[x]].const
    OBVIOUS
  <2>1. map[x] \in 1 .. Len(o) /\ o[map[x]].id = "int" /\ o[map[x]].bits = x /\ ~o[map[x]].const
    BY DEF Mapped
  <2>2. SameType(p[map[x]], o[map[x]])
    BY <2>1 DEF Grown
  <2> QED
    BY <1>1, <2>1, <2>2 DEF SameType
<1>3. ASSUME NEW t \in 1 .. Len(p), p[t].id = "int" PROVE p[t].bits \in DOMAIN map
  <2>1. CASE t \in 1 .. Len(o)
    BY <1>3, <2>1 DEF Grown, SameType, Mapped
  <2>2. CASE t \notin 1 .. Len(o)
    <3>1. t \in Len(o) + 1 .. Len(p)
      BY <1>1, <2>2
    <3> QED
      BY <1>3, <3>1 DEF NewInts
  <2> QED
    BY <2>1, <2>2
<1> QED
  BY <1>2, <1>3 DEF Mapped

-----------------------------------------------------------------------------
(* The types that are there from the start.                                *)
IsJoined(S, s, x, y) ==
  /\ s \in Seq(S) /\ Len(s) = Len(x) + Len(y)
  /\ \A i \in 1 .. Len(x) : s[i] = x[i]
  /\ \A i \in 1 .. Len(y) : s[Len(x) + i] = y[i]

(* A sequence after another, index by index.                               *)
LEMMA Joined ==
  ASSUME NEW S, NEW x \in Seq(S), NEW y \in Seq(S)
  PROVE  IsJoined(S, x \o y, x, y)
BY DEF IsJoined

(* The predefined types, one by one.                                       *)
LEMMA PredefinedIs ==
  /\ Predefined \in Seq(Fields) /\ Len(Predefined) = 9
  /\ Predefined[1] = Nobody
  /\ \A i \in 1 .. 5 : IntMade(Predefined[i + 1], <<0, 1, 8, 32, 64>>[i], FALSE, FALSE)
  /\ Predefined[7] = FloatType(32) /\ Predefined[8] = FloatType(64)
  /\ Predefined[9] = PointerType(Void, FALSE)
<1> DEFINE a == <<Nobody>>
           widths == <<0, 1, 8, 32, 64>>
           b == [i \in 1 .. 5 |-> IntType(widths[i], FALSE, FALSE)]
           z == <<FloatType(32), FloatType(64), PointerType(Void, FALSE)>>
<1>1. \A i \in 1 .. 5 : widths[i] \in 0 .. 255
  OBVIOUS
<1> HIDE DEF widths
<1>2. \A i \in 1 .. 5 : IntMade(IntType(widths[i], FALSE, FALSE), widths[i], FALSE, FALSE)
  <2> SUFFICES ASSUME NEW i \in 1 .. 5 PROVE IntMade(IntType(widths[i], FALSE, FALSE), widths[i], FALSE, FALSE)
    OBVIOUS
  <2>1. PICK n \in 0 .. 255 : n = widths[i]
    BY <1>1
  <2>2. PICK k \in BOOLEAN : k = FALSE
    OBVIOUS
  <2>3. IntMade(IntType(n, k, k), n, k, k)
    BY IntFields
  <2> QED
    BY <2>1, <2>2, <2>3
<1>3. a \in Seq(Fields) /\ Len(a) = 1 /\ a[1] = Nobody
  BY NobodyIs
<1>4. b \in Seq(Fields) /\ Len(b) = 5
  <2>1. \A i \in 1 .. 5 : IntType(widths[i], FALSE, FALSE) \in Fields
    BY <1>2 DEF IntMade
  <2>2. b \in [1 .. 5 -> Fields]
    BY <2>1
  <2> HIDE DEF b
  <2>3. b \in Seq(Fields)
    BY <2>2, SeqDef
  <2> QED
    BY <2>2, <2>3
<1>5. z \in Seq(Fields) /\ Len(z) = 3 /\ z[1] = FloatType(32) /\ z[2] = FloatType(64)
      /\ z[3] = PointerType(Void, FALSE)
  <2>1. FloatType(32) \in Fields /\ FloatType(64) \in Fields
    BY NobodyIs DEF FloatType, Fields
  <2>2. PointerType(Void, FALSE) \in Fields
    <3>1. PICK k \in BOOLEAN : k = FALSE
      OBVIOUS
    <3>2. PICK v \in Nat : v = Void
      BY DEF Void
    <3>3. PointerType(v, k) \in Fields
      BY PointerFields
    <3> QED
      BY <3>1, <3>2, <3>3
  <2>3. PICK x \in Fields, y \in Fields, v \in Fields :
          x = FloatType(32) /\ y = FloatType(64) /\ v = PointerType(Void, FALSE)
    BY <2>1, <2>2
  <2>4. <<x, y, v>> \in Seq(Fields) /\ Len(<<x, y, v>>) = 3
        /\ <<x, y, v>>[1] = x /\ <<x, y, v>>[2] = y /\ <<x, y, v>>[3] = v
    OBVIOUS
  <2> QED
    BY <2>3, <2>4
<1>6. \A i \in 1 .. 5 : b[i] = IntType(widths[i], FALSE, FALSE)
  OBVIOUS
<1>7. Predefined = (a \o b) \o z
  BY DEF Predefined, widths
<1> HIDE DEF a, b, z
<1>8. PICK ab : ab = a \o b
  OBVIOUS
<1>14. /\ ab \in Seq(Fields) /\ Len(ab) = 1 + 5
       /\ \A i \in 1 .. 1 : ab[i] = a[i]
       /\ \A i \in 1 .. 5 : ab[1 + i] = b[i]
  <2>1. IsJoined(Fields, a \o b, a, b)
    BY <1>3, <1>4, Joined
  <2> QED
    BY <1>3, <1>4, <1>8, <2>1 DEF IsJoined
<1>9. Len(ab) = 6 /\ ab[1] = a[1] /\ \A i \in 1 .. 5 : i + 1 \in 1 .. 6 /\ ab[i + 1] = b[i]
  BY <1>14
<1>16. PICK p : p = ab \o z /\ p = Predefined
  BY <1>7, <1>8
<1>15. /\ p \in Seq(Fields) /\ Len(p) = 9
       /\ \A i \in 1 .. 6 : p[i] = ab[i]
       /\ \A i \in 1 .. 3 : p[6 + i] = z[i]
  <2>1. IsJoined(Fields, ab \o z, ab, z)
    BY <1>5, <1>14, Joined
  <2> QED
    BY <1>5, <1>9, <1>16, <2>1 DEF IsJoined
<1>10. Predefined[1] = Nobody
  BY <1>3, <1>9, <1>15, <1>16
<1>11. \A i \in 1 .. 5 : Predefined[i + 1] = IntType(widths[i], FALSE, FALSE)
  <2>1. \A i \in 1 .. 5 : p[i + 1] = b[i]
    BY <1>9, <1>15
  <2> QED
    BY <1>6, <1>16, <2>1, Zenon
<1>12. \A i \in 1 .. 5 : IntMade(Predefined[i + 1], widths[i], FALSE, FALSE)
  BY <1>2, <1>11
<1>13. Predefined[7] = z[1] /\ Predefined[8] = z[2] /\ Predefined[9] = z[3]
  <2>1. 1 + 6 = 7 /\ 2 + 6 = 8 /\ 3 + 6 = 9
    OBVIOUS
  <2> QED
    BY <1>15, <1>16, <2>1
<1> QED
  BY <1>5, <1>10, <1>12, <1>13, <1>15, <1>16 DEF widths

(* Their fields.                                                           *)
LEMMA StartIs ==
  LET p == Predefined IN
  /\ p[1].id = "void" /\ p[1].bits = 0 /\ p[1].signed = FALSE /\ p[1].const = FALSE
  /\ p[2].id = "int" /\ p[2].bits = 0 /\ p[3].id = "int" /\ p[3].bits = 1
  /\ p[4].id = "int" /\ p[4].bits = 8 /\ p[5].id = "int" /\ p[5].bits = 32
  /\ p[6].id = "int" /\ p[6].bits = 64
  /\ p[7].id = "float" /\ p[7].bits = 32 /\ p[8].id = "float" /\ p[8].bits = 64
  /\ p[9].id = "pointer" /\ p[9].base = 1
  /\ \A i \in 2 .. 6 : p[i].const = FALSE
  /\ \A i \in 7 .. 8 : p[i].signed = FALSE /\ p[i].const = FALSE
  /\ \A i \in 1 .. 9 : p[i] \in Fields /\ p[i].params = << >>
<1> DEFINE p == Predefined
           widths == <<0, 1, 8, 32, 64>>
<1>1. p \in Seq(Fields) /\ Len(p) = 9
  BY PredefinedIs
<1>2. /\ p[1].id = "void" /\ p[1].bits = 0 /\ p[1].signed = FALSE /\ p[1].const = FALSE
      /\ p[1].params = << >>
  BY PredefinedIs DEF Nobody
<1>3. \A i \in 1 .. 5 : /\ p[i + 1].id = "int" /\ p[i + 1].bits = widths[i]
                         /\ p[i + 1].const = FALSE /\ p[i + 1].params = << >>
  <2>1. \A i \in 1 .. 5 : IntMade(p[i + 1], widths[i], FALSE, FALSE)
    BY PredefinedIs
  <2> HIDE DEF p, widths
  <2> QED
    BY <2>1 DEF IntMade
<1>4. /\ p[7].id = "float" /\ p[7].bits = 32 /\ p[7].signed = FALSE /\ p[7].const = FALSE
      /\ p[7].params = << >>
  BY PredefinedIs DEF FloatType, Nobody
<1>5. /\ p[8].id = "float" /\ p[8].bits = 64 /\ p[8].signed = FALSE /\ p[8].const = FALSE
      /\ p[8].params = << >>
  BY PredefinedIs DEF FloatType, Nobody
<1>6. p[9].id = "pointer" /\ p[9].base = 1 /\ p[9].params = << >>
  BY PredefinedIs DEF PointerType, Nobody, Void
<1>7. widths[1] = 0 /\ widths[2] = 1 /\ widths[3] = 8 /\ widths[4] = 32 /\ widths[5] = 64
  OBVIOUS
<1> HIDE DEF p, widths
<1>8. /\ p[2].id = "int" /\ p[2].bits = 0 /\ p[3].id = "int" /\ p[3].bits = 1
      /\ p[4].id = "int" /\ p[4].bits = 8 /\ p[5].id = "int" /\ p[5].bits = 32
      /\ p[6].id = "int" /\ p[6].bits = 64
  <2>1. 1 \in 1 .. 5 /\ 2 \in 1 .. 5 /\ 3 \in 1 .. 5 /\ 4 \in 1 .. 5 /\ 5 \in 1 .. 5
        /\ 1 + 1 = 2 /\ 2 + 1 = 3 /\ 3 + 1 = 4 /\ 4 + 1 = 5 /\ 5 + 1 = 6
    OBVIOUS
  <2> QED
    BY <1>3, <1>7, <2>1
<1>9. \A i \in 2 .. 6 : p[i].const = FALSE /\ p[i].params = << >>
  <2>1. \A i \in 2 .. 6 : i - 1 \in 1 .. 5 /\ (i - 1) + 1 = i
    OBVIOUS
  <2> QED
    BY <1>3, <2>1
<1>10. \A i \in 1 .. 9 : p[i] \in Fields /\ p[i].params = << >>
  <2>1. \A i \in 1 .. 9 : p[i] \in Fields
    <3>1. p \in [1 .. Len(p) -> Fields]
      BY <1>1
    <3> QED
      BY <1>1, <3>1
  <2>2. \A i \in 1 .. 9 : i \in {1, 7, 8, 9} \/ i \in 2 .. 6
    OBVIOUS
  <2> QED
    BY <1>2, <1>4, <1>5, <1>6, <1>9, <2>1, <2>2
<1>11. \A i \in 7 .. 8 : p[i].signed = FALSE /\ p[i].const = FALSE
  BY <1>4, <1>5
<1> QED
  BY <1>2, <1>4, <1>5, <1>6, <1>8, <1>9, <1>10, <1>11 DEF p

(* The predefined types are distinct, and in the map.                      *)
LEMMA TypesInit ==
  ContextInit => TypesInv
<1> SUFFICES ASSUME ContextInit PROVE TypesInv
  OBVIOUS
<1> DEFINE p == Predefined
           o == obj
<1>1. DOMAIN p = 1 .. 9
  BY PredefinedIs
<1>2. /\ p[1].id = "void" /\ p[1].bits = 0 /\ p[1].signed = FALSE /\ p[1].const = FALSE
      /\ p[2].id = "int" /\ p[2].bits = 0 /\ p[3].id = "int" /\ p[3].bits = 1
      /\ p[4].id = "int" /\ p[4].bits = 8 /\ p[5].id = "int" /\ p[5].bits = 32
      /\ p[6].id = "int" /\ p[6].bits = 64
      /\ p[7].id = "float" /\ p[7].bits = 32 /\ p[8].id = "float" /\ p[8].bits = 64
      /\ p[9].id = "pointer" /\ p[9].base = 1
      /\ \A i \in 2 .. 6 : p[i].const = FALSE
      /\ \A i \in 7 .. 8 : p[i].signed = FALSE /\ p[i].const = FALSE
  BY StartIs
<1>3. \A i \in 1 .. 9 : p[i] \in Fields /\ p[i].params = << >>
  BY StartIs
<1>4. /\ o = [i \in DOMAIN p |-> [p[i] EXCEPT !.context = TRUE]]
      /\ type_set = DOMAIN p /\ last.seen = Details /\ last.ret = 1
      /\ last.want = <<"void", 0, FALSE, FALSE>>
      /\ ity_map = [bits \in {0, 1, 8, 32, 64} |-> CHOOSE t \in 2 .. 6 : p[t].bits = bits]
  BY DEF ContextInit, Void
<1> HIDE DEF p, o
<1>5. \A i \in 1 .. 9 : o[i] \in Fields /\ SameType(o[i], p[i])
  BY <1>1, <1>3, <1>4 DEF Fields, SameType
<1>6. o \in Seq(Fields) /\ Len(o) = 9
  <2>1. o \in [1 .. 9 -> Fields]
    BY <1>1, <1>4, <1>5
  <2>2. o \in Seq(Fields)
    BY <2>1, SeqDef
  <2> QED
    BY <2>1, <2>2
<1>7. \A t \in 1 .. 9 : MadeFrom(o[t], t)
  <2> SUFFICES ASSUME NEW t \in 1 .. 9 PROVE MadeFrom(o[t], t)
    OBVIOUS
  <2>1. o[t] \in Fields /\ o[t].params = << >>
    BY <1>3, <1>5 DEF SameType
  <2>2. o[t].id \in Derived => o[t].base \in 1 .. t - 1
    BY <1>2, <1>5 DEF SameType, Derived
  <2>3. o[t].id = "float" => ~o[t].signed /\ ~o[t].const
    BY <1>2, <1>5 DEF SameType
  <2> QED
    BY <2>1, <2>2, <2>3 DEF MadeFrom
<1>8. Founded(o)
  BY <1>6, <1>7 DEF Founded
<1>9. Distinct(o)
  <2> DEFINE same == fully_equals(o)
  <2> SUFFICES ASSUME NEW s \in 1 .. 9, NEW t \in 1 .. 9, same[t][s], s # t
               PROVE  FALSE
    BY <1>6 DEF Distinct
  <2>2. EqualsAt(o, same, t, s)
    BY <1>6, <1>8, EqualsIs
  <2> HIDE DEF same
  <2>1. o[s].id = o[t].id /\ o[t].id \notin {"void", "pointer"}
    BY <2>2 DEF EqualsAt
  <2>4. o[t].id \in {"int", "float"} /\ o[s].id \in {"int", "float"}
    BY <1>2, <1>5, <2>1 DEF SameType
  <2>6. o[s].bits = o[t].bits
    BY <2>1, <2>2, <2>4 DEF EqualsAt, int_equals, float_equals
  <2>7. \A i \in 1 .. 9 : o[i].id = p[i].id /\ o[i].bits = p[i].bits
    BY <1>5 DEF SameType
  <2>8. \A i \in 1 .. 9 : p[i].id = "int" =>
          \/ i = 2 /\ p[i].bits = 0
          \/ i = 3 /\ p[i].bits = 1
          \/ i = 4 /\ p[i].bits = 8
          \/ i = 5 /\ p[i].bits = 32
          \/ i = 6 /\ p[i].bits = 64
    <3>1. \A i \in 1 .. 9 : i \in {2, 3, 4, 5, 6} \/ i \in {1, 7, 8, 9}
      OBVIOUS
    <3>4. p[1].id = "void" /\ p[7].id = "float" /\ p[8].id = "float" /\ p[9].id = "pointer"
      BY <1>2
    <3>2. p[1].id # "int" /\ p[7].id # "int" /\ p[8].id # "int" /\ p[9].id # "int"
      BY <3>4
    <3>3. p[2].bits = 0 /\ p[3].bits = 1 /\ p[4].bits = 8 /\ p[5].bits = 32 /\ p[6].bits = 64
      BY <1>2
    <3> QED
      BY <3>1, <3>2, <3>3
  <2>9. \A i \in 1 .. 9 : p[i].id = "float" =>
          \/ i = 7 /\ p[i].bits = 32
          \/ i = 8 /\ p[i].bits = 64
    <3>1. \A i \in 1 .. 9 : i \in {1, 2, 3, 4, 5, 6, 9} \/ i \in {7, 8}
      OBVIOUS
    <3>4. /\ p[1].id = "void" /\ p[2].id = "int" /\ p[3].id = "int" /\ p[4].id = "int"
          /\ p[5].id = "int" /\ p[6].id = "int" /\ p[9].id = "pointer"
      BY <1>2
    <3>2. /\ p[1].id # "float" /\ p[2].id # "float" /\ p[3].id # "float" /\ p[4].id # "float"
          /\ p[5].id # "float" /\ p[6].id # "float" /\ p[9].id # "float"
      BY <3>4
    <3>3. p[7].bits = 32 /\ p[8].bits = 64
      BY <1>2
    <3> QED
      BY <3>1, <3>2, <3>3
  <2>10. CASE o[t].id = "int"
    <3>1. p[s].id = "int" /\ p[t].id = "int" /\ p[s].bits = p[t].bits
      BY <2>1, <2>6, <2>7, <2>10
    <3> QED
      BY <2>8, <3>1
  <2>11. CASE o[t].id = "float"
    <3>1. p[s].id = "float" /\ p[t].id = "float" /\ p[s].bits = p[t].bits
      BY <2>1, <2>6, <2>7, <2>11
    <3> QED
      BY <2>9, <3>1
  <2> QED
    BY <2>4, <2>10, <2>11
<1>10. Mapped(o, ity_map)
  <2>1. DOMAIN ity_map = {0, 1, 8, 32, 64}
    BY <1>4
  <2>2. ASSUME NEW w \in {0, 1, 8, 32, 64}
        PROVE  ity_map[w] \in 2 .. 6 /\ p[ity_map[w]].bits = w
    <3>1. \E t \in 2 .. 6 : p[t].bits = w
      BY <1>2
    <3>2. ity_map[w] = CHOOSE t \in 2 .. 6 : p[t].bits = w
      BY <1>4
    <3> QED
      BY <3>1, <3>2
  <2>3. \A t \in 2 .. 6 : t \in 1 .. 9 /\ p[t].id = "int" /\ p[t].const = FALSE
    BY <1>2
  <2>4. \A w \in DOMAIN ity_map : ity_map[w] \in 1 .. 9 /\ o[ity_map[w]].id = "int"
                                   /\ o[ity_map[w]].bits = w /\ ~o[ity_map[w]].const
    BY <1>5, <2>1, <2>2, <2>3 DEF SameType
  <2>5. \A t \in 1 .. 9 : o[t].id = "int" => o[t].bits \in {0, 1, 8, 32, 64}
    BY <1>2, <1>5 DEF SameType
  <2> QED
    BY <1>6, <2>1, <2>4, <2>5 DEF Mapped
<1>11. Shape(o, Details)[1] = <<"void", 0, FALSE, FALSE>>
  <2>0. 1 \in 1 .. 9
    OBVIOUS
  <2>1. ShapeAt(o, Details, Shape(o, Details), 1)
    BY <1>6, <1>8, <2>0, ShapeIs
  <2>2. SameType(o[1], p[1])
    BY <1>5, <2>0
  <2>3. o[1].id = "void" /\ o[1].bits = 0 /\ o[1].signed = FALSE /\ o[1].const = FALSE
    BY <1>2, <2>2, Zenon DEF SameType
  <2>4. Shape(o, Details)[1] = <<o[1].id, o[1].bits, "sign" \in Details /\ o[1].signed, o[1].const>>
    BY <2>1, <2>3 DEF ShapeAt, Derived
  <2>5. ("sign" \in Details /\ o[1].signed) = FALSE
    BY <2>3
  <2> QED
    BY <2>3, <2>4, <2>5, Zenon
<1>12. last.ret \in 1 .. Len(o) /\ type_set = 1 .. Len(o) /\ 9 <= Len(o)
  BY <1>1, <1>4, <1>6
<1>13. Shape(o, last.seen)[last.ret] = last.want
  BY <1>4, <1>11, Zenon
<1> QED
  BY <1>8, <1>9, <1>10, <1>12, <1>13 DEF TypesInv, Answered, o

-----------------------------------------------------------------------------
(* A request: its answer is what was asked for, and the context is as good *)
(* as before.                                                              *)
LEMMA Replied ==
  ASSUME TypesInv, NEW d, NEW seen, NEW want, NEW W, Reply(Context, d, seen, want, W),
         Answer(d, seen, want),
         Mapped(d.obj, ity_map')
  PROVE  TypesInv'
<1>1. obj' = d.obj /\ type_set' = d.set /\ last'.seen = seen /\ last'.want = want /\ last'.ret = d.ret
  BY DEF Answer
<1>2. /\ Founded(d.obj) /\ Distinct(d.obj) /\ d.set = 1 .. Len(d.obj)
      /\ d.ret \in 1 .. Len(d.obj) /\ Shape(d.obj, seen)[d.ret] = want /\ Grown(Context.obj, d.obj)
  BY DEF Reply, Good
<1>3. 9 <= Len(d.obj)
  <2>1. Context.obj = obj
    BY DEF Context
  <2>2. Founded(obj) /\ 9 <= Len(obj) /\ Len(obj) <= Len(d.obj)
    BY <1>2, <2>1 DEF TypesInv, Grown
  <2>3. Len(obj) \in Nat /\ Len(d.obj) \in Nat
    BY <1>2, <2>2 DEF Founded
  <2> QED
    BY <2>2, <2>3
<1> QED
  BY <1>1, <1>2, <1>3 DEF TypesInv, Answered

(* The context before a request.                                           *)
LEMMA ContextGood ==
  ASSUME TypesInv
  PROVE  /\ Good(Context) /\ Context.obj = obj /\ Mapped(Context.obj, ity_map)
         /\ Len(obj) \in Nat /\ 9 <= Len(obj)
<1>1. obj \in Seq(Fields) /\ type_set \in SUBSET Nat /\ last.ret \in Nat
  BY DEF TypesInv, Founded, Answered
<1> QED
  BY <1>1 DEF TypesInv, Good, Context

(* What clients pass on are types that are there.                          *)
LEMMA KnownThere ==
  ASSUME TypesInv
  PROVE  /\ Known \subseteq 1 .. Len(obj)
         /\ Params \subseteq Seq(1 .. Len(obj))
<1>1. Len(obj) \in Nat /\ 9 <= Len(obj)
  BY ContextGood
<1>2. Range(ity_map) \subseteq 1 .. Len(obj)
  BY DEF TypesInv, Mapped, Range
<1>3. Held \subseteq 1 .. Len(obj)
  BY <1>2 DEF TypesInv, Held
<1>4. Known \subseteq 1 .. Len(obj)
  <2>1. 1 .. 9 \subseteq 1 .. Len(obj)
    BY <1>1
  <2>2. Basic \subseteq 1 .. Len(obj)
    BY <2>1, ConstantsAssumption
  <2> QED
    BY <1>3, <2>2, Zenon DEF Known
<1>5. ASSUME NEW ps \in Params PROVE ps \in Seq(1 .. Len(obj))
  <2>1. PICK n \in 0 .. MaxParams : ps \in [1 .. n -> Known]
    BY <1>5 DEF Params
  <2>2. n \in Nat
    BY ConstantsAssumption
  <2>3. ps \in [1 .. n -> 1 .. Len(obj)]
    BY <1>4, <2>1
  <2> QED
    BY <2>2, <2>3, SeqDef
<1> QED
  BY <1>4, <1>5

(* The map after a request for an integer.                                 *)
Extended(map, w, t) == [x \in DOMAIN map \cup {w} |-> IF x = w THEN t ELSE map[x]]

(* The width just asked for is in the map, the others are still there.     *)
LEMMA MapExtended ==
  ASSUME NEW o, NEW p, NEW map, NEW w, NEW t \in 1 .. Len(p),
         Mapped(o, map), Grown(o, p), NewInts(o, p, {w}),
         p[t].id = "int", p[t].bits = w, ~p[t].const
  PROVE  Mapped(p, Extended(map, w, t))
<1> DEFINE m == Extended(map, w, t)
<1>1. DOMAIN m = DOMAIN map \cup {w} /\ m[w] = t /\ \A x \in DOMAIN map : x # w => m[x] = map[x]
  BY DEF Extended
<1> HIDE DEF m
<1>2. Len(o) \in Nat /\ Len(p) \in Nat /\ Len(o) <= Len(p)
  BY DEF Grown, Founded
<1>3. ASSUME NEW x \in DOMAIN map
      PROVE  map[x] \in 1 .. Len(p) /\ p[map[x]].id = "int" /\ p[map[x]].bits = x /\ ~p[map[x]].const
  <2>1. map[x] \in 1 .. Len(o) /\ o[map[x]].id = "int" /\ o[map[x]].bits = x /\ ~o[map[x]].const
    BY DEF Mapped
  <2>2. SameType(p[map[x]], o[map[x]])
    BY <2>1 DEF Grown
  <2> QED
    BY <1>2, <2>1, <2>2 DEF SameType
<1>4. ASSUME NEW u \in 1 .. Len(p), p[u].id = "int" PROVE p[u].bits \in DOMAIN m
  <2>1. CASE u \in 1 .. Len(o)
    BY <1>1, <1>4, <2>1 DEF Grown, SameType, Mapped
  <2>2. CASE u \notin 1 .. Len(o)
    <3>1. u \in Len(o) + 1 .. Len(p)
      BY <1>2, <2>2
    <3> QED
      BY <1>1, <1>4, <3>1 DEF NewInts
  <2> QED
    BY <2>1, <2>2
<1>5. Mapped(p, m)
  BY <1>1, <1>3, <1>4 DEF Mapped
<1> QED
  BY <1>5 DEF m

(* Every request keeps the invariant.                                      *)
LEMMA TypesStep ==
  TypesInv /\ [ContextNext]_contextVars => TypesInv'
<1> SUFFICES ASSUME TypesInv, [ContextNext]_contextVars PROVE TypesInv'
  OBVIOUS
<1> DEFINE c == Context
<1>0. Good(c) /\ c.obj = obj /\ Mapped(c.obj, ity_map) /\ Len(obj) \in Nat /\ 9 <= Len(obj)
  BY ContextGood
<1>1. Known \cup {Void} \subseteq 1 .. Len(obj) /\ Params \subseteq Seq(1 .. Len(obj))
  BY <1>0, KnownThere DEF Void
<1>2. \A seen : Shape(c.obj, seen) = Shape(obj, seen)
  BY <1>0
<1>13. Lengths \subseteq Spans
  BY ConstantsAssumption DEF Spans
<1>14. ASSUME NEW types PROVE Told(types) = Loose \/ (Told(types) = Details /\ \A t \in types : Flat(c.obj, t))
  <2>1. \A t : Rigid(obj, t) <=> Flat(c.obj, t)
    BY <1>2 DEF Rigid, Flat, Loose
  <2> QED
    BY <2>1 DEF Told, Loose
<1> HIDE DEF c
<1>3. ASSUME NEW d, NEW seen, NEW want, NEW W, Reply(c, d, seen, want, W), Answer(d, seen, want),
             UNCHANGED ity_map, W \subseteq DOMAIN ity_map
      PROVE  TypesInv'
  <2>1. Grown(c.obj, d.obj) /\ NewInts(c.obj, d.obj, DOMAIN ity_map)
    BY <1>3 DEF Reply, NewInts
  <2>2. Mapped(d.obj, ity_map')
    BY <1>0, <1>3, <2>1, StillMapped
  <2> QED
    BY <1>3, <2>2, Replied DEF c
<1>4. ASSUME NEW w \in Widths, NEW u \in BOOLEAN, getIntType(w, u) PROVE TypesInv'
  <2> DEFINE d == IntIn(c, w, u)
             seen == Details \ {"sign"}
             want == <<"int", w, FALSE, FALSE>>
  <2>1. w \in 0 .. 255
    BY ConstantsAssumption
  <2>2. Reply(c, d, seen, want, {w}) /\ d.obj[d.ret].id = "int" /\ d.obj[d.ret].bits = w
        /\ ~d.obj[d.ret].const
    <3>1. IntReply(c, IntIn(c, w, u), w)
      BY <1>0, <2>1, IntAnswer
    <3> QED
      BY <3>1, Zenon DEF IntReply
  <2>3. Answer(d, seen, want)
        /\ ity_map' = Extended(ity_map, w, d.ret)
    BY <1>4, Zenon DEF getIntType, c, Extended
  <2> HIDE DEF d, seen, want
  <2>4. Grown(c.obj, d.obj) /\ NewInts(c.obj, d.obj, {w}) /\ d.ret \in 1 .. Len(d.obj)
    BY <2>2 DEF Reply
  <2>5. Mapped(d.obj, ity_map')
    BY <1>0, <2>2, <2>3, <2>4, MapExtended
  <2> QED
    BY <2>2, <2>3, <2>5, Replied DEF c
<1>5. ASSUME NEW w \in Widths, NEW u \in BOOLEAN, NEW k \in BOOLEAN, makeIntType(w, u, k) PROVE TypesInv'
  <2> DEFINE type == IntType(w, u, k)
             d == makeType(c, type)
             n == Len(c.obj) + 1
             p == Append(c.obj, type)
             want == <<"int", w, ~u, k>>
  <2>1. IntMade(type, w, u, k)
    <3>1. w \in 0 .. 255
      BY ConstantsAssumption
    <3> QED
      BY <3>1, IntFields
  <2>2. w \in DOMAIN ity_map /\ Answer(d, Details, want) /\ UNCHANGED ity_map
    BY <1>5 DEF makeIntType, c
  <2> HIDE DEF type
  <2>3. MadeFrom(type, n)
    BY <1>0, <2>1 DEF MadeFrom, IntMade, Derived
  <2>6. ASSUME NEW seen, "sign" \in seen PROVE Shape(p, seen)[n] = want
    <3>1. ShapeMade(c.obj, seen, type)
      BY <1>0, <2>3, NewShape DEF Good
    <3>2. Shape(p, seen)[n] = <<"int", w, "sign" \in seen /\ type.signed, k>>
      BY <2>1, <3>1 DEF ShapeMade, IntMade
    <3>3. ("sign" \in seen /\ type.signed) = ~u
      BY <2>1, <2>6 DEF IntMade
    <3> QED
      BY <3>2, <3>3
  <2>5. Shape(p, Details)[n] = want /\ Shape(p, Loose)[n] = want
    BY <2>6, Seen
  <2>7. Sure(p, Details, n)
    BY <2>5 DEF Sure, Flat
  <2>4. Reply(c, d, Details, Shape(p, Details)[n], {w})
    BY <1>0, <2>1, <2>3, <2>7, MadeType DEF IntMade
  <2> HIDE DEF d, p, n, want
  <2> QED
    BY <1>3, <2>2, <2>4, <2>5
<1>6. ASSUME NEW t \in Known, NEW n \in Lengths, getArrayType(t, n) PROVE TypesInv'
  <2> DEFINE d == ArrayIn(c, t, n)
             seen == Told({t})
             want == ArrayShape(seen, Shape(c.obj, seen)[t], n)
  <2>1. t \in 1 .. Len(c.obj) /\ n \in Spans
    BY <1>0, <1>1, <1>13
  <2>4. seen = Loose \/ (seen = Details /\ Flat(c.obj, t))
    BY <1>14
  <2>3. Answer(d, seen, want) /\ UNCHANGED ity_map
    BY <1>2, <1>6 DEF getArrayType, c
  <2> HIDE DEF seen
  <2>2. Reply(c, d, seen, want, {})
    BY <1>0, <2>1, <2>4, ArrayAnswer
  <2> HIDE DEF d, want
  <2> QED
    BY <1>3, <2>2, <2>3
<1>7. ASSUME NEW t \in Known, NEW m \in Lengths, NEW n \in Lengths, getMultiDimensionArray(t, m, n)
      PROVE  TypesInv'
  <2> DEFINE inner == ArrayIn(c, t, n)
             d == ArrayIn(inner, inner.ret, m)
             elem == ArrayShape(Loose, Shape(c.obj, Loose)[t], n)
             want == ArrayShape(Loose, elem, m)
  <2>1. t \in 1 .. Len(c.obj) /\ n \in Spans /\ m \in Spans
    BY <1>0, <1>1, <1>13
  <2>2. Reply(c, inner, Loose, elem, {})
    BY <1>0, <2>1, ArrayAnswer
  <2>3. Answer(d, Loose, want) /\ UNCHANGED ity_map
    BY <1>2, <1>7 DEF getMultiDimensionArray, c, Loose
  <2> HIDE DEF inner, elem
  <2>4. /\ Good(inner) /\ inner.ret \in 1 .. Len(inner.obj)
        /\ Shape(inner.obj, Loose)[inner.ret] = elem
    BY <2>2 DEF Reply
  <2>5. Reply(inner, d, Loose, ArrayShape(Loose, Shape(inner.obj, Loose)[inner.ret], m), {})
    BY <2>1, <2>4, ArrayAnswer
  <2>6. Reply(inner, d, Loose, want, {})
    BY <2>4, <2>5, Zenon
  <2> HIDE DEF d, want
  <2>7. Reply(c, d, Loose, want, {})
    BY <2>2, <2>6, RepliedOn
  <2> QED
    BY <1>3, <2>3, <2>7
<1>8. ASSUME NEW r \in Known \cup {Void}, NEW ps \in Params, NEW seen,
             seen = Loose \/ (seen = Details /\ Flat(c.obj, r) /\ \A i \in DOMAIN ps : Flat(c.obj, ps[i]))
      PROVE  LET fty == FunctionIn(c, r, ps) IN
             r \in 1 .. Len(c.obj) /\ Reply(c, fty, seen, FunctionShape(seen, r, ps), {})
  <2>1. r \in 1 .. Len(c.obj) /\ ps \in Seq(1 .. Len(c.obj))
    BY <1>0, <1>1
  <2>2. LET fty == FunctionIn(c, r, ps) IN
        Reply(c, fty, seen,
              <<"function", Shape(c.obj, seen)[r], [i \in DOMAIN ps |-> Shape(c.obj, seen)[ps[i]]]>>, {})
    BY <1>0, <1>8, <2>1, FunctionAnswer
  <2> QED
    BY <1>2, <2>1, <2>2 DEF FunctionShape
<1>9. ASSUME NEW r \in Known \cup {Void}, NEW ps \in Params, getFunctionType(r, ps) PROVE TypesInv'
  <2> DEFINE d == FunctionIn(c, r, ps)
             seen == Told({r} \cup Range(ps))
             want == FunctionShape(seen, r, ps)
  <2>2. Answer(d, seen, want) /\ UNCHANGED ity_map
    BY <1>9 DEF getFunctionType, c
  <2>3. seen = Loose \/ (seen = Details /\ \A t \in {r} \cup Range(ps) : Flat(c.obj, t))
    BY <1>14
  <2> HIDE DEF seen
  <2>4. \A i \in DOMAIN ps : ps[i] \in Range(ps)
    BY DEF Range
  <2>5. seen = Loose \/ (seen = Details /\ Flat(c.obj, r) /\ \A i \in DOMAIN ps : Flat(c.obj, ps[i]))
    BY <2>3, <2>4
  <2>1. Reply(c, d, seen, want, {})
    BY <1>8, <2>5
  <2> HIDE DEF d, want
  <2> QED
    BY <1>3, <2>1, <2>2
<1>10. ASSUME NEW t \in Known, NEW k \in BOOLEAN, getPointerType(t, k) PROVE TypesInv'
  <2> DEFINE d == PointerIn(c, t, k)
             want == <<"pointer", d.ret, t, k>>
  <2>1. t \in 1 .. Len(c.obj)
    BY <1>0, <1>1
  <2>2. Reply(c, d, Details, want, {})
    BY <1>0, <2>1, PointerAnswer
  <2>3. Answer(d, Details, want) /\ UNCHANGED ity_map
    BY <1>10 DEF getPointerType, c
  <2> HIDE DEF d, want
  <2> QED
    BY <1>3, <2>2, <2>3
<1>11. ASSUME NEW r \in Known \cup {Void}, NEW ps \in Params, getFunctionPointer(r, ps) PROVE TypesInv'
  <2> DEFINE fty == FunctionIn(c, r, ps)
             d == PointerIn(fty, fty.ret, FALSE)
             want == <<"pointer", d.ret, fty.ret, FALSE>>
  <2>1. Reply(c, fty, Loose, FunctionShape(Loose, r, ps), {})
    BY <1>8
  <2>2. Answer(d, Details, want) /\ UNCHANGED ity_map
    BY <1>11 DEF getFunctionPointer, c
  <2> HIDE DEF fty
  <2>3. Good(fty) /\ fty.ret \in 1 .. Len(fty.obj)
    BY <2>1 DEF Reply
  <2>4. Reply(fty, d, Details, want, {})
    <3>1. PICK k \in BOOLEAN : k = FALSE
      OBVIOUS
    <3>2. LET e == PointerIn(fty, fty.ret, k) IN Reply(fty, e, Details, <<"pointer", e.ret, fty.ret, k>>, {})
      BY <2>3, PointerAnswer
    <3> QED
      BY <3>1, <3>2
  <2> HIDE DEF d, want
  <2>5. Reply(c, d, Details, want, {})
    BY <2>1, <2>4, RepliedOn
  <2> QED
    BY <1>3, <2>2, <2>5
<1>12. CASE UNCHANGED contextVars
  BY <1>12 DEF contextVars, TypesInv, Answered
<1> QED
  BY <1>4, <1>5, <1>6, <1>7, <1>9, <1>10, <1>11, <1>12 DEF ContextNext

(* Whatever is asked for in whatever order, a request is answered with a   *)
(* type the context holds and that is what was asked for, but for the sign *)
(* of an integer (getIntType) and for the lengths of nested arrays, whose  *)
(* hash adds them up; and unless a type is made from void there is no      *)
(* second object that is the same type.                                    *)
THEOREM TypesInterned ==
  ContextSpec => []Interned
<1>1. TypesInv => Interned
  <2> SUFFICES ASSUME TypesInv PROVE Interned
    OBVIOUS
  <2>1. Range(ity_map) \subseteq 1 .. Len(obj)
    BY DEF TypesInv, Mapped, Range
  <2>2. Held = 1 .. Len(obj)
    BY <2>1 DEF TypesInv, Held
  <2>3. \A u, v \in 1 .. Len(obj) :
          Shape(obj, Details)[u] = Shape(obj, Details)[v] /\ Solid(obj)[v] => u = v
    <3>1. Founded(obj) /\ Distinct(obj)
      BY DEF TypesInv
    <3> QED
      BY <3>1, SameHash, AlikeTwins DEF Distinct
  <2> QED
    BY <2>2, <2>3 DEF TypesInv, Interned, Answered
<1> QED
  BY <1>1, TypesInit, TypesStep, PTL DEF ContextSpec

-----------------------------------------------------------------------------
(* The layout of arrays.                                                   *)

(* Halving a number that is not zero.                                      *)
LEMMA Halved ==
  ASSUME NEW x \in Nat, x # 0
  PROVE  x \div 2 \in Nat /\ x \div 2 < x /\ x < 2 * (x \div 2) + 2
OBVIOUS

(* The next power of two is one for zero and twice that of the half: the   *)
(* recursion is well-founded.                                              *)
LEMMA NextPowerDefined ==
  \A x \in Nat : NextPower[x] = IF x = 0 THEN 1 ELSE 2 * NextPower[x \div 2]
<1> DEFINE Fits(f, n) == f = [x \in 0 .. n |-> IF x = 0 THEN 1 ELSE 2 * f[x \div 2]]
<1>1. ASSUME NEW n \in Nat PROVE \E f : Fits(f, n)
  <2> DEFINE T == {m \in Nat : ~\E f : Fits(f, m)}
  <2> SUFFICES T = {}
    OBVIOUS
  <2>1. ASSUME T # {} PROVE FALSE
    <3>1. T \in SUBSET Nat
      OBVIOUS
    <3>2. PICK m \in T : \A j \in T : m <= j
      <4> HIDE DEF T
      <4> QED
        BY <2>1, <3>1, LeastNatural
    <3>3. m # 0
      <4>1. Fits([x \in 0 .. 0 |-> 1], 0)
        OBVIOUS
      <4> QED
        BY <3>2, <4>1
    <3>4. m \in Nat /\ m - 1 \in Nat /\ m - 1 \notin T
      <4> HIDE DEF T
      <4>1. m \in Nat /\ m - 1 \in Nat
        BY <3>1, <3>2, <3>3
      <4> QED
        BY <3>2, <4>1
    <3>5. PICK f : Fits(f, m - 1)
      BY <3>4
    <3> DEFINE g == [x \in 0 .. m |-> IF x = 0 THEN 1 ELSE 2 * f[x \div 2]]
    <3>6. \A x \in 0 .. m - 1 : g[x] = f[x]
      BY <3>4, <3>5
    <3>7. \A x \in 0 .. m : x # 0 => x \div 2 \in 0 .. m - 1
      BY <3>4, Halved
    <3>8. Fits(g, m)
      BY <3>6, <3>7
    <3> QED
      BY <3>2, <3>8
  <2> QED
    BY <2>1
<1>2. ASSUME NEW m \in Nat, NEW n \in Nat, NEW f, NEW g, Fits(f, m), Fits(g, n), NEW z \in 0 .. m, z <= n
      PROVE  f[z] = g[z]
  <2> DEFINE T == {x \in Nat : x <= m /\ x <= n /\ f[x] # g[x]}
  <2>1. ASSUME T # {} PROVE FALSE
    <3>1. T \in SUBSET Nat
      OBVIOUS
    <3>2. PICK x \in T : \A y \in T : x <= y
      <4> HIDE DEF T
      <4> QED
        BY <2>1, <3>1, LeastNatural
    <3>3. x \in 0 .. m /\ x \in 0 .. n /\ f[x] # g[x]
      BY <3>2
    <3>4. f[x] = IF x = 0 THEN 1 ELSE 2 * f[x \div 2]
      BY <1>2, <3>3
    <3>5. g[x] = IF x = 0 THEN 1 ELSE 2 * g[x \div 2]
      BY <1>2, <3>3
    <3>6. x # 0 => f[x \div 2] = g[x \div 2]
      BY <3>2, <3>3, Halved
    <3> QED
      BY <3>3, <3>4, <3>5, <3>6
  <2>2. z \in Nat /\ z <= m
    BY <1>2
  <2>3. z \notin T
    <3> HIDE DEF T
    <3> QED
      BY <2>1
  <2>4. z <= n
    BY <1>2
  <2> HIDE DEF Fits
  <2> QED
    BY <2>2, <2>3, <2>4
<1> DEFINE Best(n) == CHOOSE f : Fits(f, n)
           F == [x \in Nat |-> Best(x)[x]]
<1>3. ASSUME NEW n \in Nat PROVE Fits(Best(n), n)
  <2> HIDE DEF Fits
  <2> QED
    BY <1>1, Zenon
<1> HIDE DEF Best
<1>4. ASSUME NEW x \in Nat PROVE F[x] = IF x = 0 THEN 1 ELSE 2 * F[x \div 2]
  <2>1. Best(x)[x] = IF x = 0 THEN 1 ELSE 2 * Best(x)[x \div 2]
    BY <1>3
  <2>2. x # 0 => x \div 2 \in Nat /\ x \div 2 \in 0 .. x
    BY Halved
  <2>3. x # 0 => Best(x)[x \div 2] = Best(x \div 2)[x \div 2]
    <3> HIDE DEF Fits
    <3>1. \A y \in Nat : Fits(Best(y), y)
      BY <1>3
    <3>2. x # 0 => x \div 2 <= x \div 2
      BY <2>2
    <3> QED
      BY <1>2, <2>2, <3>1, <3>2
  <2> QED
    BY <2>1, <2>2, <2>3
<1>5. F = [x \in Nat |-> IF x = 0 THEN 1 ELSE 2 * F[x \div 2]]
  BY <1>4
<1>6. NextPower = [x \in Nat |-> IF x = 0 THEN 1 ELSE 2 * NextPower[x \div 2]]
  <2> HIDE DEF F
  <2> QED
    BY <1>5, Zenon DEF NextPower
<1> QED
  BY <1>6

(* The powers of two.                                                      *)
Powers == {NextPower[x] : x \in Nat}

(* A power lies above its number and doubles.                              *)
LEMMA PowerAbove ==
  ASSUME NEW n \in Nat
  PROVE  NextPower[n] \in Nat /\ n < NextPower[n]
<1> DEFINE T == {x \in Nat : ~(NextPower[x] \in Nat /\ x < NextPower[x])}
<1>1. ASSUME T # {} PROVE FALSE
  <2>1. T \in SUBSET Nat
    OBVIOUS
  <2>2. PICK x \in T : \A y \in T : x <= y
    <3> HIDE DEF T
    <3> QED
      BY <1>1, <2>1, LeastNatural
  <2>3. x \in Nat /\ NextPower[x] = IF x = 0 THEN 1 ELSE 2 * NextPower[x \div 2]
    BY NextPowerDefined
  <2>4. x # 0
    BY <2>2, <2>3
  <2>5. x \div 2 \in Nat /\ x \div 2 < x /\ x < 2 * (x \div 2) + 2
    BY <2>3, <2>4, Halved
  <2>6. NextPower[x \div 2] \in Nat /\ x \div 2 < NextPower[x \div 2]
    BY <2>2, <2>3, <2>5
  <2>7. NextPower[x] = 2 * NextPower[x \div 2]
    BY <2>3, <2>4
  <2>8. x < NextPower[x] /\ NextPower[x] \in Nat
    <3> DEFINE h == x \div 2
               p == NextPower[h]
    <3> HIDE DEF h, p
    <3>1. h \in Nat /\ p \in Nat /\ h < p /\ x < 2 * h + 2 /\ NextPower[x] = 2 * p /\ x \in Nat
      BY <2>3, <2>5, <2>6, <2>7 DEF h, p
    <3> QED
      BY <3>1
  <2> QED
    BY <2>2, <2>8
<1> QED
  BY <1>1

(* A number is filled to a power of two that is no less.                   *)
LEMMA FilledIsPower ==
  ASSUME NEW n \in Nat
  PROVE  fill_to_power_of_two(n) \in Powers /\ fill_to_power_of_two(n) \in Nat \ {0} /\ n <= fill_to_power_of_two(n)
<1> DEFINE p == NextPower[n]
<1>1. p \in Nat /\ n < p
  BY PowerAbove
<1>2. p = IF n = 0 THEN 1 ELSE 2 * NextPower[n \div 2]
  BY NextPowerDefined
<1>3. fill_to_power_of_two(n) = IF p = 2 * n THEN n ELSE p
  BY DEF fill_to_power_of_two, get_next_power_of_two
<1>4. p \in Powers
  BY DEF Powers
<1>5. CASE p = 2 * n
  <2>1. n # 0
    BY <1>1, <1>5
  <2>2. n \div 2 \in Nat
    BY <2>1, Halved
  <2>3. NextPower[n \div 2] \in Nat
    BY <2>2, PowerAbove
  <2>4. n = NextPower[n \div 2]
    <3> DEFINE q == NextPower[n \div 2]
    <3> HIDE DEF p, q
    <3>1. q \in Nat /\ p = 2 * q
      BY <1>2, <2>1, <2>3 DEF q
    <3>2. q = n
      BY <1>5, <3>1
    <3> QED
      BY <3>2 DEF q
  <2> QED
    BY <1>3, <1>5, <2>1, <2>2, <2>4 DEF Powers
<1>6. CASE p # 2 * n
  BY <1>1, <1>3, <1>4, <1>6
<1> QED
  BY <1>5, <1>6

(* A smaller power divides a larger one.                                   *)
LEMMA PowersDivide ==
  ASSUME NEW p \in Powers, NEW q \in Powers, p <= q
  PROVE  \E k \in Nat : q = k * p
<1> DEFINE Divides(y, x) == \E k \in Nat : NextPower[x] = k * NextPower[y]
           T == {x \in Nat : \E y \in Nat : NextPower[y] <= NextPower[x] /\ ~Divides(y, x)}
<1>1. ASSUME T # {} PROVE FALSE
  <2>1. T \in SUBSET Nat
    OBVIOUS
  <2>2. PICK x \in T : \A y \in T : x <= y
    <3> HIDE DEF T
    <3> QED
      BY <1>1, <2>1, LeastNatural
  <2>3. PICK y \in Nat : NextPower[y] <= NextPower[x] /\ ~Divides(y, x)
    BY <2>2
  <2>4. /\ x \in Nat /\ NextPower[x] = IF x = 0 THEN 1 ELSE 2 * NextPower[x \div 2]
        /\ NextPower[y] = IF y = 0 THEN 1 ELSE 2 * NextPower[y \div 2]
        /\ NextPower[x] \in Nat /\ NextPower[y] \in Nat /\ y < NextPower[y]
    BY NextPowerDefined, PowerAbove
  <2>5. CASE NextPower[y] = 1
    <3>1. NextPower[x] = NextPower[x] * 1
      BY <2>4
    <3> QED
      BY <2>3, <2>4, <2>5, <3>1
  <2>6. CASE NextPower[y] # 1
    <3>1. x # 0 /\ y # 0
      BY <2>3, <2>4, <2>6
    <3> DEFINE h == x \div 2
               i == y \div 2
               a == NextPower[h]
               b == NextPower[i]
    <3>2. h \in Nat /\ h < x /\ i \in Nat
      BY <2>4, <3>1, Halved
    <3>3. a \in Nat /\ b \in Nat
      BY <3>2, PowerAbove
    <3>4. NextPower[x] = 2 * a /\ NextPower[y] = 2 * b
      BY <2>4, <3>1
    <3>5. h \notin T
      <4> HIDE DEF T, h
      <4> QED
        BY <2>1, <2>2, <3>2
    <3>6. b <= a
      <4> HIDE DEF a, b
      <4> QED
        BY <2>3, <3>3, <3>4
    <3>7. PICK k \in Nat : a = k * b
      <4> HIDE DEF h, i
      <4> QED
        BY <3>2, <3>5, <3>6
    <3>8. 2 * a = k * (2 * b)
      <4> HIDE DEF a, b
      <4> QED
        BY <3>3, <3>7
    <3> QED
      BY <2>3, <3>4, <3>8
  <2> QED
    BY <2>5, <2>6
<1>2. PICK x \in Nat, y \in Nat : p = NextPower[y] /\ q = NextPower[x]
  BY DEF Powers
<1>3. x \notin T
  BY <1>1
<1> QED
  BY <1>2, <1>3

(* What is a multiple of a multiple leaves no remainder.                   *)
LEMMA MultipleRest ==
  ASSUME NEW a \in Nat \ {0}, NEW k \in Nat, NEW i \in Nat
  PROVE  ((k * a) * i) % a = 0
<1> DEFINE n == (k * a) * i
           d == n \div a
           m == n % a
<1>1. n \in Nat /\ n = (k * i) * a /\ k * i \in Nat
  OBVIOUS
<1> HIDE DEF n
<1>2. d \in Nat /\ m \in Nat /\ m < a /\ n = a * d + m
  BY <1>1
<1> HIDE DEF d, m
<1> DEFINE e == k * i - d
<1>3. e \in Int /\ m = e * a
  BY <1>1, <1>2
<1> HIDE DEF e
<1>4. e = 0
  <2>1. CASE e >= 1
    <3>1. e * a >= a
      BY <1>3, <2>1
    <3> QED
      BY <1>2, <1>3, <3>1
  <2>2. CASE e <= -1
    <3>1. e * a <= -a
      BY <1>3, <2>2
    <3> QED
      BY <1>2, <1>3, <3>1
  <2> QED
    BY <1>3, <2>1, <2>2
<1> QED
  BY <1>3, <1>4 DEF m, n

(* fill_to rounds up to a multiple.                                        *)
LEMMA FilledTo ==
  ASSUME NEW s \in Nat, NEW w \in Nat
  PROVE  /\ fill_to(s, w) \in Nat /\ s <= fill_to(s, w)
         /\ w # 0 => \E k \in Nat : fill_to(s, w) = k * w
<1>1. CASE w \in {0, 1}
  <2>1. s = s * 1
    OBVIOUS
  <2> QED
    BY <1>1, <2>1 DEF fill_to
<1>2. CASE w \notin {0, 1}
  <2> DEFINE n == s + w - 1
             k == n \div w
             r == n % w
  <2>1. n \in Nat /\ w > 0
    BY <1>2
  <2>2. k \in Nat /\ r \in Nat /\ r < w /\ n = w * k + r
    <3> HIDE DEF n
    <3> QED
      BY <2>1
  <2>3. fill_to(s, w) = k * w
    BY <1>2 DEF fill_to
  <2> HIDE DEF k, r
  <2>4. k * w \in Nat /\ s <= k * w
    <3>1. k * w \in Nat /\ k * w = w * k
      BY <2>2
    <3> QED
      BY <2>1, <2>2, <3>1
  <2> QED
    BY <2>2, <2>3, <2>4
<1> QED
  BY <1>1, <1>2

(* The lesser of two numbers.                                              *)
LEMMA MinOfTwo ==
  ASSUME NEW a \in Nat, NEW b \in Nat
  PROVE  Min({a, b}) = IF a <= b THEN a ELSE b
<1> DEFINE m == IF a <= b THEN a ELSE b
<1>1. m \in {a, b} /\ \A y \in {a, b} : m <= y
  OBVIOUS
<1>2. \A x \in {a, b} : (\A y \in {a, b} : x <= y) => x = m
  OBVIOUS
<1> HIDE DEF m
<1>3. Min({a, b}) = m
  BY <1>1, <1>2 DEF Min
<1> QED
  BY <1>3 DEF m

(* What a value of size s takes is no less than s, and a multiple of its   *)
(* alignment: if the power of two is the lesser rounding both are it or    *)
(* the word divides it, else both are multiples of the word.               *)
LEMMA AlignedApart ==
  ASSUME NEW s \in Nat, NEW w \in Nat, NEW A, A = Min({fill_to_power_of_two(s), fill_to(s, w)})
  PROVE  /\ A \in Nat /\ s <= A
         /\ w \in Powers => LET a == Min({fill_to_power_of_two(s), w}) IN
              a \in Nat \ {0} /\ \E k \in Nat : A = k * a
<1> DEFINE p == fill_to_power_of_two(s)
           f == fill_to(s, w)
           a == Min({p, w})
<1>1. p \in Powers /\ p \in Nat \ {0} /\ s <= p
  BY FilledIsPower
<1>2. f \in Nat /\ s <= f /\ (w # 0 => \E k \in Nat : f = k * w)
  BY FilledTo
<1> HIDE DEF p, f
<1>3. A = IF p <= f THEN p ELSE f
  BY <1>1, <1>2, MinOfTwo DEF p, f
<1>4. ASSUME w \in Powers PROVE a \in Nat \ {0} /\ \E k \in Nat : A = k * a
  <2>1. w \in Nat \ {0}
    BY <1>4, PowerAbove DEF Powers
  <2>2. a = IF p <= w THEN p ELSE w
    BY <1>1, MinOfTwo
  <2>3. PICK k \in Nat : f = k * w
    BY <1>2, <2>1
  <2>4. CASE p <= w
    <3>1. CASE k = 0
      <4>1. f = 0
        BY <2>1, <2>3, <3>1
      <4>2. A = 0 /\ 0 = 0 * a
        BY <1>1, <1>3, <2>2, <2>4, <4>1
      <4> QED
        BY <1>1, <2>2, <2>4, <4>2
    <3>2. CASE k # 0
      <4>1. w <= f
        BY <2>1, <2>3, <3>2
      <4>2. A = p /\ a = p /\ p = 1 * p
        BY <1>1, <1>2, <1>3, <2>1, <2>2, <2>4, <4>1
      <4> QED
        BY <1>1, <4>2
    <3> QED
      BY <3>1, <3>2
  <2>5. CASE ~(p <= w)
    <3>1. a = w
      BY <2>2, <2>5
    <3>2. PICK j \in Nat : p = j * w
      <4>1. w <= p /\ w \in Powers /\ p \in Powers
        BY <1>1, <1>4, <2>1, <2>5
      <4> HIDE DEF a
      <4> QED
        BY <4>1, PowersDivide
    <3>3. A = j * w \/ A = k * w
      BY <1>3, <2>3, <3>2
    <3> QED
      BY <2>1, <3>1, <3>3
  <2> QED
    BY <2>4, <2>5
<1> QED
  BY <1>1, <1>2, <1>3, <1>4 DEF a, p

(* The word of a context is a power of two.                                *)
LEMMA WordIsPower ==
  Word \in Powers /\ Word % 256 = Word /\ GlobalWord % 256 \in Nat
<1>1. Word \in 0 .. 255 /\ fill_to_power_of_two(Word) = Word /\ GlobalWord \in Nat
  BY WordsAssumption
<1>2. \A n \in 0 .. 255 : n % 256 = n
  OBVIOUS
<1>3. \A n \in Nat : n % 256 \in Nat
  OBVIOUS
<1> QED
  BY <1>1, <1>2, <1>3, FilledIsPower


(* The size of a type depends on the sizes of earlier ones.                *)
LEMMA SizeLocal ==
  ASSUME Founded(obj), NEW t \in 1 .. Len(obj), NEW f, NEW g,
         \A u \in 1 .. Len(obj) : u < t => f[u] = g[u]
  PROVE  get_instance_size(f, t) = get_instance_size(g, t)
<1>1. obj[t].id \in Derived => f[obj[t].base] = g[obj[t].base]
  BY FieldsOf
<1> QED
  BY <1>1 DEF get_instance_size, Derived

(* There is a function that the sizes are.                                 *)
LEMMA SizeDefined ==
  ASSUME Founded(obj)
  PROVE  instance_size = [t \in 1 .. Len(obj) |-> get_instance_size(instance_size, t)]
<1> DEFINE Upto(k) == \E f : f = [t \in 1 .. k |-> get_instance_size(f, t)]
           T == {k \in 0 .. Len(obj) : ~Upto(k)}
<1>0. Len(obj) \in Nat /\ DOMAIN obj = 1 .. Len(obj)
  BY DEF Founded
<1>1. ASSUME T # {} PROVE FALSE
  <2>0. T \in SUBSET Nat
    BY <1>0
  <2>1. PICK k \in T : \A j \in T : k <= j
    <3> HIDE DEF T
    <3> QED
      BY <1>1, <2>0, LeastNatural
  <2>2. k # 0
    <3>1. [t \in 1 .. 0 |-> 0] = [t \in 1 .. 0 |-> get_instance_size([u \in 1 .. 0 |-> 0], t)]
      OBVIOUS
    <3> QED
      BY <3>1, <2>1
  <2>3. k \in 1 .. Len(obj) /\ Upto(k - 1)
    BY <1>0, <2>1, <2>2
  <2>4. PICK f : f = [t \in 1 .. k - 1 |-> get_instance_size(f, t)]
    BY <2>3
  <2> DEFINE g == [t \in 1 .. k |-> get_instance_size(f, t)]
  <2>5. \A t \in 1 .. k - 1 : f[t] = g[t]
    BY <2>3, <2>4
  <2>6. \A t \in 1 .. k : get_instance_size(f, t) = get_instance_size(g, t)
    <3> HIDE DEF g
    <3> SUFFICES ASSUME NEW t \in 1 .. k PROVE get_instance_size(f, t) = get_instance_size(g, t)
      OBVIOUS
    <3>1. k \in Nat /\ k <= Len(obj) /\ t \in 1 .. Len(obj)
      BY <1>0, <2>3
    <3>2. \A u \in 1 .. Len(obj) : u < t => f[u] = g[u]
      BY <1>0, <2>5, <3>1
    <3> QED
      BY <3>1, <3>2, SizeLocal
  <2>7. g = [t \in 1 .. k |-> get_instance_size(g, t)]
    BY <2>6
  <2> QED
    BY <2>1, <2>7
<1>2. PICK f : f = [t \in 1 .. Len(obj) |-> get_instance_size(f, t)]
  BY <1>0, <1>1
<1>3. f = [t \in DOMAIN obj |-> get_instance_size(f, t)]
  BY <1>0, <1>2
<1>4. instance_size = [t \in DOMAIN obj |-> get_instance_size(instance_size, t)]
  BY <1>3, Zenon DEF instance_size
<1> QED
  BY <1>0, <1>4


(* The size of a type, by its class.                                       *)
SizeAt(size, t) ==
  /\ obj[t].id \in {"int", "float"} => size[t] = bit_to_byte(obj[t].bits)
  /\ obj[t].id = "pointer" => size[t] = machine_word_size(t)
  /\ obj[t].id = "array" => size[t] = Aligned(obj[t].base, size[obj[t].base]) * obj[t].len
  /\ obj[t].id \in {"void", "function"} => size[t] = 0

(* Every type has the size its class says.                                 *)
LEMMA SizeIs ==
  ASSUME Founded(obj), NEW t \in 1 .. Len(obj)
  PROVE  SizeAt(instance_size, t)
<1>1. instance_size[t] = get_instance_size(instance_size, t)
  BY SizeDefined, Zenon
<1> QED
  BY <1>1, Zenon DEF SizeAt, get_instance_size

(* The word of a type, and of one with a context.                          *)
LEMMA WordOf ==
  ASSUME NEW t
  PROVE  machine_word_size(t) \in Nat /\ (obj[t].context => machine_word_size(t) \in Powers)
<1>1. machine_word_size(t) = Word % 256 \/ (~obj[t].context /\ machine_word_size(t) = GlobalWord % 256)
  BY DEF machine_word_size
<1>2. Word \in Nat
  BY WordsAssumption
<1> QED
  BY <1>1, <1>2, WordIsPower

(* Sizes are numbers: that of an array, the number of its elements times   *)
(* what one takes.                                                         *)
LEMMA SizesNatural ==
  ASSUME Founded(obj)
  PROVE  \A t \in 1 .. Len(obj) : instance_size[t] \in Nat
<1> DEFINE size == instance_size
           T == {t \in 1 .. Len(obj) : size[t] \notin Nat}
<1>0. \A t \in 1 .. Len(obj) : SizeAt(size, t)
  BY SizeIs
<1> HIDE DEF size
<1>1. ASSUME T # {} PROVE FALSE
  <2>1. T \in SUBSET Nat /\ Len(obj) \in Nat
    BY DEF Founded
  <2>2. PICK t \in T : \A u \in T : t <= u
    <3> HIDE DEF T
    <3> QED
      BY <1>1, <2>1, LeastNatural
  <2>3. t \in 1 .. Len(obj) /\ size[t] \notin Nat
    BY <2>2
  <2>4. /\ obj[t] \in Fields
        /\ obj[t].id \in {"void", "int", "float", "pointer", "array", "function"}
        /\ obj[t].id = "array" => obj[t].base \in 1 .. Len(obj) /\ obj[t].base < t
    BY <2>3, FieldsOf DEF Derived
  <2>5. obj[t].bits \in Nat /\ obj[t].len \in Nat
    BY <2>4 DEF Fields, Spans
  <2>6. bit_to_byte(obj[t].bits) \in Nat
    <3>1. \A n \in Nat : (n + 7) \div 8 \in Nat
      OBVIOUS
    <3> QED
      BY <2>5, <3>1 DEF bit_to_byte
  <2>7. machine_word_size(t) \in Nat
    BY WordOf
  <2>8. CASE obj[t].id = "array"
    <3> DEFINE b == obj[t].base
               A == Aligned(b, size[b])
    <3>1. size[t] = A * obj[t].len
      BY <1>0, <2>3, <2>8 DEF SizeAt
    <3>2. b \notin T /\ b \in 1 .. Len(obj)
      <4> HIDE DEF T
      <4>1. b \in 1 .. Len(obj) /\ b < t
        BY <2>4, <2>8
      <4> QED
        BY <2>1, <2>2, <2>3, <4>1
    <3>3. size[b] \in Nat
      BY <3>2
    <3>4. A \in Nat
      <4> DEFINE s == size[b]
                 w == machine_word_size(b)
      <4>1. A = Min({fill_to_power_of_two(s), fill_to(s, w)})
        BY DEF Aligned
      <4>2. w \in Nat
        BY WordOf
      <4> HIDE DEF A, s, w
      <4>3. s \in Nat
        BY <3>3 DEF s
      <4> QED
        BY <4>1, <4>2, <4>3, AlignedApart
    <3> QED
      <4> HIDE DEF A
      <4> QED
        BY <2>3, <2>5, <3>1, <3>4
  <2>9. CASE obj[t].id # "array"
    BY <1>0, <2>3, <2>4, <2>6, <2>7, <2>9 DEF SizeAt
  <2> QED
    BY <2>8, <2>9
<1> QED
  BY <1>1 DEF size

(* The elements of one array are aligned, apart and inside: what one takes *)
(* is no less than its size, and a multiple of its alignment.              *)
LEMMA LaidOut ==
  ASSUME Founded(obj), NEW t \in 1 .. Len(obj), obj[t].id = "array"
  PROVE  LET elem == obj[t].base IN
         /\ obj[t].len > 0 => indexGetEndOffset(t, obj[t].len - 1) <= instance_size[t]
         /\ \A i \in 0..(obj[t].len - 1) :
              /\ indexGetEndOffset(t, i) <= indexGetStartOffset(t, i + 1)
              /\ obj[elem].context /\ instance_align(elem) > 0
                   => indexGetStartOffset(t, i) % instance_align(elem) = 0
<1> DEFINE b == obj[t].base
           s == instance_size[b]
           w == machine_word_size(b)
           A == Aligned(b, s)
           n == obj[t].len
           a == Min({fill_to_power_of_two(s), w})
<1>1. b \in 1 .. Len(obj) /\ n \in Nat
  BY FieldsOf DEF Derived, Fields, Spans
<1>2. s \in Nat /\ w \in Nat
  BY <1>1, SizesNatural, WordOf
<1>3. A = Min({fill_to_power_of_two(s), fill_to(s, w)})
  BY DEF Aligned
<1>4. instance_size[t] = A * n
  BY SizeIs DEF SizeAt
<1>5. \A i : indexGetStartOffset(t, i) = A * i /\ indexGetEndOffset(t, i) = A * i + s
  BY DEF indexGetStartOffset, indexGetEndOffset, getAlignedSize
<1>6. obj[b].context => w \in Powers
  BY WordOf
<1>7. /\ obj[b].id \in {"int", "float", "array"} => instance_align(b) = a
      /\ obj[b].id = "pointer" => instance_align(b) = w /\ s = w
      /\ obj[b].id \in {"void", "function"} => instance_align(b) = 0
  <2>1. obj[b].id = "pointer" => s = w
    BY <1>1, SizeIs DEF SizeAt
  <2>2. /\ obj[b].id \in {"int", "float", "array"} => instance_align(b) = a
        /\ obj[b].id = "pointer" => instance_align(b) = w
        /\ obj[b].id \in {"void", "function"} => instance_align(b) = 0
    BY Zenon DEF instance_align
  <2> QED
    BY <2>1, <2>2
<1>8. obj[b].id \in {"void", "int", "float", "pointer", "array", "function"}
  BY <1>1, FieldsOf
<1>9. A \in Nat /\ s <= A /\ (w \in Powers => a \in Nat \ {0} /\ \E k \in Nat : A = k * a)
  <2> HIDE DEF s, w, A
  <2> QED
    BY <1>2, <1>3, AlignedApart
<1>10. s = w /\ w \in Powers => a = w
  <2>1. ASSUME s = w, w \in Powers PROVE a = w
    <3> DEFINE p == fill_to_power_of_two(s)
    <3>1. p \in Nat /\ s <= p
      <4> HIDE DEF s
      <4> QED
        BY <1>2, FilledIsPower
    <3> HIDE DEF s, w, p
    <3> QED
      BY <1>2, <2>1, <3>1, MinOfTwo DEF p
  <2> QED
    BY <2>1
<1> HIDE DEF b, s, w, A, n, a
<1>11. \A i \in Nat : A * i + s <= A * (i + 1)
  <2> SUFFICES ASSUME NEW i \in Nat PROVE A * i + s <= A * (i + 1)
    OBVIOUS
  <2>1. A * (i + 1) = A * i + A
    BY <1>9
  <2> QED
    BY <1>2, <1>9, <2>1
<1>12. n > 0 => indexGetEndOffset(t, n - 1) <= instance_size[t]
  <2>1. n > 0 => n - 1 \in Nat /\ (n - 1) + 1 = n
    BY <1>1
  <2> QED
    BY <1>4, <1>5, <1>11, <2>1
<1>13. ASSUME NEW i \in 0 .. (n - 1)
       PROVE  /\ indexGetEndOffset(t, i) <= indexGetStartOffset(t, i + 1)
              /\ obj[b].context /\ instance_align(b) > 0
                   => indexGetStartOffset(t, i) % instance_align(b) = 0
  <2>1. i \in Nat
    BY <1>1
  <2>2. indexGetEndOffset(t, i) <= indexGetStartOffset(t, i + 1)
    BY <1>5, <1>11, <2>1
  <2>3. ASSUME obj[b].context, instance_align(b) > 0
        PROVE  indexGetStartOffset(t, i) % instance_align(b) = 0
    <3>1. w \in Powers /\ instance_align(b) = a
      BY <1>6, <1>7, <1>8, <1>10, <2>3
    <3>2. PICK k \in Nat : A = k * a
      BY <1>9, <3>1
    <3>3. a \in Nat \ {0}
      BY <1>9, <3>1
    <3>4. ((k * a) * i) % a = 0
      BY <2>1, <3>3, MultipleRest
    <3> QED
      BY <1>5, <3>1, <3>2, <3>4
  <2> QED
    BY <2>2, <2>3
<1> QED
  BY <1>12, <1>13 DEF b, n

(* In an array of any nesting every element starts where its type may be,  *)
(* none reaches into the next and the last one ends inside, whatever types *)
(* were asked for and however large the words are.                         *)
THEOREM ElementsLieApart ==
  ContextSpec => []ElementsApart
<1>1. TypesInv => ElementsApart
  <2> SUFFICES ASSUME TypesInv PROVE ElementsApart
    OBVIOUS
  <2>1. Range(ity_map) \subseteq 1 .. Len(obj)
    BY DEF TypesInv, Mapped, Range
  <2>2. Held = 1 .. Len(obj)
    BY <2>1 DEF TypesInv, Held
  <2>3. Founded(obj)
    BY DEF TypesInv
  <2> QED
    BY <2>2, <2>3, LaidOut, Zenon DEF ElementsApart
<1> QED
  BY <1>1, TypesInit, TypesStep, PTL DEF ContextSpec
=============================================================================
