-------------------------- MODULE AssetManagerProofs ------------------------
(***************************************************************************)
(* Proofs about AssetManager and Database, for any number of handles,      *)
(* statements and connections.                                             *)
(***************************************************************************)
EXTENDS AssetManager, FiniteSetTheorems, TLAPS

(***************************************************************************)
(* The database objects                                                    *)
(***************************************************************************)
HandleType == [refs : Nat, conn : Conns \cup {NULL}]
StmtType == [refs : 0 .. 1, db : Handles \cup {NULL}, conn : Conns \cup {NULL}]
ObjType == [handles : [Handles -> HandleType], stmts : [Stmts -> StmtType],
            conns : SUBSET Conns]

StmtsOf(o, h) == {s \in Stmts : o.stmts[s].refs > 0 /\ o.stmts[s].db = h}

(* What is free holds no connection, no two handles share one, sqlite3     *)
(* keeps open those the handles know, and a statement has its handle's.    *)
Sound(o) ==
  /\ o \in ObjType
  /\ \A h \in Handles : o.handles[h].refs = 0 => o.handles[h].conn = NULL
  /\ \A s \in Stmts : o.stmts[s].refs = 0 => o.stmts[s].conn = NULL
  /\ \A g, h \in Handles :
       o.handles[g].conn # NULL /\ o.handles[g].conn = o.handles[h].conn => g = h
  /\ \A h \in Handles : o.handles[h].conn # NULL => o.handles[h].conn \in o.conns
  /\ \A c \in o.conns : \E h \in Handles : o.handles[h].conn = c
  /\ \A s \in Stmts : o.stmts[s].refs > 0 =>
       /\ o.stmts[s].db \in Handles /\ o.stmts[s].conn # NULL
       /\ o.handles[o.stmts[s].db].conn = o.stmts[s].conn

(* own[h] references on handle h are held by others than statements.       *)
Exact(o, own) ==
  /\ Sound(o) /\ own \in [Handles -> Nat]
  /\ \A h \in Handles : o.handles[h].refs = Cardinality(StmtsOf(o, h)) + own[h]


LEMMA ObjTyped ==
  ASSUME NEW o \in ObjType
  PROVE  /\ o.handles \in [Handles -> HandleType] /\ o.stmts \in [Stmts -> StmtType]
         /\ o.conns \subseteq Conns
         /\ \A h \in Handles : o.handles[h].refs \in Nat /\ o.handles[h].conn \in Conns \cup {NULL}
         /\ \A s \in Stmts : /\ o.stmts[s].refs \in 0 .. 1
                             /\ o.stmts[s].db \in Handles \cup {NULL}
                             /\ o.stmts[s].conn \in Conns \cup {NULL}
<1>1. /\ o.handles \in [Handles -> HandleType] /\ o.stmts \in [Stmts -> StmtType]
      /\ o.conns \subseteq Conns
  BY DEF ObjType
<1>2. \A h \in Handles : o.handles[h].refs \in Nat /\ o.handles[h].conn \in Conns \cup {NULL}
  BY <1>1 DEF HandleType
<1>3. \A s \in Stmts : /\ o.stmts[s].refs \in 0 .. 1
                       /\ o.stmts[s].db \in Handles \cup {NULL}
                       /\ o.stmts[s].conn \in Conns \cup {NULL}
  BY <1>1 DEF StmtType
<1> QED BY <1>1, <1>2, <1>3

LEMMA StmtsOfFinite ==
  ASSUME NEW o, NEW h
  PROVE  IsFiniteSet(StmtsOf(o, h)) /\ Cardinality(StmtsOf(o, h)) \in Nat
<1>1. StmtsOf(o, h) \in SUBSET Stmts
  BY DEF StmtsOf
<1> QED BY <1>1, DatabaseAssumption, FS_Subset, FS_CardinalityType

(* A change of one handle and of the set of connections.                   *)
HandleSet(o, p, h, r, c, cs) ==
  /\ p \in ObjType /\ p.handles[h].refs = r /\ p.handles[h].conn = c
  /\ \A g \in Handles \ {h} : p.handles[g] = o.handles[g]
  /\ p.stmts = o.stmts /\ p.conns = cs

LEMMA HandleSetFacts ==
  ASSUME NEW o \in ObjType, NEW h \in Handles, NEW x \in HandleType, NEW cs \in SUBSET Conns,
         NEW p, p = [o EXCEPT !.handles = [o.handles EXCEPT ![h] = x], !.conns = cs]
  PROVE  HandleSet(o, p, h, x.refs, x.conn, cs)
<1>1. PICK hs \in [Handles -> HandleType] : hs = [o.handles EXCEPT ![h] = x]
  BY ObjTyped
<1>2. hs[h] = x /\ \A g \in Handles \ {h} : hs[g] = o.handles[g]
  BY <1>1, ObjTyped
<1>3. p = [o EXCEPT !.handles = hs, !.conns = cs]
  BY <1>1
<1>4. p \in ObjType /\ p.handles = hs /\ p.stmts = o.stmts /\ p.conns = cs
  BY <1>3 DEF ObjType
<1> QED BY <1>2, <1>4 DEF HandleSet

LEMMA NewHandleEffect ==
  ASSUME NEW o \in ObjType, NEW h \in Handles
  PROVE  HandleSet(o, NewHandle(o, h), h, 1, NULL, o.conns)
<1> DEFINE x == [NoHandle EXCEPT !.refs = 1]
<1>1. x \in HandleType /\ x.refs = 1 /\ x.conn = NULL
  BY DEF NoHandle, HandleType
<1>2. o.conns \in SUBSET Conns
  BY ObjTyped
<1> HIDE DEF x
<1>3. NewHandle(o, h) = [o EXCEPT !.handles = [o.handles EXCEPT ![h] = x], !.conns = o.conns]
  BY DEF NewHandle, ObjType, x
<1> QED BY <1>1, <1>2, <1>3, HandleSetFacts

LEMMA OpenEffect ==
  ASSUME NEW o \in ObjType, NEW h \in Handles, FreeConns(o) # {}
  PROVE  \E c \in Conns \ o.conns :
           HandleSet(o, Open(o, h), h, o.handles[h].refs, c, o.conns \cup {c})
<1>1. PICK c \in FreeConns(o) : c = CHOOSE k \in FreeConns(o) : TRUE
  OBVIOUS
<1>2. c \in Conns \ o.conns
  BY DEF FreeConns
<1> DEFINE x == [o.handles[h] EXCEPT !.conn = c]
<1>3. x \in HandleType /\ x.refs = o.handles[h].refs /\ x.conn = c
  BY <1>2, ObjTyped DEF HandleType
<1>4. Open(o, h) = [o EXCEPT !.handles = [o.handles EXCEPT ![h] = x],
                             !.conns = o.conns \cup {c}]
  BY <1>1 DEF Open, ObjType
<1> HIDE DEF x
<1>5. o.conns \cup {c} \in SUBSET Conns
  BY <1>2, ObjTyped
<1> QED BY <1>2, <1>3, <1>4, <1>5, HandleSetFacts

LEMMA CloseEffect ==
  ASSUME NEW o \in ObjType, NEW h \in Handles
  PROVE  LET conn == o.handles[h].conn
         IN  \/ (conn = NULL \/ Busy(o, conn)) /\ Close(o, h) = o
             \/ /\ conn # NULL /\ ~Busy(o, conn)
                /\ HandleSet(o, Close(o, h), h, o.handles[h].refs, NULL, o.conns \ {conn})
<1> DEFINE conn == o.handles[h].conn
<1>1. CASE conn = NULL \/ Busy(o, conn)
  BY <1>1 DEF Close
<1>2. CASE conn # NULL /\ ~Busy(o, conn)
  <2> DEFINE x == [o.handles[h] EXCEPT !.conn = NULL]
  <2>1. x \in HandleType /\ x.refs = o.handles[h].refs /\ x.conn = NULL
    BY ObjTyped DEF HandleType
  <2>2. Close(o, h) = [o EXCEPT !.handles = [o.handles EXCEPT ![h] = x],
                                !.conns = o.conns \ {conn}]
    BY <1>2 DEF Close, ObjType
  <2>3. o.conns \ {conn} \in SUBSET Conns
    BY ObjTyped
  <2> HIDE DEF x, conn
  <2>4. HandleSet(o, Close(o, h), h, x.refs, x.conn, o.conns \ {conn})
    BY <2>1, <2>2, <2>3, HandleSetFacts
  <2> QED BY <1>2, <2>1, <2>4 DEF conn
<1> QED BY <1>1, <1>2

(* A change of one handle that keeps the objects exact.                    *)
LEMMA HandleExact ==
  ASSUME NEW o, NEW own, Exact(o, own), NEW p, NEW h \in Handles, NEW r \in Nat,
         NEW c \in Conns \cup {NULL}, NEW cs, HandleSet(o, p, h, r, c, cs),
         NEW k \in Nat, r = Cardinality(StmtsOf(o, h)) + k,
         r = 0 => c = NULL,
         StmtsOf(o, h) # {} => c = o.handles[h].conn,
         \/ c = o.handles[h].conn /\ cs = o.conns
         \/ c = NULL /\ cs = o.conns \ {o.handles[h].conn}
         \/ o.handles[h].conn = NULL /\ c \in Conns \ o.conns /\ cs = o.conns \cup {c}
  PROVE  Exact(p, [own EXCEPT ![h] = k])
<1>0. /\ Sound(o) /\ o \in ObjType /\ own \in [Handles -> Nat]
      /\ p \in ObjType /\ p.handles[h].refs = r /\ p.handles[h].conn = c
      /\ \A g \in Handles \ {h} : p.handles[g] = o.handles[g]
      /\ p.stmts = o.stmts /\ p.conns = cs
  BY DEF Exact, Sound, HandleSet
<1>1. \A g : StmtsOf(p, g) = StmtsOf(o, g)
  BY <1>0 DEF StmtsOf
<1>2. \A g \in Handles : p.handles[g].refs = 0 => p.handles[g].conn = NULL
  BY <1>0 DEF Sound
<1>3. \A s \in Stmts : p.stmts[s].refs = 0 => p.stmts[s].conn = NULL
  BY <1>0 DEF Sound
<1>4. \A f, g \in Handles :
        p.handles[f].conn # NULL /\ p.handles[f].conn = p.handles[g].conn => f = g
  BY <1>0 DEF Sound
<1>5. \A g \in Handles : p.handles[g].conn # NULL => p.handles[g].conn \in p.conns
  <2> SUFFICES ASSUME NEW g \in Handles, p.handles[g].conn # NULL
               PROVE  p.handles[g].conn \in cs
    BY <1>0
  <2>1. CASE g = h
    BY <1>0, <2>1 DEF Sound
  <2>2. CASE g # h
    <3>1. p.handles[g].conn = o.handles[g].conn /\ o.handles[g].conn \in o.conns
      BY <1>0, <2>2 DEF Sound
    <3>2. o.handles[g].conn # o.handles[h].conn
      BY <1>0, <2>2, <3>1 DEF Sound
    <3> QED BY <3>1, <3>2
  <2> QED BY <2>1, <2>2
<1>6. \A x \in p.conns : \E g \in Handles : p.handles[g].conn = x
  <2> SUFFICES ASSUME NEW x \in cs PROVE \E g \in Handles : p.handles[g].conn = x
    BY <1>0
  <2>1. CASE x = c
    BY <1>0, <2>1
  <2>2. CASE x # c
    <3>1. x \in o.conns /\ x # o.handles[h].conn
      BY <1>0, <2>2, ObjTyped, DatabaseAssumption
    <3>2. PICK g \in Handles : o.handles[g].conn = x
      BY <1>0, <3>1 DEF Sound
    <3> QED BY <1>0, <3>1, <3>2
  <2> QED BY <2>1, <2>2
<1>7. \A s \in Stmts : p.stmts[s].refs > 0 =>
        /\ p.stmts[s].db \in Handles /\ p.stmts[s].conn # NULL
        /\ p.handles[p.stmts[s].db].conn = p.stmts[s].conn
  <2> SUFFICES ASSUME NEW s \in Stmts, o.stmts[s].refs > 0
               PROVE  /\ o.stmts[s].db \in Handles /\ o.stmts[s].conn # NULL
                      /\ p.handles[o.stmts[s].db].conn = o.stmts[s].conn
    BY <1>0
  <2>1. /\ o.stmts[s].db \in Handles /\ o.stmts[s].conn # NULL
        /\ o.handles[o.stmts[s].db].conn = o.stmts[s].conn
    BY <1>0 DEF Sound
  <2>2. o.stmts[s].db = h => c = o.handles[h].conn
    BY DEF StmtsOf
  <2> QED BY <1>0, <2>1, <2>2
<1>8. Sound(p)
  BY <1>0, <1>2, <1>3, <1>4, <1>5, <1>6, <1>7 DEF Sound
<1> DEFINE own2 == [own EXCEPT ![h] = k]
<1>9. own2 \in [Handles -> Nat] /\ own2[h] = k /\ \A g \in Handles \ {h} : own2[g] = own[g]
  BY <1>0
<1> HIDE DEF own2
<1>10. \A g \in Handles : p.handles[g].refs = Cardinality(StmtsOf(p, g)) + own2[g]
  <2> TAKE g \in Handles
  <2>1. CASE g = h
    BY <1>0, <1>1, <1>9, <2>1
  <2>2. CASE g # h
    BY <1>0, <1>1, <1>9, <2>2 DEF Exact
  <2> QED BY <2>1, <2>2
<1>11. Exact(p, own2)
  BY <1>8, <1>9, <1>10 DEF Exact
<1> QED BY <1>11 DEF own2

LEMMA ExactFacts ==
  ASSUME NEW o, NEW own, Exact(o, own), NEW h \in Handles
  PROVE  /\ o \in ObjType /\ Sound(o) /\ own \in [Handles -> Nat] /\ own[h] \in Nat
         /\ o.handles[h].refs \in Nat /\ o.handles[h].conn \in Conns \cup {NULL}
         /\ Cardinality(StmtsOf(o, h)) \in Nat
         /\ o.handles[h].refs = Cardinality(StmtsOf(o, h)) + own[h]
         /\ Cardinality(StmtsOf(o, h)) = 0 => StmtsOf(o, h) = {}
<1>1. o \in ObjType /\ Sound(o) /\ own \in [Handles -> Nat] /\ own[h] \in Nat
  BY DEF Exact, Sound
<1>2. o.handles[h].refs = Cardinality(StmtsOf(o, h)) + own[h]
  BY DEF Exact
<1> QED BY <1>1, <1>2, ObjTyped, StmtsOfFinite, FS_EmptySet

LEMMA NewHandleExact ==
  ASSUME NEW o, NEW own, Exact(o, own), NEW h \in Handles, o.handles[h].refs = 0
  PROVE  /\ own[h] = 0 /\ Exact(NewHandle(o, h), [own EXCEPT ![h] = 1])
         /\ NewHandle(o, h).handles[h].refs = 1 /\ NewHandle(o, h).handles[h].conn = NULL
         /\ NewHandle(o, h).stmts = o.stmts /\ NewHandle(o, h).conns = o.conns
         /\ \A g \in Handles \ {h} : NewHandle(o, h).handles[g] = o.handles[g]
<1> DEFINE n == Cardinality(StmtsOf(o, h))
<1>1. /\ o \in ObjType /\ Sound(o) /\ own[h] \in Nat /\ n \in Nat
      /\ o.handles[h].refs = n + own[h] /\ (n = 0 => StmtsOf(o, h) = {})
  BY ExactFacts
<1>2. HandleSet(o, NewHandle(o, h), h, 1, NULL, o.conns)
  BY <1>1, NewHandleEffect
<1> HIDE DEF n
<1>3. n = 0 /\ own[h] = 0
  BY <1>1
<1>4. StmtsOf(o, h) = {} /\ o.handles[h].conn = NULL /\ 1 = n + 1
  BY <1>1, <1>3 DEF Sound
<1>5. Exact(NewHandle(o, h), [own EXCEPT ![h] = 1])
  BY <1>2, <1>4, HandleExact DEF n
<1> QED BY <1>2, <1>3, <1>5 DEF HandleSet

LEMMA SameOwn ==
  ASSUME NEW own \in [Handles -> Nat], NEW h \in Handles
  PROVE  [own EXCEPT ![h] = own[h]] = own
OBVIOUS

LEMMA OpenExact ==
  ASSUME NEW o, NEW own, Exact(o, own), NEW h \in Handles, o.handles[h].refs # 0,
         ~IsOpen(o, h), FreeConns(o) # {}
  PROVE  /\ Exact(Open(o, h), own) /\ IsOpen(Open(o, h), h)
         /\ Open(o, h).stmts = o.stmts
         /\ \A g \in Handles : Open(o, h).handles[g].refs = o.handles[g].refs
         /\ \A g \in Handles \ {h} : Open(o, h).handles[g] = o.handles[g]
<1> DEFINE n == Cardinality(StmtsOf(o, h))
           p == Open(o, h)
<1>1. /\ o \in ObjType /\ Sound(o) /\ own[h] \in Nat /\ own \in [Handles -> Nat] /\ n \in Nat
      /\ o.handles[h].refs = n + own[h] /\ o.handles[h].refs \in Nat
  BY ExactFacts
<1>2. PICK c \in Conns \ o.conns :
        HandleSet(o, p, h, o.handles[h].refs, c, o.conns \cup {c})
  BY <1>1, OpenEffect
<1>3. o.handles[h].conn = NULL
  BY DEF IsOpen
<1>4. StmtsOf(o, h) = {}
  BY <1>1, <1>3 DEF Sound, StmtsOf
<1> HIDE DEF p
<1>5. Exact(p, [own EXCEPT ![h] = own[h]])
  BY <1>1, <1>2, <1>3, <1>4, HandleExact
<1>6. Exact(p, own)
  BY <1>1, <1>5, SameOwn
<1>7. IsOpen(p, h)
  BY <1>2, DatabaseAssumption DEF HandleSet, IsOpen
<1> QED BY <1>2, <1>6, <1>7 DEF HandleSet, p

LEMMA CloseExact ==
  ASSUME NEW o, NEW own, Exact(o, own), NEW h \in Handles
  PROVE  /\ Exact(Close(o, h), own) /\ Close(o, h).stmts = o.stmts
         /\ \A g \in Handles : Close(o, h).handles[g].refs = o.handles[g].refs
         /\ StmtsOf(o, h) = {} => ~IsOpen(Close(o, h), h)
         /\ StmtsOf(o, h) = {} /\ IsOpen(o, h) => FreeConns(Close(o, h)) # {}
<1> DEFINE n == Cardinality(StmtsOf(o, h))
           p == Close(o, h)
           conn == o.handles[h].conn
<1>1. /\ o \in ObjType /\ Sound(o) /\ own[h] \in Nat /\ own \in [Handles -> Nat] /\ n \in Nat
      /\ o.handles[h].refs = n + own[h] /\ o.handles[h].refs \in Nat
      /\ conn \in Conns \cup {NULL}
  BY ExactFacts
<1>2. \/ (conn = NULL \/ Busy(o, conn)) /\ p = o
      \/ /\ conn # NULL /\ ~Busy(o, conn)
         /\ HandleSet(o, p, h, o.handles[h].refs, NULL, o.conns \ {conn})
  BY <1>1, CloseEffect
<1>3. conn # NULL /\ Busy(o, conn) => StmtsOf(o, h) # {}
  <2> SUFFICES ASSUME conn # NULL, NEW s \in Stmts, o.stmts[s].conn = conn
               PROVE  s \in StmtsOf(o, h)
    BY DEF Busy
  <2>1. o.stmts[s].refs \in 0 .. 1
    BY <1>1, ObjTyped
  <2>2. o.stmts[s].refs > 0
    BY <1>1, <2>1 DEF Sound
  <2> QED BY <1>1, <2>2 DEF Sound, StmtsOf
<1> HIDE DEF p
<1>4. CASE (conn = NULL \/ Busy(o, conn)) /\ p = o
  BY <1>3, <1>4 DEF IsOpen, p
<1>5. CASE /\ conn # NULL /\ ~Busy(o, conn)
           /\ HandleSet(o, p, h, o.handles[h].refs, NULL, o.conns \ {conn})
  <2>1. StmtsOf(o, h) = {}
    BY <1>1, <1>5 DEF Sound, StmtsOf, Busy
  <2>2. Exact(p, [own EXCEPT ![h] = own[h]])
    BY <1>1, <1>5, <2>1, HandleExact
  <2>3. Exact(p, own)
    BY <1>1, <2>2, SameOwn
  <2>4. ~IsOpen(p, h) /\ conn \in FreeConns(p)
    BY <1>1, <1>5 DEF HandleSet, IsOpen, FreeConns
  <2> QED BY <1>5, <2>3, <2>4 DEF HandleSet, p
<1> QED BY <1>2, <1>4, <1>5

LEMMA DbReleaseExact ==
  ASSUME NEW o, NEW own, Exact(o, own), NEW h \in Handles, own[h] > 0
  PROVE  /\ Exact(DbRelease(o, h), [own EXCEPT ![h] = own[h] - 1])
         /\ DbRelease(o, h).stmts = o.stmts
<1> DEFINE n == Cardinality(StmtsOf(o, h))
           r == o.handles[h].refs
<1>1. /\ o \in ObjType /\ Sound(o) /\ own[h] \in Nat /\ own \in [Handles -> Nat] /\ n \in Nat
      /\ r = n + own[h] /\ r \in Nat /\ o.handles[h].conn \in Conns \cup {NULL}
      /\ (n = 0 => StmtsOf(o, h) = {})
  BY ExactFacts
<1>2. CASE r > 1
  <2> DEFINE x == [o.handles[h] EXCEPT !.refs = r - 1]
             p == DbRelease(o, h)
  <2>1. r - 1 \in Nat
    BY <1>1, <1>2
  <2>2. x \in HandleType /\ x.refs = r - 1 /\ x.conn = o.handles[h].conn
    BY <1>1, <2>1, ObjTyped DEF HandleType
  <2>3. p = [o EXCEPT !.handles = [o.handles EXCEPT ![h] = x], !.conns = o.conns]
    BY <1>1, <1>2 DEF DbRelease, ObjType
  <2>4. o.conns \in SUBSET Conns
    BY <1>1, ObjTyped
  <2> HIDE DEF x, p
  <2>5. HandleSet(o, p, h, r - 1, o.handles[h].conn, o.conns)
    BY <1>1, <2>2, <2>3, <2>4, HandleSetFacts
  <2>6. PICK k \in Nat, q \in Nat : k = own[h] - 1 /\ q = r - 1
    BY <1>1, <2>1
  <2>7. q = n + k /\ q # 0
    BY <1>1, <1>2, <2>6
  <2>8. Exact(p, [own EXCEPT ![h] = k])
    BY <1>1, <2>5, <2>6, <2>7, HandleExact
  <2> QED BY <2>5, <2>6, <2>8 DEF HandleSet, p
<1>3. CASE ~(r > 1)
  <2> DEFINE q == Close(o, h)
             p == DbRelease(o, h)
  <2>1. n = 0 /\ own[h] = 1 /\ StmtsOf(o, h) = {}
    BY <1>1, <1>3
  <2>2. Exact(q, own) /\ q.stmts = o.stmts /\ ~IsOpen(q, h)
    BY <2>1, CloseExact
  <2>3. q \in ObjType /\ StmtsOf(q, h) = {} /\ Cardinality(StmtsOf(q, h)) = 0
    BY <2>1, <2>2, FS_EmptySet DEF Exact, Sound, StmtsOf
  <2>4. q.conns \in SUBSET Conns
    BY <2>3, ObjTyped
  <2>5. NoHandle \in HandleType /\ NoHandle.refs = 0 /\ NoHandle.conn = NULL
    BY DEF NoHandle, HandleType
  <2>6. p = [q EXCEPT !.handles = [q.handles EXCEPT ![h] = NoHandle]]
    BY <1>3 DEF DbRelease
  <2> HIDE DEF q, p
  <2>7. p = [q EXCEPT !.handles = [q.handles EXCEPT ![h] = NoHandle], !.conns = q.conns]
    BY <2>3, <2>6 DEF ObjType
  <2>8. HandleSet(q, p, h, 0, NULL, q.conns)
    BY <2>3, <2>4, <2>5, <2>7, HandleSetFacts
  <2>9. PICK z \in Nat, c \in Conns \cup {NULL} : z = 0 /\ c = NULL
    OBVIOUS
  <2>10. q.handles[h].conn = c /\ z = Cardinality(StmtsOf(q, h)) + z
    BY <2>2, <2>3, <2>9 DEF IsOpen
  <2>11. Exact(p, [own EXCEPT ![h] = z])
    <3>1. HandleSet(q, p, h, z, c, q.conns)
      BY <2>8, <2>9
    <3> QED BY <2>2, <2>3, <2>9, <2>10, <3>1, HandleExact
  <2> QED BY <2>1, <2>2, <2>8, <2>9, <2>11 DEF HandleSet, p
<1> QED BY <1>2, <1>3

(* Finalizing a statement leaves its reference on the handle to nobody.    *)
Finalized(o, s) == [o EXCEPT !.stmts[s] = NoStmt]

LEMMA FinalizeExact ==
  ASSUME NEW o, NEW own, Exact(o, own), NEW s \in Stmts, o.stmts[s].refs > 0,
         NEW h \in Handles, h = o.stmts[s].db, NEW p, p = Finalized(o, s),
         NEW own2 \in [Handles -> Nat], own2[h] = own[h] + 1,
         \A g \in Handles \ {h} : own2[g] = own[g]
  PROVE  /\ Exact(p, own2)
         /\ p.stmts[s] = NoStmt /\ \A q \in Stmts \ {s} : p.stmts[q] = o.stmts[q]
<1>1. /\ o \in ObjType /\ Sound(o) /\ own \in [Handles -> Nat] /\ h \in Handles
  BY DEF Exact, Sound
<1>2. NoStmt \in StmtType /\ NoStmt.refs = 0 /\ NoStmt.conn = NULL
  BY DEF NoStmt, StmtType
<1>3. PICK ss \in [Stmts -> StmtType] : ss = [o.stmts EXCEPT ![s] = NoStmt]
  BY <1>1, <1>2, ObjTyped
<1>4. ss[s] = NoStmt /\ \A q \in Stmts \ {s} : ss[q] = o.stmts[q]
  BY <1>1, <1>3, ObjTyped
<1>5. p = [o EXCEPT !.stmts = ss]
  BY <1>3 DEF Finalized
<1>6. p \in ObjType /\ p.handles = o.handles /\ p.stmts = ss /\ p.conns = o.conns
  BY <1>1, <1>5 DEF ObjType
<1>7. Sound(p)
  <2>1. \A q \in Stmts : p.stmts[q].refs = 0 => p.stmts[q].conn = NULL
    BY <1>1, <1>2, <1>4, <1>6 DEF Sound
  <2>2. \A q \in Stmts : p.stmts[q].refs > 0 =>
          /\ p.stmts[q].db \in Handles /\ p.stmts[q].conn # NULL
          /\ p.handles[p.stmts[q].db].conn = p.stmts[q].conn
    BY <1>1, <1>2, <1>4, <1>6 DEF Sound
  <2>3. /\ \A g \in Handles : p.handles[g].refs = 0 => p.handles[g].conn = NULL
        /\ \A f, g \in Handles :
             p.handles[f].conn # NULL /\ p.handles[f].conn = p.handles[g].conn => f = g
        /\ \A g \in Handles : p.handles[g].conn # NULL => p.handles[g].conn \in p.conns
        /\ \A c \in p.conns : \E g \in Handles : p.handles[g].conn = c
    BY <1>1, <1>6 DEF Sound
  <2> QED BY <1>6, <2>1, <2>2, <2>3 DEF Sound
<1>8. StmtsOf(p, h) = StmtsOf(o, h) \ {s} /\ s \in StmtsOf(o, h)
  BY <1>2, <1>4, <1>6 DEF StmtsOf
<1>9. \A g \in Handles \ {h} : StmtsOf(p, g) = StmtsOf(o, g)
  BY <1>2, <1>4, <1>6 DEF StmtsOf
<1>10. Cardinality(StmtsOf(p, h)) = Cardinality(StmtsOf(o, h)) - 1
  <2>1. PICK S : S = StmtsOf(o, h)
    OBVIOUS
  <2>2. IsFiniteSet(S) /\ s \in S
    BY <1>8, <2>1, StmtsOfFinite
  <2>3. Cardinality(S \ {s}) = Cardinality(S) - 1
    BY <2>2, FS_RemoveElement
  <2> QED BY <1>8, <2>1, <2>3
<1>12. \A g \in Handles : p.handles[g].refs = Cardinality(StmtsOf(p, g)) + own2[g]
  <2> TAKE g \in Handles
  <2>1. CASE g = h
    <3>1. o.handles[h].refs = Cardinality(StmtsOf(o, h)) + own[h] /\ own[h] \in Nat
          /\ Cardinality(StmtsOf(o, h)) \in Nat
      BY <1>1, ExactFacts
    <3> QED BY <1>6, <1>10, <2>1, <3>1
  <2>2. CASE g # h
    BY <1>6, <1>9, <2>2 DEF Exact
  <2> QED BY <2>1, <2>2
<1>13. Exact(p, own2)
  BY <1>7, <1>12 DEF Exact
<1> QED BY <1>4, <1>6, <1>13

LEMMA StmtReleaseExact ==
  ASSUME NEW o, NEW own, Exact(o, own), NEW s \in Stmts, o.stmts[s].refs > 0
  PROVE  /\ Exact(StmtRelease(o, s), own) /\ StmtRelease(o, s).stmts[s] = NoStmt
         /\ \A q \in Stmts \ {s} : StmtRelease(o, s).stmts[q] = o.stmts[q]
<1>0. o \in ObjType /\ own \in [Handles -> Nat]
  BY DEF Exact, Sound
<1>1. o.stmts[s].refs \in 0 .. 1
  BY <1>0, ObjTyped
<1>2. PICK h \in Handles : h = o.stmts[s].db
  BY DEF Exact, Sound
<1>3. PICK p : p = Finalized(o, s)
  OBVIOUS
<1>4. StmtRelease(o, s) = DbRelease(p, h)
  BY <1>1, <1>2, <1>3 DEF StmtRelease, Finalized
<1>5. PICK own2 \in [Handles -> Nat] :
        own2[h] = own[h] + 1 /\ \A g \in Handles \ {h} : own2[g] = own[g]
  <2>1. [own EXCEPT ![h] = own[h] + 1] \in [Handles -> Nat]
    BY <1>0
  <2> QED BY <1>0, <2>1
<1>6. /\ Exact(p, own2)
      /\ p.stmts[s] = NoStmt /\ \A q \in Stmts \ {s} : p.stmts[q] = o.stmts[q]
  BY <1>2, <1>3, <1>5, FinalizeExact
<1>7. own2[h] > 0 /\ own2[h] - 1 = own[h]
  BY <1>0, <1>5
<1>8. [own2 EXCEPT ![h] = own[h]] = own
  BY <1>0, <1>5
<1>9. Exact(DbRelease(p, h), own) /\ DbRelease(p, h).stmts = p.stmts
  BY <1>6, <1>7, <1>8, DbReleaseExact
<1> QED BY <1>4, <1>6, <1>9

LEMMA StmtInitializeExact ==
  ASSUME NEW o, NEW own, Exact(o, own), NEW s \in Stmts, o.stmts[s].refs = 0,
         NEW h \in Handles, IsOpen(o, h)
  PROVE  LET p == StmtInitialize(o, s, h)
         IN  /\ Exact(p, own) /\ p.stmts[s].refs = 1 /\ p.stmts[s].db = h
             /\ \A q \in Stmts \ {s} : p.stmts[q] = o.stmts[q]
<1> DEFINE p == StmtInitialize(o, s, h)
           x == [refs |-> 1, db |-> h, conn |-> o.handles[h].conn]
           y == [o.handles[h] EXCEPT !.refs = o.handles[h].refs + 1]
<1>1. /\ o \in ObjType /\ Sound(o) /\ own \in [Handles -> Nat] /\ own[h] \in Nat
      /\ o.handles[h].refs = Cardinality(StmtsOf(o, h)) + own[h] /\ o.handles[h].refs \in Nat
      /\ Cardinality(StmtsOf(o, h)) \in Nat /\ o.handles[h].conn \in Conns \cup {NULL}
  BY ExactFacts
<1>2. x \in StmtType /\ x.refs = 1 /\ x.db = h /\ x.conn = o.handles[h].conn
  BY <1>1 DEF StmtType
<1>3. y \in HandleType /\ y.refs = o.handles[h].refs + 1 /\ y.conn = o.handles[h].conn
  BY <1>1, ObjTyped DEF HandleType
<1>4. p = [o EXCEPT !.stmts = [o.stmts EXCEPT ![s] = x], !.handles = [o.handles EXCEPT ![h] = y]]
  BY <1>1 DEF StmtInitialize, ObjType
<1> HIDE DEF p, x, y
<1>5. PICK ss \in [Stmts -> StmtType], hs \in [Handles -> HandleType] :
        ss = [o.stmts EXCEPT ![s] = x] /\ hs = [o.handles EXCEPT ![h] = y]
  BY <1>1, <1>2, <1>3, ObjTyped
<1>6. /\ ss[s] = x /\ \A q \in Stmts \ {s} : ss[q] = o.stmts[q]
      /\ hs[h] = y /\ \A g \in Handles \ {h} : hs[g] = o.handles[g]
  BY <1>1, <1>5, ObjTyped
<1>7. p = [o EXCEPT !.stmts = ss, !.handles = hs]
  BY <1>4, <1>5
<1>8. p \in ObjType /\ p.handles = hs /\ p.stmts = ss /\ p.conns = o.conns
  BY <1>1, <1>7 DEF ObjType
<1>9. \A g \in Handles : hs[g].conn = o.handles[g].conn /\ (g # h => hs[g].refs = o.handles[g].refs)
  BY <1>3, <1>6
<1>10. Sound(p)
  <2>1. \A q \in Stmts : p.stmts[q].refs = 0 => p.stmts[q].conn = NULL
    BY <1>1, <1>2, <1>6, <1>8 DEF Sound
  <2>2. \A q \in Stmts : p.stmts[q].refs > 0 =>
          /\ p.stmts[q].db \in Handles /\ p.stmts[q].conn # NULL
          /\ p.handles[p.stmts[q].db].conn = p.stmts[q].conn
    BY <1>1, <1>2, <1>6, <1>8, <1>9 DEF Sound, IsOpen
  <2>3. \A g \in Handles : p.handles[g].refs = 0 => p.handles[g].conn = NULL
    BY <1>1, <1>3, <1>6, <1>8, <1>9 DEF Sound
  <2>4. /\ \A f, g \in Handles :
             p.handles[f].conn # NULL /\ p.handles[f].conn = p.handles[g].conn => f = g
        /\ \A g \in Handles : p.handles[g].conn # NULL => p.handles[g].conn \in p.conns
        /\ \A c \in p.conns : \E g \in Handles : p.handles[g].conn = c
    BY <1>1, <1>8, <1>9 DEF Sound
  <2> QED BY <1>8, <2>1, <2>2, <2>3, <2>4 DEF Sound
<1>11. StmtsOf(p, h) = StmtsOf(o, h) \cup {s} /\ s \notin StmtsOf(o, h)
  BY <1>2, <1>6, <1>8 DEF StmtsOf
<1>12. \A g \in Handles \ {h} : StmtsOf(p, g) = StmtsOf(o, g)
  BY <1>2, <1>6, <1>8 DEF StmtsOf
<1>13. Cardinality(StmtsOf(p, h)) = Cardinality(StmtsOf(o, h)) + 1
  <2>1. PICK S : S = StmtsOf(o, h)
    OBVIOUS
  <2>2. IsFiniteSet(S) /\ s \notin S
    BY <1>11, <2>1, StmtsOfFinite
  <2>3. Cardinality(S \cup {s}) = Cardinality(S) + 1
    BY <2>2, FS_AddElement
  <2> QED BY <1>11, <2>1, <2>3
<1>14. \A g \in Handles : p.handles[g].refs = Cardinality(StmtsOf(p, g)) + own[g]
  <2> TAKE g \in Handles
  <2>1. CASE g = h
    BY <1>1, <1>3, <1>6, <1>8, <1>13, <2>1
  <2>2. CASE g # h
    BY <1>8, <1>9, <1>12, <2>2 DEF Exact
  <2> QED BY <2>1, <2>2
<1>15. Exact(p, own)
  BY <1>1, <1>10, <1>14 DEF Exact
<1> QED BY <1>2, <1>6, <1>8, <1>15 DEF p

(***************************************************************************)
(* The asset manager                                                       *)
(***************************************************************************)
Is(x, h) == IF x = h THEN 1 ELSE 0
In(S, h) == IF h \in S THEN 1 ELSE 0

(* The references on handles that are not a statement's: mp_dbConn,        *)
(* CreateDatabase, other clients and, for handles that leaked, nobody.     *)
Own == [h \in Handles |-> Is(dbConn, h) + Is(tmp, h) + In(owned, h) + In(lost, h)]

Creating == {"schema", "schema2", "reopen"}

(* Who owns what: the handle of mp_dbConn never counts as leaked, its      *)
(* statement lives and is no client's, the handle of CreateDatabase is     *)
(* open and nobody else's.                                                 *)
Owners ==
  /\ dbConn \in Handles \cup {NULL} /\ stmt \in Stmts \cup {NULL}
  /\ tmp \in Handles \cup {NULL} /\ owned \subseteq Handles \cup Stmts /\ lost \subseteq Handles
  /\ dbConn # NULL => /\ dbConn \notin lost /\ stmt # NULL /\ stmt \notin owned
                      /\ Live(stmt) /\ d.stmts[stmt].db = dbConn
  /\ \A s \in owned \cap Stmts : Live(s)
  /\ tmp # NULL => d.handles[tmp].refs = 1 /\ IsOpen(d, tmp)
  /\ pc \in Creating <=> tmp # NULL

(* A file without all its tables comes from a creation that was not        *)
(* completed.                                                              *)
FileInv ==
  /\ file \in {"absent", "empty", "assets", "full"}
  /\ file \in {"empty", "assets"} => cutShort
  /\ pc = "schema2" => file = "assets"
  /\ dbConn # NULL => file # "absent"
  /\ dead = "open" => cutShort

AssetInv == Exact(d, Own) /\ Owners /\ FileInv

LEMMA FileStep ==
  ASSUME Owners, FileInv, [Next]_vars
  PROVE  FileInv'
<1> USE DEF At, Alive, mgrVars, histVars
<1>1. CASE Startup \/ CreateDatabase \/ UNCHANGED vars
  BY <1>1 DEF FileInv, Startup, CreateDatabase, vars
<1>2. CASE CreateOpens
  BY <1>2 DEF FileInv, CreateOpens
<1>3. CASE CreateOpenFails
  BY <1>3 DEF FileInv, CreateOpenFails, CreateLeaves
<1>4. CASE SchemaTable
  BY <1>4 DEF FileInv, SchemaTable, NextTable
<1>5. CASE SchemaDone
  BY <1>5 DEF FileInv, SchemaDone, NextTable
<1>6. CASE SchemaFails
  BY <1>6 DEF FileInv, SchemaFails, CreateLeaves
<1>7. CASE CreateReopens
  BY <1>7 DEF FileInv, CreateReopens, CreateLeaves
<1>8. CASE OpenDatabase
  <2>1. CASE OpenFails
    BY <1>8, <2>1 DEF FileInv, OpenDatabase, OpenFails, OpenLeaves
  <2>2. CASE OpenNoStatement
    BY <1>8, <2>2 DEF FileInv, OpenDatabase, OpenNoStatement, OpenLeaves
  <2>3. CASE OpenSucceeds
    BY <1>8, <2>3 DEF FileInv, OpenDatabase, OpenSucceeds, OpenLeaves, HasAssets
  <2>4. CASE OpenCrashes
    BY <1>8, <2>4 DEF FileInv, OpenCrashes, Die
  <2> QED BY <1>8, <2>1, <2>2, <2>3, <2>4 DEF OpenDatabase
<1>9. CASE CloseDatabase
  BY <1>9 DEF FileInv, CloseDatabase
<1>10. CASE QueryAsset
  <2>1. CASE UNCHANGED vars
    BY <2>1 DEF FileInv, vars
  <2>2. CASE Die("query")
    BY <2>2 DEF FileInv, Die
  <2> QED BY <1>10, <2>1, <2>2 DEF QueryAsset
<1>11. CASE ClientStep
  <2>1. \/ dead' = dead \/ dead' = "client"
    BY <1>11 DEF ClientStep, ClientNew, ClientHandle, ClientStatement, ClientCall, Die
  <2>2. UNCHANGED <<file, mgrVars, histVars>>
    BY <1>11 DEF ClientStep, ClientNew, ClientHandle, ClientStatement, ClientCall, Die
  <2> QED BY <2>1, <2>2 DEF FileInv
<1>12. CASE Shutdown
  BY <1>12 DEF FileInv, Shutdown
<1>13. CASE Ends
  BY <1>13 DEF FileInv, Ends
<1> QED BY <1>1, <1>2, <1>3, <1>4, <1>5, <1>6, <1>7, <1>8, <1>9, <1>10, <1>11, <1>12, <1>13 DEF Next

LEMMA OwnFacts ==
  /\ Own \in [Handles -> Nat]
  /\ \A h \in Handles : Own[h] = Is(dbConn, h) + Is(tmp, h) + In(owned, h) + In(lost, h)
  /\ \A h \in Handles : h = dbConn \/ h = tmp \/ h \in owned \/ h \in lost => Own[h] > 0
  /\ \A h \in Handles : Own[h] = 0 => h # dbConn /\ h # tmp /\ h \notin owned /\ h \notin lost
BY DEF Own, Is, In

LEMMA OpenNewExact ==
  ASSUME NEW o, NEW own, Exact(o, own), NEW h \in FreeHandles(o), FreeConns(o) # {},
         NEW p, p = Open(NewHandle(o, h), h)
  PROVE  /\ h \in Handles /\ own[h] = 0 /\ Exact(p, [own EXCEPT ![h] = 1])
         /\ IsOpen(p, h) /\ p.handles[h].refs = 1 /\ p.stmts = o.stmts
<1>1. h \in Handles /\ o.handles[h].refs = 0
  BY DEF FreeHandles
<1>2. PICK q, own2 : q = NewHandle(o, h) /\ own2 = [own EXCEPT ![h] = 1]
  OBVIOUS
<1>3. /\ own[h] = 0 /\ Exact(q, own2) /\ q.handles[h].refs = 1 /\ q.handles[h].conn = NULL
      /\ q.stmts = o.stmts /\ q.conns = o.conns
  <2>1. /\ own[h] = 0 /\ Exact(NewHandle(o, h), [own EXCEPT ![h] = 1])
        /\ NewHandle(o, h).handles[h].refs = 1 /\ NewHandle(o, h).handles[h].conn = NULL
        /\ NewHandle(o, h).stmts = o.stmts /\ NewHandle(o, h).conns = o.conns
    BY <1>1, NewHandleExact
  <2> QED BY <1>2, <2>1
<1>4. q.handles[h].refs # 0 /\ ~IsOpen(q, h) /\ FreeConns(q) # {} /\ p = Open(q, h)
  BY <1>2, <1>3 DEF IsOpen, FreeConns
<1>5. /\ Exact(p, own2) /\ IsOpen(p, h) /\ p.stmts = q.stmts
      /\ p.handles[h].refs = q.handles[h].refs
  BY <1>1, <1>3, <1>4, OpenExact
<1> QED BY <1>1, <1>2, <1>3, <1>5

(* The steps that leave the database objects and their owners alone.       *)
LEMMA QuietStep ==
  ASSUME Exact(d, Own), Owners, UNCHANGED <<d, dbConn, tmp, owned, lost, stmt>>,
         pc' \in Creating <=> pc \in Creating
  PROVE  Exact(d, Own)' /\ Owners'
<1>1. Own' = Own
  BY DEF Own
<1>2. Exact(d, Own)'
  BY <1>1
<1>3. Owners'
  BY DEF Owners, Live, IsOpen
<1> QED BY <1>2, <1>3

LEMMA CreateOpensStep ==
  ASSUME Exact(d, Own), Owners, CreateOpens
  PROVE  Exact(d, Own)' /\ Owners'
<1>1. PICK h \in FreeHandles(d) :
        /\ d' = Open(NewHandle(d, h), h) /\ tmp' = h
        /\ FreeConns(d) # {}
  BY DEF CreateOpens, NewObject, HasRoom
<1>2. /\ At("create") /\ pc' = "schema"
      /\ UNCHANGED <<dbConn, stmt, owned, lost>>
  BY DEF CreateOpens
<1>3. tmp = NULL
  BY <1>2 DEF Owners, At, Creating
<1>4. /\ h \in Handles /\ Own[h] = 0 /\ Exact(d', [Own EXCEPT ![h] = 1])
      /\ IsOpen(d', h) /\ d'.handles[h].refs = 1 /\ d'.stmts = d.stmts
  BY <1>1, OpenNewExact
<1>5. h # dbConn /\ h \notin owned /\ h \notin lost
  BY <1>4, OwnFacts
<1>6. Own' = [Own EXCEPT ![h] = 1]
  BY <1>1, <1>2, <1>3, <1>4, <1>5, DatabaseAssumption DEF Own, Is, In
<1>7. Exact(d, Own)'
  BY <1>4, <1>6
<1>8. Owners'
  BY <1>1, <1>2, <1>4, DatabaseAssumption DEF Owners, Live, Creating
<1> QED BY <1>7, <1>8

(* CreateDatabase leaves: its handle goes with its last reference.         *)
LEMMA CreateLeavesStep ==
  ASSUME Exact(d, Own), Owners, NEW o, NEW ok, CreateLeaves(ok, DbRelease(o, tmp)), tmp # NULL,
         Exact(o, Own), o.stmts = d.stmts, UNCHANGED <<owned, lost>>
  PROVE  Exact(d, Own)' /\ Owners'
<1>1. PICK h \in Handles : h = tmp
  BY DEF Owners
<1>2. /\ d' = DbRelease(o, h) /\ tmp' = NULL /\ pc' \in {"idle", "open", "failed"}
      /\ UNCHANGED <<dbConn, stmt, owned, lost>>
  BY <1>1 DEF CreateLeaves
<1>3. Own[h] > 0 /\ Own \in [Handles -> Nat] /\ Own[h] \in Nat
  BY <1>1, OwnFacts
<1>4. Exact(d', [Own EXCEPT ![h] = Own[h] - 1]) /\ d'.stmts = d.stmts
  BY <1>2, <1>3, DbReleaseExact
<1>5. Own' = [Own EXCEPT ![h] = Own[h] - 1]
  <2>1. \A g \in Handles : Own'[g] = [Own EXCEPT ![h] = Own[h] - 1][g]
    BY <1>1, <1>2, DatabaseAssumption DEF Own, Is, In
  <2>2. Own' = [g \in Handles |-> Own'[g]]
    BY DEF Own
  <2> QED BY <1>3, <2>1, <2>2
<1>6. Exact(d, Own)'
  BY <1>4, <1>5
<1>7. Owners'
  BY <1>2, <1>4 DEF Owners, Live, Creating
<1> QED BY <1>6, <1>7

(* CreateDatabase is the only owner of its handle, which has no statement. *)
LEMMA TmpClosed ==
  ASSUME Exact(d, Own), Owners, tmp # NULL, NEW o, o = Close(d, tmp)
  PROVE  /\ tmp \in Handles /\ Exact(o, Own) /\ o.stmts = d.stmts
         /\ o.handles[tmp].refs # 0 /\ ~IsOpen(o, tmp) /\ FreeConns(o) # {}
<1>1. PICK h \in Handles : h = tmp
  BY DEF Owners
<1>2. d.handles[h].refs = 1 /\ IsOpen(d, h) /\ Own[h] > 0
  BY <1>1, OwnFacts DEF Owners
<1>3. StmtsOf(d, h) = {}
  <2>1. PICK n \in Nat, k \in Nat :
          n = Cardinality(StmtsOf(d, h)) /\ k = Own[h] /\ d.handles[h].refs = n + k
    BY ExactFacts
  <2>2. n = 0
    BY <1>2, <2>1
  <2> QED BY <2>1, <2>2, ExactFacts
<1> QED BY <1>1, <1>2, <1>3, CloseExact

LEMMA CreateEndsStep ==
  ASSUME Exact(d, Own), Owners, SchemaFails \/ CreateReopens
  PROVE  Exact(d, Own)' /\ Owners'
<1>1. tmp # NULL /\ UNCHANGED <<owned, lost>>
  BY DEF SchemaFails, CreateReopens, Owners, Creating, At, histVars
<1>2. PICK o : o = Close(d, tmp)
  OBVIOUS
<1>3. /\ tmp \in Handles /\ Exact(o, Own) /\ o.stmts = d.stmts
      /\ o.handles[tmp].refs # 0 /\ ~IsOpen(o, tmp) /\ FreeConns(o) # {}
  BY <1>1, <1>2, TmpClosed
<1>4. PICK p : p = Open(o, tmp)
  OBVIOUS
<1>5. Exact(p, Own) /\ p.stmts = d.stmts
  BY <1>3, <1>4, OpenExact
<1>6. CASE CreateLeaves(FALSE, DbRelease(o, tmp))
  BY <1>1, <1>3, <1>6, CreateLeavesStep
<1>7. CASE CreateLeaves(TRUE, DbRelease(p, tmp))
  BY <1>1, <1>5, <1>7, CreateLeavesStep
<1> QED BY <1>2, <1>4, <1>6, <1>7 DEF SchemaFails, CreateReopens

(* OpenDatabase overwrites mp_dbConn: what it pointed to has leaked.       *)
LEMMA OpenLeavesStep ==
  ASSUME Exact(d, Own), Owners, At("idle") \/ At("open"),
         NEW o, NEW conn, NEW st, NEW ok, OpenLeaves(ok, o, conn, st),
         NEW own, Exact(o, own),
         \/ conn = NULL /\ own = Own /\ st \in {stmt, NULL} /\ o.stmts = d.stmts
         \/ /\ conn \in Handles /\ Own[conn] = 0 /\ own = [Own EXCEPT ![conn] = 1]
            /\ st \in FreeStmts(d) /\ o.stmts[st].refs = 1 /\ o.stmts[st].db = conn
            /\ \A s \in Stmts \ {st} : o.stmts[s] = d.stmts[s]
  PROVE  Exact(d, Own)' /\ Owners'
<1>1. /\ d' = o /\ dbConn' = conn /\ stmt' = st
      /\ lost' = lost \cup ({dbConn} \ {NULL})
      /\ pc' \in {"failed", "idle"}
      /\ UNCHANGED <<tmp, owned>>
  BY DEF OpenLeaves
<1>2. tmp = NULL
  BY DEF Owners, At, Creating
<1>3. Own \in [Handles -> Nat]
  BY OwnFacts
<1>4. CASE conn = NULL /\ own = Own /\ st \in {stmt, NULL} /\ o.stmts = d.stmts
  <2>1. \A h \in Handles : Own'[h] = Own[h]
    BY <1>1, <1>4, DatabaseAssumption DEF Own, Is, In, Owners
  <2>2. Own' = [h \in Handles |-> Own'[h]]
    BY DEF Own
  <2>3. Own' = Own
    BY <1>3, <2>1, <2>2
  <2>4. Owners'
    BY <1>1, <1>2, <1>4 DEF Owners, Live, Creating
  <2> QED BY <1>1, <1>4, <2>3, <2>4
<1>5. CASE /\ conn \in Handles /\ Own[conn] = 0 /\ own = [Own EXCEPT ![conn] = 1]
           /\ st \in FreeStmts(d) /\ o.stmts[st].refs = 1 /\ o.stmts[st].db = conn
           /\ \A s \in Stmts \ {st} : o.stmts[s] = d.stmts[s]
  <2>1. conn # dbConn /\ conn # tmp /\ conn \notin owned /\ conn \notin lost
    BY <1>5, OwnFacts
  <2>2. Own'[conn] = 1
    BY <1>1, <1>2, <1>5, <2>1, DatabaseAssumption DEF Own, Is, In
  <2>3. \A h \in Handles \ {conn} : Own'[h] = Own[h]
    BY <1>1, <1>5, DatabaseAssumption DEF Own, Is, In, Owners
  <2>4. Own' = [h \in Handles |-> Own'[h]]
    BY DEF Own
  <2>5. Own' = own
    BY <1>3, <1>5, <2>2, <2>3, <2>4
  <2>6. st \in Stmts /\ st # NULL /\ st \notin owned
    BY <1>5, DatabaseAssumption DEF FreeStmts, Owners, Live
  <2>7. \A s \in owned \cap Stmts : d'.stmts[s].refs > 0
    BY <1>1, <1>5, <2>6 DEF Owners, Live
  <2>8. Owners'
    BY <1>1, <1>2, <1>5, <2>1, <2>6, <2>7, DatabaseAssumption DEF Owners, Live, Creating
  <2> QED BY <1>1, <2>5, <2>8
<1> QED BY <1>4, <1>5

LEMMA OpenDatabaseStep ==
  ASSUME Exact(d, Own), Owners, OpenDatabase
  PROVE  Exact(d, Own)' /\ Owners'
<1>0. At("idle") \/ At("open")
  BY DEF OpenDatabase
<1>1. PICK h \in FreeHandles(d) : h = NewObject(FreeHandles(d))
  BY DEF OpenDatabase, NewObject, HasRoom
<1>2. PICK s \in FreeStmts(d) : s = NewObject(FreeStmts(d))
  BY DEF OpenDatabase, NewObject, HasRoom
<1>3. PICK o : o = Open(NewHandle(d, h), h)
  OBVIOUS
<1>4. PICK own : own = [Own EXCEPT ![h] = 1]
  OBVIOUS
<1>5. /\ h \in Handles /\ Own[h] = 0 /\ Exact(o, own) /\ IsOpen(o, h) /\ o.stmts = d.stmts
  <2>1. FreeConns(d) # {}
    BY DEF OpenDatabase, HasRoom
  <2> QED BY <1>3, <1>4, <2>1, OpenNewExact
<1>6. Own \in [Handles -> Nat]
  BY OwnFacts
<1>7. CASE OpenFails
  <2>1. OpenLeaves(FALSE, d, NULL, stmt)
    BY <1>7 DEF OpenFails
  <2> QED BY <1>0, <2>1, OpenLeavesStep
<1>8. CASE OpenNoStatement
  <2>1. PICK p : p = DbRelease(o, h)
    OBVIOUS
  <2>2. OpenLeaves(FALSE, p, NULL, NULL)
    BY <1>1, <1>3, <1>8, <2>1 DEF OpenNoStatement
  <2>3. own[h] > 0 /\ own[h] - 1 = 0 /\ [own EXCEPT ![h] = 0] = Own
    <3>1. PICK f \in [Handles -> Nat] : f = Own
      BY <1>6
    <3>2. own = [f EXCEPT ![h] = 1] /\ f[h] = 0
      BY <1>4, <1>5, <3>1
    <3>3. own[h] = 1 /\ [own EXCEPT ![h] = 0] = f
      BY <1>5, <3>2
    <3> QED BY <3>1, <3>3
  <2>4. Exact(p, Own) /\ p.stmts = d.stmts
    BY <1>5, <2>1, <2>3, DbReleaseExact
  <2> QED BY <1>0, <2>2, <2>4, OpenLeavesStep
<1>9. CASE OpenSucceeds
  <2>1. PICK p : p = StmtInitialize(o, s, h)
    OBVIOUS
  <2>2. OpenLeaves(TRUE, p, h, s)
    BY <1>1, <1>2, <1>3, <1>9, <2>1 DEF OpenSucceeds
  <2>3. s \in Stmts /\ o.stmts[s].refs = 0
    BY <1>5 DEF FreeStmts
  <2>4. /\ Exact(p, own) /\ p.stmts[s].refs = 1 /\ p.stmts[s].db = h
        /\ \A q \in Stmts \ {s} : p.stmts[q] = d.stmts[q]
    BY <1>5, <2>1, <2>3, StmtInitializeExact
  <2> QED BY <1>0, <1>4, <1>5, <2>2, <2>4, OpenLeavesStep
<1>10. CASE OpenCrashes
  <2>1. UNCHANGED <<d, dbConn, tmp, owned, lost, stmt, pc>>
    BY <1>10 DEF OpenCrashes, Die, mgrVars, histVars
  <2> QED BY <2>1, QuietStep
<1> QED BY <1>7, <1>8, <1>9, <1>10 DEF OpenDatabase

LEMMA CloseStep ==
  ASSUME Exact(d, Own), Owners, dbConn # NULL, d' = Closed(d), dbConn' = NULL, stmt' = NULL,
         tmp = NULL, pc' \notin Creating, UNCHANGED <<tmp, owned, lost>>
  PROVE  Exact(d, Own)' /\ Owners'
<1>1. PICK h \in Handles, s \in Stmts : h = dbConn /\ s = stmt
  BY DEF Owners
<1>2. d.stmts[s].refs > 0 /\ s \notin owned
  BY <1>1 DEF Owners, Live
<1>3. PICK o : o = StmtRelease(d, s)
  OBVIOUS
<1>4. Exact(o, Own) /\ \A q \in Stmts \ {s} : o.stmts[q] = d.stmts[q]
  BY <1>2, <1>3, StmtReleaseExact
<1>5. Own[h] > 0 /\ Own \in [Handles -> Nat] /\ Own[h] \in Nat
  BY <1>1, OwnFacts
<1>6. Exact(DbRelease(o, h), [Own EXCEPT ![h] = Own[h] - 1]) /\ DbRelease(o, h).stmts = o.stmts
  BY <1>4, <1>5, DbReleaseExact
<1>7. d' = DbRelease(o, h)
  BY <1>1, <1>3 DEF Closed
<1>8. \A g \in Handles : Own'[g] = [Own EXCEPT ![h] = Own[h] - 1][g]
  BY <1>1, DatabaseAssumption DEF Own, Is, In
<1>9. Own' = [g \in Handles |-> Own'[g]]
  BY DEF Own
<1>10. Own' = [Own EXCEPT ![h] = Own[h] - 1]
  BY <1>5, <1>8, <1>9
<1>11. Exact(d, Own)'
  BY <1>6, <1>7, <1>10
<1>12. \A q \in owned \cap Stmts : d'.stmts[q].refs > 0
  BY <1>2, <1>4, <1>6, <1>7 DEF Owners, Live
<1>13. Owners'
  BY <1>12 DEF Owners, Live, Creating
<1> QED BY <1>11, <1>13

(* A call of a client: the statement of mp_dbConn and the statements that  *)
(* clients hold live on.                                                   *)
LEMMA ClientCallStep ==
  ASSUME Exact(d, Own), Owners, At("idle"), NEW o, NEW held, ClientCall(o, held),
         NEW own, Exact(o, own),
         held \subseteq Handles \cup Stmts,
         \A h \in Handles : own[h] = Own[h] - In(owned, h) + In(held, h),
         dbConn # NULL => stmt \notin held /\ o.stmts[stmt] = d.stmts[stmt],
         \A s \in held \cap Stmts : o.stmts[s].refs > 0
  PROVE  Exact(d, Own)' /\ Owners'
<1>1. d' = o /\ owned' = held /\ UNCHANGED <<dbConn, stmt, pc, tmp, lost>>
  BY DEF ClientCall, mgrVars, histVars
<1>2. tmp = NULL /\ pc \notin Creating
  BY DEF Owners, At, Creating
<1>3. \A h \in Handles : Own'[h] = own[h]
  BY <1>1 DEF Own, Is, In
<1>4. Own' = [h \in Handles |-> Own'[h]]
  BY DEF Own
<1>5. own \in [Handles -> Nat]
  BY DEF Exact
<1>6. Own' = own
  BY <1>3, <1>4, <1>5
<1>7. Exact(d, Own)'
  BY <1>1, <1>6
<1>8. Owners'
  BY <1>1, <1>2 DEF Owners, Live
<1> QED BY <1>7, <1>8

LEMMA ClientNewStep ==
  ASSUME Exact(d, Own), Owners, At("idle"), ClientNew
  PROVE  Exact(d, Own)' /\ Owners'
<1>1. PICK h \in FreeHandles(d) : ClientCall(NewHandle(d, h), owned \cup {h})
  BY DEF ClientNew, NewObject, HasRoom
<1>2. h \in Handles /\ d.handles[h].refs = 0
  BY DEF FreeHandles
<1>3. PICK o, own : o = NewHandle(d, h) /\ own = [Own EXCEPT ![h] = 1]
  OBVIOUS
<1>4. Own[h] = 0 /\ Exact(o, own) /\ o.stmts = d.stmts
  <2>1. /\ Own[h] = 0 /\ Exact(NewHandle(d, h), [Own EXCEPT ![h] = 1])
        /\ NewHandle(d, h).stmts = d.stmts
    BY <1>2, NewHandleExact
  <2> QED BY <1>3, <2>1
<1>5. Own \in [Handles -> Nat] /\ h \notin owned
  BY <1>2, <1>4, OwnFacts
<1>6. PICK held : held = owned \cup {h}
  OBVIOUS
<1>7. \A g \in Handles : own[g] = Own[g] - In(owned, g) + In(held, g)
  BY <1>2, <1>3, <1>4, <1>5, <1>6 DEF In
<1>8. h \notin Stmts
  BY <1>2, DatabaseAssumption
<1>9. held \subseteq Handles \cup Stmts /\ held \cap Stmts = owned \cap Stmts
  BY <1>2, <1>6, <1>8 DEF Owners
<1>10. dbConn # NULL => stmt \in Stmts /\ stmt \notin held
  BY <1>6, <1>8 DEF Owners
<1>11. \A s \in held \cap Stmts : o.stmts[s].refs > 0
  BY <1>4, <1>9 DEF Owners, Live
<1>12. ClientCall(o, held)
  BY <1>1, <1>3, <1>6
<1> QED BY <1>4, <1>7, <1>9, <1>10, <1>11, <1>12, ClientCallStep

LEMMA ClientHandleStep ==
  ASSUME Exact(d, Own), Owners, At("idle"), NEW h \in owned \cap Handles, ClientHandle(h)
  PROVE  Exact(d, Own)' /\ Owners'
<1>1. Own[h] > 0 /\ Own \in [Handles -> Nat] /\ Own[h] \in Nat
  BY OwnFacts
<1>2. d.handles[h].refs # 0
  <2>1. PICK n \in Nat : d.handles[h].refs = n + Own[h]
    BY ExactFacts
  <2> QED BY <1>1, <2>1
<1>3. h \notin Stmts
  BY DatabaseAssumption
<1>4. owned \subseteq Handles \cup Stmts /\ \A s \in owned \cap Stmts : d.stmts[s].refs > 0
  BY DEF Owners, Live
<1>5. dbConn # NULL => stmt \notin owned
  BY DEF Owners
<1>6. \A g \in Handles : Own[g] = Own[g] - In(owned, g) + In(owned, g)
  BY <1>1 DEF In
<1>7. CASE ~IsOpen(d, h) /\ HasRoom(d) /\ ClientCall(Open(d, h), owned)
  <2>1. PICK o : o = Open(d, h)
    OBVIOUS
  <2>2. Exact(o, Own) /\ o.stmts = d.stmts
    BY <1>2, <1>7, <2>1, OpenExact DEF HasRoom
  <2>3. ClientCall(o, owned)
    BY <1>7, <2>1
  <2> QED BY <1>4, <1>5, <1>6, <2>2, <2>3, ClientCallStep
<1>8. CASE ClientCall(Close(d, h), owned)
  <2>1. PICK o : o = Close(d, h)
    OBVIOUS
  <2>2. Exact(o, Own) /\ o.stmts = d.stmts
    BY <2>1, CloseExact
  <2>3. ClientCall(o, owned)
    BY <1>8, <2>1
  <2> QED BY <1>4, <1>5, <1>6, <2>2, <2>3, ClientCallStep
<1>9. CASE ClientCall(DbRelease(d, h), owned \ {h})
  <2>1. PICK o, own, held :
          o = DbRelease(d, h) /\ own = [Own EXCEPT ![h] = Own[h] - 1] /\ held = owned \ {h}
    OBVIOUS
  <2>2. Exact(o, own) /\ o.stmts = d.stmts
    <3>1. Exact(DbRelease(d, h), [Own EXCEPT ![h] = Own[h] - 1]) /\ DbRelease(d, h).stmts = d.stmts
      BY <1>1, DbReleaseExact
    <3> QED BY <2>1, <3>1
  <2>3. ClientCall(o, held)
    BY <1>9, <2>1
  <2>4. \A g \in Handles : own[g] = Own[g] - In(owned, g) + In(held, g)
    BY <1>1, <2>1 DEF In
  <2>5. /\ held \subseteq Handles \cup Stmts /\ (dbConn # NULL => stmt \notin held)
        /\ \A s \in held \cap Stmts : o.stmts[s].refs > 0
    BY <1>4, <1>5, <2>1, <2>2
  <2> QED BY <2>2, <2>3, <2>4, <2>5, ClientCallStep
<1> QED BY <1>7, <1>8, <1>9 DEF ClientHandle

LEMMA ClientStatementStep ==
  ASSUME Exact(d, Own), Owners, At("idle"), NEW h \in owned \cap Handles, ClientStatement(h)
  PROVE  Exact(d, Own)' /\ Owners'
<1>1. PICK s \in FreeStmts(d) : s = NewObject(FreeStmts(d))
  BY DEF ClientStatement, NewObject, HasRoom
<1>2. s \in Stmts /\ d.stmts[s].refs = 0
  BY DEF FreeStmts
<1>3. Own \in [Handles -> Nat]
  BY OwnFacts
<1>4. owned \subseteq Handles \cup Stmts /\ \A q \in owned \cap Stmts : d.stmts[q].refs > 0
  BY DEF Owners, Live
<1>5. s \notin Handles /\ s \notin owned
  BY <1>2, <1>4, DatabaseAssumption
<1>6. dbConn # NULL => stmt \in Stmts /\ stmt # s /\ stmt \notin owned
  BY <1>2 DEF Owners, Live
<1>7. CASE ~IsOpen(d, h)
  <2>1. UNCHANGED <<d, dbConn, tmp, owned, lost, stmt, pc>>
    BY <1>7 DEF ClientStatement, Die, mgrVars, histVars
  <2> QED BY <2>1, QuietStep
<1>8. CASE IsOpen(d, h)
  <2>1. PICK o : o = StmtInitialize(d, s, h)
    OBVIOUS
  <2>2. /\ Exact(o, Own) /\ o.stmts[s].refs = 1
        /\ \A q \in Stmts \ {s} : o.stmts[q] = d.stmts[q]
    BY <1>2, <1>8, <2>1, StmtInitializeExact
  <2>3. CASE ClientCall(o, owned \cup {s})
    <3>1. PICK held : held = owned \cup {s}
      OBVIOUS
    <3>2. /\ held \subseteq Handles \cup Stmts
          /\ (dbConn # NULL => stmt \notin held /\ o.stmts[stmt] = d.stmts[stmt])
          /\ \A q \in held \cap Stmts : o.stmts[q].refs > 0
      BY <1>2, <1>4, <1>5, <1>6, <2>2, <3>1
    <3>3. \A g \in Handles : Own[g] = Own[g] - In(owned, g) + In(held, g)
      BY <1>3, <1>5, <3>1 DEF In
    <3>4. ClientCall(o, held)
      BY <2>3, <3>1
    <3> QED BY <2>2, <3>2, <3>3, <3>4, ClientCallStep
  <2>4. CASE ClientCall(ExecuteInline(d, s, h), owned)
    <3>1. PICK p : p = StmtRelease(o, s)
      OBVIOUS
    <3>2. Exact(p, Own) /\ \A q \in Stmts \ {s} : p.stmts[q] = d.stmts[q]
      BY <1>2, <2>2, <3>1, StmtReleaseExact
    <3>3. ClientCall(p, owned)
      BY <2>1, <2>4, <3>1 DEF ExecuteInline
    <3>4. /\ (dbConn # NULL => stmt \notin owned /\ p.stmts[stmt] = d.stmts[stmt])
          /\ \A q \in owned \cap Stmts : p.stmts[q].refs > 0
      BY <1>4, <1>5, <1>6, <3>2
    <3>5. \A g \in Handles : Own[g] = Own[g] - In(owned, g) + In(owned, g)
      BY <1>3 DEF In
    <3> QED BY <1>4, <3>2, <3>3, <3>4, <3>5, ClientCallStep
  <2> QED BY <1>1, <1>8, <2>1, <2>3, <2>4 DEF ClientStatement
<1> QED BY <1>7, <1>8

LEMMA ClientReleaseStep ==
  ASSUME Exact(d, Own), Owners, At("idle"), NEW s \in owned \cap Stmts,
         ClientCall(StmtRelease(d, s), owned \ {s})
  PROVE  Exact(d, Own)' /\ Owners'
<1>1. PICK o, held : o = StmtRelease(d, s) /\ held = owned \ {s}
  OBVIOUS
<1>2. owned \subseteq Handles \cup Stmts /\ \A q \in owned \cap Stmts : d.stmts[q].refs > 0
  BY DEF Owners, Live
<1>3. Exact(o, Own) /\ \A q \in Stmts \ {s} : o.stmts[q] = d.stmts[q]
  BY <1>1, <1>2, StmtReleaseExact
<1>4. /\ held \subseteq Handles \cup Stmts
      /\ (dbConn # NULL => stmt \notin held /\ o.stmts[stmt] = d.stmts[stmt])
      /\ \A q \in held \cap Stmts : o.stmts[q].refs > 0
  <2>1. dbConn # NULL => stmt \in Stmts /\ stmt \notin owned
    BY DEF Owners
  <2> QED BY <1>1, <1>2, <1>3, <2>1
<1>5. Own \in [Handles -> Nat] /\ s \notin Handles
  BY OwnFacts, DatabaseAssumption
<1>6. \A g \in Handles : Own[g] = Own[g] - In(owned, g) + In(held, g)
  BY <1>1, <1>5 DEF In
<1>7. ClientCall(o, held)
  BY <1>1
<1> QED BY <1>3, <1>4, <1>6, <1>7, ClientCallStep

LEMMA NoObjectsExact ==
  ASSUME NEW own, own = [h \in Handles |-> 0]
  PROVE  Exact(NoObjects, own)
<1>1. NoHandle \in HandleType /\ NoHandle.refs = 0 /\ NoHandle.conn = NULL
  BY DEF NoHandle, HandleType
<1>2. NoStmt \in StmtType /\ NoStmt.refs = 0 /\ NoStmt.conn = NULL
  BY DEF NoStmt, StmtType
<1>3. /\ NoObjects \in ObjType /\ NoObjects.conns = {}
      /\ \A h \in Handles : NoObjects.handles[h] = NoHandle
      /\ \A s \in Stmts : NoObjects.stmts[s] = NoStmt
  BY <1>1, <1>2 DEF NoObjects, ObjType
<1>4. Sound(NoObjects)
  BY <1>1, <1>2, <1>3 DEF Sound
<1>5. \A h \in Handles : StmtsOf(NoObjects, h) = {}
  BY <1>2, <1>3 DEF StmtsOf
<1>6. \A h \in Handles : Cardinality(StmtsOf(NoObjects, h)) = 0
  BY <1>5, FS_EmptySet
<1> QED BY <1>1, <1>3, <1>4, <1>6 DEF Exact

LEMMA EndsStep ==
  ASSUME Ends
  PROVE  Exact(d, Own)' /\ Owners'
<1>1. /\ d' = NoObjects /\ dbConn' = NULL /\ stmt' = NULL /\ pc' = "off" /\ tmp' = NULL
      /\ owned' = {} /\ lost' = {}
  BY DEF Ends
<1>2. Own' = [h \in Handles |-> 0]
  BY <1>1, DatabaseAssumption DEF Own, Is, In
<1>3. Exact(d, Own)'
  BY <1>1, <1>2, NoObjectsExact
<1>4. Owners'
  BY <1>1 DEF Owners, Live, Creating
<1> QED BY <1>3, <1>4

LEMMA AssetInit == Init => AssetInv
<1> SUFFICES ASSUME Init PROVE AssetInv
  OBVIOUS
<1>1. Own = [h \in Handles |-> 0]
  BY DatabaseAssumption DEF Init, Own, Is, In
<1>2. Exact(d, Own)
  BY <1>1, NoObjectsExact DEF Init
<1> QED BY <1>2 DEF Init, AssetInv, Owners, FileInv, Live, Creating

LEMMA AssetNext == AssetInv /\ [Next]_vars => AssetInv'
<1> SUFFICES ASSUME AssetInv, [Next]_vars PROVE AssetInv'
  OBVIOUS
<1>0. Exact(d, Own) /\ Owners /\ FileInv
  BY DEF AssetInv
<1>1. FileInv'
  BY <1>0, FileStep
<1> SUFFICES Exact(d, Own)' /\ Owners'
  BY <1>1 DEF AssetInv
<1>2. CASE Startup \/ CreateDatabase \/ CreateOpenFails \/ SchemaTable \/ SchemaDone
           \/ QueryAsset \/ UNCHANGED vars
  <2>1. UNCHANGED <<d, dbConn, owned, lost, stmt>>
    BY <1>2 DEF Startup, CreateDatabase, CreateOpenFails, CreateLeaves, SchemaTable, SchemaDone,
                QueryAsset, Die, vars, mgrVars, histVars
  <2>2. tmp' = tmp /\ (pc' \in Creating <=> pc \in Creating)
    <3>1. CASE CreateOpenFails
      BY <1>0, <3>1 DEF CreateOpenFails, CreateLeaves, At, Owners, Creating
    <3>2. CASE Startup \/ CreateDatabase
      BY <3>2 DEF Startup, CreateDatabase, At, Creating
    <3>3. CASE SchemaTable \/ SchemaDone
      BY <3>3 DEF SchemaTable, SchemaDone, At, Creating
    <3>4. CASE QueryAsset \/ UNCHANGED vars
      BY <3>4 DEF QueryAsset, Die, vars, mgrVars
    <3> QED BY <1>2, <3>1, <3>2, <3>3, <3>4
  <2> QED BY <1>0, <2>1, <2>2, QuietStep
<1>3. CASE CreateOpens
  BY <1>0, <1>3, CreateOpensStep
<1>4. CASE SchemaFails \/ CreateReopens
  BY <1>0, <1>4, CreateEndsStep
<1>5. CASE OpenDatabase
  BY <1>0, <1>5, OpenDatabaseStep
<1>6. CASE CloseDatabase
  <2>1. /\ dbConn # NULL /\ d' = Closed(d) /\ dbConn' = NULL /\ stmt' = NULL
        /\ UNCHANGED <<tmp, owned, lost>>
    BY <1>6 DEF CloseDatabase, histVars
  <2>2. tmp = NULL /\ pc' \notin Creating
    BY <1>0, <1>6 DEF CloseDatabase, Owners, At, Creating
  <2> QED BY <1>0, <2>1, <2>2, CloseStep
<1>7. CASE Shutdown
  <2>1. tmp = NULL /\ pc' \notin Creating /\ pc \notin Creating /\ UNCHANGED <<tmp, owned, lost>>
    BY <1>0, <1>7 DEF Shutdown, Owners, At, Creating, histVars
  <2>2. CASE standalone /\ dbConn # NULL
    <3>1. d' = Closed(d) /\ dbConn' = NULL /\ stmt' = NULL
      BY <1>7, <2>2 DEF Shutdown
    <3> QED BY <1>0, <2>1, <2>2, <3>1, CloseStep
  <2>3. CASE ~(standalone /\ dbConn # NULL)
    <3>1. UNCHANGED <<d, dbConn, stmt>>
      BY <1>7, <2>3 DEF Shutdown
    <3> QED BY <1>0, <2>1, <3>1, QuietStep
  <2> QED BY <2>2, <2>3
<1>8. CASE ClientStep
  <2>0. At("idle")
    BY <1>8 DEF ClientStep
  <2>1. CASE ClientNew
    BY <1>0, <2>0, <2>1, ClientNewStep
  <2>2. ASSUME NEW h \in owned \cap Handles, ClientHandle(h)
        PROVE  Exact(d, Own)' /\ Owners'
    BY <1>0, <2>0, <2>2, ClientHandleStep
  <2>3. ASSUME NEW h \in owned \cap Handles, ClientStatement(h)
        PROVE  Exact(d, Own)' /\ Owners'
    BY <1>0, <2>0, <2>3, ClientStatementStep
  <2>4. ASSUME NEW s \in owned \cap Stmts, ClientCall(StmtRelease(d, s), owned \ {s})
        PROVE  Exact(d, Own)' /\ Owners'
    BY <1>0, <2>0, <2>4, ClientReleaseStep
  <2> QED BY <1>8, <2>1, <2>2, <2>3, <2>4 DEF ClientStep
<1>9. CASE Ends
  BY <1>9, EndsStep
<1> QED BY <1>2, <1>3, <1>4, <1>5, <1>6, <1>7, <1>8, <1>9 DEF Next

LEMMA AssetAlways == Spec => []AssetInv
BY AssetInit, AssetNext, PTL DEF Spec

(* For any number of handles, statements and connections, and whatever the *)
(* order of the calls of the asset manager and of other clients: every     *)
(* count of src/Noriko/db.c is exact, a live statement finds the           *)
(* connection it was prepared for, and sqlite3 keeps open only what a      *)
(* handle knows.                                                           *)
THEOREM AssetObjectsExact == Spec => []ObjectsExact
<1>1. AssetInv => ObjectsExact
  <2> SUFFICES ASSUME Exact(d, Own), Owners PROVE ObjectsExact
    BY DEF AssetInv
  <2>0. Sound(d) /\ d \in ObjType /\ d.conns \subseteq Conns
    BY ObjTyped DEF Exact, Sound
  <2>1. \A x, h : Cardinality({x} \cap {h}) = Is(x, h)
    <3> TAKE x, h
    <3>1. CASE x = h
      <4>1. {x} \cap {h} = {x}
        BY <3>1
      <4> QED BY <3>1, <4>1, FS_Singleton DEF Is
    <3>2. CASE x # h
      <4>1. {x} \cap {h} = {}
        BY <3>2
      <4> QED BY <3>2, <4>1, FS_EmptySet DEF Is
    <3> QED BY <3>1, <3>2
  <2>2. \A S, h : Cardinality(S \cap {h}) = In(S, h)
    <3> TAKE S, h
    <3>1. CASE h \in S
      <4>1. S \cap {h} = {h}
        BY <3>1
      <4> QED BY <3>1, <4>1, FS_Singleton DEF In
    <3>2. CASE h \notin S
      <4>1. S \cap {h} = {}
        BY <3>2
      <4> QED BY <3>2, <4>1, FS_EmptySet DEF In
    <3> QED BY <3>1, <3>2
  <2>3. \A h \in Handles : d.handles[h].refs = Holders(h) + Cardinality(lost \cap {h})
    <3> SUFFICES ASSUME NEW h \in Handles
                 PROVE  d.handles[h].refs = Holders(h) + Cardinality(lost \cap {h})
      OBVIOUS
    <3>1. PICK n \in Nat : n = Cardinality(StmtsOf(d, h)) /\ d.handles[h].refs = n + Own[h]
      BY ExactFacts
    <3>2. {s \in Stmts : Live(s) /\ d.stmts[s].db = h} = StmtsOf(d, h)
      BY DEF Live, StmtsOf
    <3>3. Holders(h) = n + Is(dbConn, h) + Is(tmp, h) + In(owned, h)
      BY <2>1, <2>2, <3>1, <3>2 DEF Holders
    <3>4. Own[h] = Is(dbConn, h) + Is(tmp, h) + In(owned, h) + In(lost, h)
      BY OwnFacts
    <3>5. Is(dbConn, h) \in Nat /\ Is(tmp, h) \in Nat /\ In(owned, h) \in Nat /\ In(lost, h) \in Nat
      BY DEF Is, In
    <3> QED BY <2>2, <3>1, <3>3, <3>4, <3>5
  <2>4. \A s \in Stmts : Live(s) => /\ d.stmts[s].conn \in d.conns
                                    /\ d.handles[d.stmts[s].db].conn = d.stmts[s].conn
    BY <2>0 DEF Live, Sound
  <2>5. d.conns = {d.handles[h].conn : h \in Handles} \ {NULL}
    <3>1. ASSUME NEW c \in d.conns PROVE c \in {d.handles[h].conn : h \in Handles} \ {NULL}
      BY <2>0, DatabaseAssumption DEF Sound
    <3>2. ASSUME NEW h \in Handles, d.handles[h].conn # NULL PROVE d.handles[h].conn \in d.conns
      BY <2>0, <3>2 DEF Sound
    <3> QED BY <3>1, <3>2
  <2>6. dbConn # NULL => stmt # NULL /\ Live(stmt) /\ d.stmts[stmt].db = dbConn
    BY DEF Owners
  <2> QED BY <2>3, <2>4, <2>5, <2>6 DEF ObjectsExact
<1> QED BY <1>1, AssetAlways, PTL

(* The asset manager meets an incomplete database, or crashes on one, only *)
(* after a creation of the file that failed or was cut short, in this      *)
(* process or an earlier one.                                              *)
THEOREM AssetIncompleteCause == Spec => []IncompleteCause
<1>1. AssetInv => IncompleteCause
  BY DEF AssetInv, FileInv, IncompleteCause
<1> QED BY <1>1, AssetAlways, PTL
=============================================================================
