------------------------------ MODULE Database ------------------------------
(***************************************************************************)
(* The database objects of src/Noriko/db.c: handles (NkIDatabase) and      *)
(* statements (NkISqlStatement), both counted, over sqlite3 connections.   *)
(* Operations are functions of the state d of all objects:                 *)
(*   handles  m_refCount and mp_dbConn; a count of 0 is free memory        *)
(*   stmts    m_refCount, mp_dbConn and the connection the statement was   *)
(*            prepared for                                                 *)
(*   conns    the connections that are open in sqlite3                     *)
(* NkOMCreateInstance hands out one reference or none (ObjectModel).       *)
(***************************************************************************)
EXTENDS Integers, FiniteSets

CONSTANTS Handles, Stmts, Conns, NULL

ASSUME DatabaseAssumption ==
  /\ NULL \notin Handles \cup Stmts \cup Conns /\ Handles \cap Stmts = {}
  /\ IsFiniteSet(Stmts)

NoHandle == [refs |-> 0, conn |-> NULL]
NoStmt == [refs |-> 0, db |-> NULL, conn |-> NULL]

NoObjects == [handles |-> [h \in Handles |-> NoHandle],
              stmts |-> [s \in Stmts |-> NoStmt],
              conns |-> {}]

FreeHandles(d) == {h \in Handles : d.handles[h].refs = 0}
FreeStmts(d) == {s \in Stmts : d.stmts[s].refs = 0}
FreeConns(d) == Conns \ d.conns

(* Bound: there is room for one more object of every kind.                 *)
HasRoom(d) == FreeHandles(d) # {} /\ FreeStmts(d) # {} /\ FreeConns(d) # {}

IsOpen(d, h) == d.handles[h].conn # NULL

(* A new object of the factory, with its first reference.                  *)
NewHandle(d, h) == [d EXCEPT !.handles[h] = [NoHandle EXCEPT !.refs = 1]]

(* sqlite3_close refuses while the connection has statements.              *)
Busy(d, conn) == \E s \in Stmts : d.stmts[s].conn = conn

Close(d, h) ==
  LET conn == d.handles[h].conn
  IN  IF conn = NULL \/ Busy(d, conn) THEN d
      ELSE [d EXCEPT !.handles[h].conn = NULL, !.conns = @ \ {conn}]

(* The success of Open(), for a handle that is not open.                   *)
Open(d, h) ==
  LET conn == CHOOSE c \in FreeConns(d) : TRUE
  IN  [d EXCEPT !.handles[h].conn = conn, !.conns = @ \cup {conn}]

(* The last Release() closes, and frees the handle whatever Close() says.  *)
DbRelease(d, h) ==
  IF d.handles[h].refs > 1 THEN [d EXCEPT !.handles[h].refs = @ - 1]
  ELSE [Close(d, h) EXCEPT !.handles[h] = NoHandle]

(* Fault: the statement takes no reference on its handle.                  *)
StmtInitialize_NoRef(d, s, h) ==
  [d EXCEPT !.stmts[s] = [refs |-> 1, db |-> h, conn |-> d.handles[h].conn]]

(* CreateStatement(), when the instance is made and its SQL compiles.      *)
StmtInitialize(d, s, h) ==
  [d EXCEPT !.stmts[s] = [refs |-> 1, db |-> h, conn |-> d.handles[h].conn],
            !.handles[h].refs = @ + 1]

(* The last Release() finalizes the statement and gives up its handle.     *)
StmtRelease(d, s) ==
  IF d.stmts[s].refs > 1 THEN [d EXCEPT !.stmts[s].refs = @ - 1]
  ELSE DbRelease([d EXCEPT !.stmts[s] = NoStmt], d.stmts[s].db)

(* ExecuteInline(), when the statement could be made.                      *)
ExecuteInline(d, s, h) == StmtRelease(StmtInitialize(d, s, h), s)
=============================================================================
