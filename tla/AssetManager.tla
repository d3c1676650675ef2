---------------------------- MODULE AssetManager ----------------------------
(***************************************************************************)
(* The asset manager, src/Noriko/asset.c, over the database objects, with  *)
(* the database file that outlives the process.  Creating the file takes   *)
(* several steps of sqlite3 that are durable one by one; the process may   *)
(* end between any two.  Other clients use handles and statements of their *)
(* own.  A statement that does not compile is released before it knows its *)
(* handle, which is a call through NULL; such an end is recorded in dead.  *)
(***************************************************************************)
EXTENDS Database

VARIABLES
  file,        (* what "assets.db" holds: nothing, no table, the first     *)
               (* table, or both                                           *)
  d,           (* the database objects                                     *)
  dbConn,      (* mp_dbConn                                                *)
  stmt,        (* mp_queryAssetStmt                                        *)
  pc,          (* where the process is                                     *)
  standalone,  (* NkApplicationIsStandalone()                              *)
  booting,     (* CreateDatabase was called by the startup                 *)
  tmp,         (* dbHandle of CreateDatabase                               *)
  owned,       (* the handles and statements other clients hold            *)
  dead,        (* which call ended the process, or "no"                    *)
  cutShort,    (* history: a creation of the file was not completed        *)
  lost         (* history: handles mp_dbConn pointed to when overwritten   *)

mgrVars == <<dbConn, stmt, pc, standalone, booting, tmp>>
histVars == <<cutShort, lost>>
vars == <<file, d, mgrVars, owned, dead, histVars>>

Init ==
  /\ file = "absent" /\ d = NoObjects
  /\ dbConn = NULL /\ stmt = NULL
  /\ pc = "off" /\ standalone = FALSE /\ booting = FALSE /\ tmp = NULL
  /\ owned = {} /\ dead = "no"
  /\ cutShort = FALSE /\ lost = {}

Alive == dead = "no"

HasAssets(f) == f \in {"assets", "full"}

Die(why) == dead' = why /\ UNCHANGED <<file, d, mgrVars, owned, histVars>>

At(where) == Alive /\ pc = where

NewObject(free) == CHOOSE x \in free : TRUE

(***************************************************************************)
(* CreateDatabase, which is Create() on a handle of its own, released on   *)
(* every exit.                                                             *)
(***************************************************************************)
(* The return: the startup goes on with OpenDatabase, or fails.            *)
CreateLeaves(ok, objs) ==
  /\ d' = objs
  /\ tmp' = NULL /\ booting' = FALSE
  /\ pc' = IF ~booting THEN "idle" ELSE IF ok THEN "open" ELSE "failed"
  /\ UNCHANGED <<dbConn, stmt, standalone>>

(* Open() with NkDbMode_Create.                                            *)
CreateOpens ==
  LET h == NewObject(FreeHandles(d))
  IN  /\ At("create") /\ HasRoom(d)
      /\ d' = Open(NewHandle(d, h), h)
      /\ file' = IF file = "absent" THEN "empty" ELSE file
      /\ cutShort' = (cutShort \/ file # "full")
      /\ tmp' = h /\ pc' = "schema"
      /\ UNCHANGED <<dbConn, stmt, standalone, booting, owned, dead, lost>>

(* The instance cannot be made, or Open() fails and it is released.        *)
CreateOpenFails ==
  /\ At("create")
  /\ CreateLeaves(FALSE, d)
  /\ UNCHANGED <<file, owned, dead, histVars>>

(* Fault: the schema is not applied.                                       *)
NextTable_None(f) == f

(* The statement of the schema that comes next makes one table.            *)
NextTable(f) == IF f = "empty" THEN "assets" ELSE "full"

(* sqlite3_exec of the schema, one table at a time.                        *)
SchemaTable ==
  /\ At("schema") /\ file = "empty"
  /\ file' = NextTable(file) /\ pc' = "schema2"
  /\ UNCHANGED <<d, dbConn, stmt, standalone, booting, tmp, owned, dead, histVars>>

SchemaDone ==
  /\ At("schema2")
  /\ file' = NextTable(file) /\ pc' = "reopen" /\ cutShort' = FALSE
  /\ UNCHANGED <<d, dbConn, stmt, standalone, booting, tmp, owned, dead, lost>>

(* sqlite3_exec fails, in any case when the first table exists.            *)
SchemaFails ==
  /\ At("schema") \/ At("schema2")
  /\ CreateLeaves(FALSE, DbRelease(Close(d, tmp), tmp))
  /\ UNCHANGED <<file, owned, dead, histVars>>

(* Close(), Open() with the actual mode, Release() in either case.         *)
CreateReopens ==
  LET closed == Close(d, tmp)
  IN  /\ At("reopen")
      /\ \/ CreateLeaves(TRUE, DbRelease(Open(closed, tmp), tmp))
         \/ CreateLeaves(FALSE, DbRelease(closed, tmp))
      /\ UNCHANGED <<file, owned, dead, histVars>>

(***************************************************************************)
(* OpenDatabase                                                            *)
(***************************************************************************)
(* Every outcome overwrites mp_dbConn; the statement is overwritten when   *)
(* it comes to that.                                                       *)
OpenLeaves(ok, objs, conn, st) ==
  /\ d' = objs /\ dbConn' = conn /\ stmt' = st
  /\ lost' = lost \cup ({dbConn} \ {NULL})
  /\ pc' = IF pc = "open" /\ ~ok THEN "failed" ELSE "idle"
  /\ UNCHANGED <<file, standalone, booting, tmp, owned, dead, cutShort>>

(* The instance cannot be made, or the file cannot be opened and the       *)
(* handle is released.                                                     *)
OpenFails == OpenLeaves(FALSE, d, NULL, stmt)

(* The statement cannot be made: the handle is released.                   *)
OpenNoStatement ==
  LET h == NewObject(FreeHandles(d))
  IN  /\ file # "absent"
      /\ OpenLeaves(FALSE, DbRelease(Open(NewHandle(d, h), h), h), NULL, NULL)

OpenSucceeds ==
  LET h == NewObject(FreeHandles(d))
      s == NewObject(FreeStmts(d))
  IN  /\ HasAssets(file)
      /\ OpenLeaves(TRUE, StmtInitialize(Open(NewHandle(d, h), h), s, h), h, s)

(* The statement does not compile.                                         *)
OpenCrashes == file = "empty" /\ Die("open")

OpenDatabase ==
  /\ At("idle") \/ At("open")
  /\ HasRoom(d)
  /\ OpenFails \/ OpenNoStatement \/ OpenSucceeds \/ OpenCrashes

(***************************************************************************)
(* CloseDatabase and QueryAsset                                            *)
(***************************************************************************)
Closed(objs) == DbRelease(StmtRelease(objs, stmt), dbConn)

CloseDatabase ==
  /\ At("idle") /\ dbConn # NULL
  /\ d' = Closed(d) /\ dbConn' = NULL /\ stmt' = NULL
  /\ UNCHANGED <<file, pc, standalone, booting, tmp, owned, dead, histVars>>

(* The cache is always empty.  Parameter 1 of 1 is taken for out of range, *)
(* so nothing is bound.                                                    *)
QueryAsset ==
  /\ At("idle")
  /\ IF stmt = NULL \/ dbConn = NULL THEN Die("query") ELSE UNCHANGED vars

(***************************************************************************)
(* Startup and shutdown of the component, and the end of the process       *)
(***************************************************************************)
(* Initialize() fails when there is no memory for the asset cache.         *)
Startup ==
  /\ At("off")
  /\ \E sa \in BOOLEAN :
       /\ standalone' = sa
       /\ \/ pc' = "failed" /\ UNCHANGED booting
          \/ /\ pc' = IF ~sa THEN "idle" ELSE IF file = "absent" THEN "create" ELSE "open"
             /\ booting' = (sa /\ file = "absent")
  /\ UNCHANGED <<file, d, dbConn, stmt, tmp, owned, dead, histVars>>

CreateDatabase ==
  /\ At("idle")
  /\ pc' = "create"
  /\ UNCHANGED <<file, d, dbConn, stmt, standalone, booting, tmp, owned, dead, histVars>>

Shutdown ==
  /\ At("idle")
  /\ pc' = "left"
  /\ IF standalone /\ dbConn # NULL
     THEN d' = Closed(d) /\ dbConn' = NULL /\ stmt' = NULL
     ELSE UNCHANGED <<d, dbConn, stmt>>
  /\ UNCHANGED <<file, standalone, booting, tmp, owned, dead, histVars>>

(* The process ends: orderly, after a failed startup, by a crash, or from  *)
(* outside at any time.  Only the file stays.                              *)
Ends ==
  /\ pc # "off"
  /\ d' = NoObjects
  /\ dbConn' = NULL /\ stmt' = NULL
  /\ pc' = "off" /\ standalone' = FALSE /\ booting' = FALSE /\ tmp' = NULL
  /\ owned' = {} /\ dead' = "no" /\ lost' = {}
  /\ UNCHANGED <<file, cutShort>>

(***************************************************************************)
(* Other clients: any order of calls on handles and statements they hold   *)
(***************************************************************************)
ClientCall(objs, held) == d' = objs /\ owned' = held /\ UNCHANGED <<file, mgrVars, dead, histVars>>

ClientNew ==
  LET h == NewObject(FreeHandles(d))
  IN  HasRoom(d) /\ ClientCall(NewHandle(d, h), owned \cup {h})

(* Open(), Close() and Release(); Open() refuses a handle that is open.    *)
ClientHandle(h) ==
  \/ ~IsOpen(d, h) /\ HasRoom(d) /\ ClientCall(Open(d, h), owned)
  \/ ClientCall(Close(d, h), owned)
  \/ ClientCall(DbRelease(d, h), owned \ {h})

(* CreateStatement() and ExecuteInline() with correct SQL, which does not  *)
(* compile without a connection.                                           *)
ClientStatement(h) ==
  LET s == NewObject(FreeStmts(d))
  IN  /\ HasRoom(d)
      /\ IF ~IsOpen(d, h) THEN Die("client")
         ELSE \/ ClientCall(StmtInitialize(d, s, h), owned \cup {s})
              \/ ClientCall(ExecuteInline(d, s, h), owned)

ClientStep ==
  /\ At("idle")
  /\ \/ ClientNew
     \/ \E h \in owned \cap Handles : ClientHandle(h) \/ ClientStatement(h)
     \/ \E s \in owned \cap Stmts : ClientCall(StmtRelease(d, s), owned \ {s})

Next ==
  \/ Startup \/ CreateDatabase
  \/ CreateOpens \/ CreateOpenFails \/ SchemaTable \/ SchemaDone \/ SchemaFails \/ CreateReopens
  \/ OpenDatabase \/ CloseDatabase \/ QueryAsset
  \/ ClientStep \/ Shutdown \/ Ends

Spec == Init /\ [][Next]_vars
-----------------------------------------------------------------------------
Live(s) == d.stmts[s].refs > 0

Holders(h) ==
  Cardinality({s \in Stmts : Live(s) /\ d.stmts[s].db = h})
    + Cardinality({dbConn} \cap {h}) + Cardinality({tmp} \cap {h})
    + Cardinality(owned \cap {h})

(* Whatever the order in which handles and statements are closed and       *)
(* released: a handle has one reference for each of its statements and of  *)
(* its owners, plus the one that leaks when OpenDatabase is called while a *)
(* database is open; a live statement finds its handle with the connection *)
(* it was prepared for; and sqlite3 keeps no connection open that no       *)
(* handle knows.                                                           *)
ObjectsExact ==
  /\ \A h \in Handles : d.handles[h].refs = Holders(h) + Cardinality(lost \cap {h})
  /\ \A s \in Stmts : Live(s) => /\ d.stmts[s].conn \in d.conns
                                  /\ d.handles[d.stmts[s].db].conn = d.stmts[s].conn
  /\ d.conns = {d.handles[h].conn : h \in Handles} \ {NULL}
  /\ dbConn # NULL => stmt # NULL /\ Live(stmt) /\ d.stmts[stmt].db = dbConn

(* The asset manager works with an incomplete database, or crashes on one, *)
(* only if a creation of the file failed or was cut short by the end of    *)
(* some earlier process.                                                   *)
IncompleteCause ==
  dead = "open" \/ (dbConn # NULL /\ file # "full") => cutShort
=============================================================================
