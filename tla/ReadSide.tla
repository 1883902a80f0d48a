-------------------------------- MODULE ReadSide --------------------------------
(***************************************************************************)
(* The reading side's parts side by side: the hot tier's ring with its     *)
(* queries, the watermark service (its store and the service around it),   *)
(* the query API and the control plane.  They share no state.  So a        *)
(* behaviour is one of the component it starts with, its subject, while    *)
(* the others rest: their variables are empty, those of the ring initial.  *)
(***************************************************************************)
EXTENDS HotTierRing

CONSTANTS
  Services, Tables, EventTimes, ProcessingTimes,           (* store        *)
  Objectives, DefaultObjective,
  Endpoints, Callers, Cleaner, Clients, ClientIDs,         (* server       *)
  ChannelCap, Versions, Absent,
  Queriers, Queries, TTL, CallTimeout, RedisTimeout,       (* query API    *)
  Grace,
  Requests, Namespaces, TableNames, NoTable                (* plane        *)

VARIABLES
  subject,
  registered, service, tracked, table, objective, violation, outdated,
  life, collecting, pc, announced, holds, version, seen, stream,
  streamClients, id, queue,
  phase, drained, enabled, connected, cache, qstep, query, waited, answer,
  step, target, status, rows, audits, unlogged

store == <<registered, service, tracked, table, objective, violation, outdated>>
server == <<life, collecting, pc, announced, holds, version, seen, stream,
           streamClients, id, queue>>
path == <<phase, drained, enabled, connected, cache, qstep, query, waited,
           answer>>
plane == <<step, target, status, rows, audits, unlogged>>

Store == INSTANCE WatermarkStore
Server == INSTANCE WatermarkService WITH Nobody <- Absent, phase <- life
Path == INSTANCE QueryPath WITH Requests <- Queriers, step <- qstep
Plane == INSTANCE ControlPlane WITH Tables <- TableNames

ASSUME ReadSideAssumption ==
  /\ Store!StoreAssumption /\ Server!ServiceAssumption
  /\ Path!QueryAssumption /\ Plane!PlaneAssumption

readSideVars == <<subject, vars, store, server, path, plane>>

Rest == {}

ReadSideInit ==
  /\ subject \in {"ring", "store", "server", "path", "plane"}
  /\ Init
  /\ IF subject = "store" THEN Store!Init
     ELSE /\ registered = Rest /\ service = Rest /\ tracked = Rest
          /\ table = Rest /\ objective = Rest /\ violation = Rest
          /\ outdated = Rest
  /\ IF subject = "server" THEN Server!Init
     ELSE /\ life = Rest /\ collecting = Rest /\ pc = Rest
          /\ announced = Rest /\ holds = Rest /\ version = Rest
          /\ seen = Rest /\ stream = Rest /\ streamClients = Rest
          /\ id = Rest /\ queue = Rest
  /\ IF subject = "path" THEN Path!Init
     ELSE /\ phase = Rest /\ drained = Rest /\ enabled = Rest
          /\ connected = Rest /\ cache = Rest /\ qstep = Rest
          /\ query = Rest /\ waited = Rest /\ answer = Rest
  /\ IF subject = "plane" THEN Plane!Init
     ELSE /\ step = Rest /\ target = Rest /\ status = Rest /\ rows = Rest
          /\ audits = Rest /\ unlogged = Rest

ReadSideNext ==
  \/ /\ subject = "ring" /\ Next
     /\ UNCHANGED <<subject, store, server, path, plane>>
  \/ /\ subject = "store" /\ Store!Next
     /\ UNCHANGED <<subject, vars, server, path, plane>>
  \/ /\ subject = "server" /\ Server!Next
     /\ UNCHANGED <<subject, vars, store, path, plane>>
  \/ /\ subject = "path" /\ Path!Next
     /\ UNCHANGED <<subject, vars, store, server, plane>>
  \/ /\ subject = "plane" /\ Plane!Next
     /\ UNCHANGED <<subject, vars, store, server, path>>

ReadSideSpec == ReadSideInit /\ [][ReadSideNext]_readSideVars

-----------------------------------------------------------------------------
(* Every component keeps its types.                                        *)
AllTypes ==
  CASE subject = "ring"   -> TypeOK
    [] subject = "store"  -> Store!TypeOK
    [] subject = "server" -> Server!TypeOK
    [] subject = "path"   -> Path!TypeOK
    [] subject = "plane"  -> Plane!TypeOK

(* Tables of watermarks, and the system's, agree with the services' own    *)
(* (store.go:190, :316).                                                   *)
WatermarksAgree ==
  subject = "store" => Store!WatermarksAgree

(* A table's minimum does not go back (store.go:135).                      *)
NeverBack == Store!NeverBack

(* Nothing but a readiness check between its two locks blocks the store,   *)
(* what it reads under them is one version, and no update is sent into a   *)
(* closed stream (handler.go:141, store.go:376, server.go:288).            *)
LocksRight ==
  subject = "server" => Server!LocksRight

(* An answer is one to its own query and not too old (main.go:113, :130).  *)
AnswersRight ==
  subject = "path" => Path!AnswersRight

(* One of the requests for a name is told that it made it, and the audit   *)
(* trail has what was acknowledged (main.go:229, audit.go:98).             *)
WritesRecorded ==
  subject = "plane" => Plane!WritesRecorded
=============================================================================
