------------------------------ MODULE Cluster ------------------------------
(***************************************************************************)
(* The custom resources of the Kubernetes cluster as the shim sees them.   *)
(* The shim keeps no state of its own: a resource is addressed by a GUID,  *)
(* which is the object's name, and lives in a namespace, which is the CF   *)
(* space.  A store maps GUID and namespace to a slot: Absent when no such  *)
(* object was ever written, Deleted when it was removed (names are         *)
(* generated UUIDs, docs/architecture-decisions/0001, so that a removed    *)
(* object is not written again), and otherwise the object.                 *)
(***************************************************************************)
CONSTANTS Spaces,  \* namespaces
          Absent, Deleted

ASSUME SlotAssumption == Absent # Deleted

Exists(slot) == slot \notin {Absent, Deleted}

\* The namespaces that hold an object with this GUID: what a cluster-wide List
\* filtered by metadata.name leaves (filterPackagesByMetadataName and its twins).
Where(store, guid) == {s \in Spaces : Exists(store[guid][s])}

\* returnPackage, returnApp, returnBuild: no match, more than one, exactly one.
NotFound(store, guid) == Where(store, guid) = {}
Duplicated(store, guid) == \E s, t \in Where(store, guid) : s # t
FoundIn(store, guid, s) == Where(store, guid) = {s}
=============================================================================
