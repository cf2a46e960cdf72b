--------------------------- MODULE MCEntryOptions ---------------------------
(***************************************************************************)
(* Instances of EntryOptions for TLC.                                      *)
(***************************************************************************)
EXTENDS EntryOptions

CONSTANTS
  r1, r2, h1,
  CrowdedReloads   \* bound: reloads with two forms open or a request refused

\* Two robots; the lists of the servers hold none, one or both, with or without
\* a model, a local key and a Tuya id of its own.  The account is migrated, has
\* an AIOT list behind its second login, or neither.  The old endpoint lists both
\* robots or none.
AccountsOfTwo ==
  {a \in [aiot : {{}, {r1}, Robots}, home : {{}, {r2}, Robots},
          cloud : {{}, Robots}, mega : {{}, Robots},
          tuya : SUBSET Robots, keyed : SUBSET Robots, known : {{r1}, Robots},
          sameId : {{r1}, Robots}, userCenter : {{}, {"v1"}}] :
     /\ a.keyed \in {{}, a.tuya} /\ (a.cloud = Robots <=> a.home = Robots)
     /\ a.userCenter = {} <=> a.aiot = {}
     /\ a.mega # {} => a.aiot = {} /\ a.home = {} }

\* A form that lost its field for the address, and got it back, takes four
\* reloads: a form at a time and complete discoveries are enough for it.
MCNext ==
  /\ Next
  /\ reloads' > CrowdedReloads => Cardinality(forms') <= 1 /\ refusals' = {}

MCSpec == Init /\ [][MCNext]_vars
=============================================================================
