---------------------------- MODULE AtomicBuild -----------------------------
(***************************************************************************)
(* What `.content build` promises about build numbers and resource leases, *)
(* whatever the number of worldservers: every recorded build is one        *)
(* indivisible step that numbers itself after the last recorded build and  *)
(* plans its leases against the lease table of that very moment.           *)
(*                                                                         *)
(* BuildAllocation, where numbering, planning, assembly and commit are     *)
(* separate steps of several processes, implements this specification.     *)
(***************************************************************************)
EXTENDS ResourcePlan

CONSTANT Payload

VARIABLES
  builds,   \* recorded builds: number -> artifact
  leases    \* lease table

vars == <<builds, leases>>

Artifact == [payload : Payload, values : UNION {[S -> Value] : S \in SUBSET Identity}]

Init ==
  /\ builds = [n \in {} |-> n]
  /\ leases = NoLeases

\* The values of a build fit the lease table when a request with a row keeps
\* its value, one that inherits takes its predecessor's, and all others get
\* values nobody holds, each its own.
Fits(values, table) ==
  /\ \A i \in Retained(DOMAIN values, table) : values[i] = table[i].value
  /\ \A i \in Inherited(DOMAIN values, table) :
       \E j \in Predecessors(i, table) : values[i] = table[j].value
  /\ \A i \in Fresh(DOMAIN values, table) : values[i] \notin Values(table)
  /\ \A i, j \in DOMAIN values : values[i] = values[j] => i = j

\* The predecessors whose rows the build takes over.
Moved(values, table) ==
  {j \in DOMAIN table : \E i \in Inherited(DOMAIN values, table) :
     j \in Predecessors(i, table) /\ values[i] = table[j].value}

\* The table after the build: a request with a row, or with a predecessor's,
\* has that row touched; a fresh one has a new row; the rest is untouched.
Record(n, values, table, next) ==
  /\ DOMAIN next = (DOMAIN table \ Moved(values, table)) \cup DOMAIN values
  /\ \A i \in Retained(DOMAIN values, table) : next[i] = [table[i] EXCEPT !.last = n]
  /\ \A i \in Inherited(DOMAIN values, table) :
       \E j \in Predecessors(i, table) :
         values[i] = table[j].value /\ next[i] = [table[j] EXCEPT !.last = n]
  /\ \A i \in Fresh(DOMAIN values, table) :
       next[i].value = values[i] /\ next[i].first = n /\ next[i].last = n
  /\ \A i \in DOMAIN table \ (Moved(values, table) \cup DOMAIN values) :
       next[i] = table[i]

\* One indivisible build.
Build(n, artifact) ==
  /\ DOMAIN builds = 1 .. (n - 1)
  /\ ReplacementsResolve({i[1] : i \in DOMAIN artifact.values})
  /\ Fits(artifact.values, leases)
  /\ builds' = [m \in 1 .. n |-> IF m = n THEN artifact ELSE builds[m]]
  /\ Record(n, artifact.values, leases, leases')

Next == \E n \in Number : \E a \in Artifact : Build(n, a)

Spec == Init /\ [][Next]_vars
=============================================================================
