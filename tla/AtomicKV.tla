------------------------------ MODULE AtomicKV ------------------------------
(***************************************************************************)
(* What coordinated mode promises its clients: one etcd that stores user   *)
(* values itself.  A request in scope takes effect atomically, at most     *)
(* once; its caller gets the answer of that instant, whole, or an error.   *)
(* After an error the request may have taken effect, may still do so, or   *)
(* may never ("ordinary etcd ambiguity about whether a timed-out mutation  *)
(* committed", docs/coordinated-sharding.md).  Other requests are refused  *)
(* without effect.                                                         *)
(***************************************************************************)
EXTENDS Etcd

CONSTANTS Procs, Requests, Leases, CompactRevs, MaxRequests,
          Initial,       \* history of the store before the first request
          InScope(_)     \* the requests the documentation admits

VARIABLES hist, compacted, leases,
          pc, id, issued, late,
          req,     \* the request under way, or the last one
          status,  \* what its caller was told
          succeeded, out

vars == <<hist, compacted, leases, pc, req, id, issued, late, status,
          succeeded, out>>

Init ==
  /\ hist = Initial /\ compacted = 0 /\ leases = {}
  /\ pc = [p \in Procs |-> "idle"]
  /\ req = [p \in Procs |-> NoVal]
  /\ id = [p \in Procs |-> 0] /\ issued = 0 /\ late = {}
  /\ status = [p \in Procs |-> "none"]
  /\ succeeded = [p \in Procs |-> FALSE]
  /\ out = [p \in Procs |-> {}]

Reply(p, s) == /\ pc' = [pc EXCEPT ![p] = "idle"]
               /\ status' = [status EXCEPT ![p] = s]

Invoke(p, q) ==
  /\ pc[p] = "idle"
  /\ issued < MaxRequests
  /\ issued' = issued + 1
  /\ id' = [id EXCEPT ![p] = issued + 1]
  /\ req' = [req EXCEPT ![p] = q]
  /\ out' = [out EXCEPT ![p] = {}]
  /\ IF InScope(q)
     THEN /\ pc' = [pc EXCEPT ![p] = "pending"]
          /\ status' = [status EXCEPT ![p] = "none"]
     ELSE Reply(p, "invalid")
  /\ UNCHANGED <<hist, compacted, leases, late, succeeded>>

Execute(p) ==
  /\ pc[p] = "pending"
  /\ IF Refuses(hist, compacted, leases, req[p])
     THEN Reply(p, "refused") /\ UNCHANGED <<hist, succeeded, out>>
     ELSE /\ hist' = Commit(hist, req[p])
          /\ succeeded' = [succeeded EXCEPT ![p] = Succeeds(hist, req[p])]
          /\ out' = [out EXCEPT ![p] = Answer(hist, req[p])]
          /\ pc' = [pc EXCEPT ![p] = "executed"]
          /\ UNCHANGED status
  /\ UNCHANGED <<compacted, leases, req, id, issued, late>>

Return(p) ==
  /\ pc[p] = "executed"
  /\ Reply(p, "ok")
  /\ UNCHANGED <<hist, compacted, leases, req, id, issued, late, succeeded, out>>

Fail(p) ==
  /\ pc[p] # "idle"
  /\ Reply(p, "error")
  /\ out' = [out EXCEPT ![p] = {}]
  /\ \/ UNCHANGED late
     \/ /\ pc[p] = "pending"
        /\ late' = late \cup {[id |-> id[p], req |-> req[p]]}
  /\ UNCHANGED <<hist, compacted, leases, req, id, issued, succeeded>>

ExecuteLate(m) ==
  /\ hist' = IF Refuses(hist, compacted, leases, m.req) THEN hist
             ELSE Commit(hist, m.req)
  /\ late' = late \ {m}
  /\ UNCHANGED <<compacted, leases, pc, req, id, issued, status, succeeded, out>>

Forget(m) ==
  /\ late' = late \ {m}
  /\ UNCHANGED <<hist, compacted, leases, pc, req, id, issued, status,
                 succeeded, out>>

Compact(r) ==
  /\ r > compacted /\ r <= Len(hist)
  /\ compacted' = r
  /\ UNCHANGED <<hist, leases, pc, req, id, issued, late, status, succeeded, out>>

LeaseGrant(l) ==
  /\ l \notin leases
  /\ leases' = leases \cup {l}
  /\ UNCHANGED <<hist, compacted, pc, req, id, issued, late, status,
                 succeeded, out>>

LeaseEnd(l) ==
  /\ l \in leases
  /\ leases' = leases \ {l}
  /\ hist' = DropLease(hist, l)
  /\ UNCHANGED <<compacted, pc, req, id, issued, late, status, succeeded, out>>

Next ==
  \/ \E p \in Procs : \/ \E q \in Requests : Invoke(p, q)
                      \/ Execute(p) \/ Return(p) \/ Fail(p)
  \/ \E m \in late : ExecuteLate(m) \/ Forget(m)
  \/ \E r \in CompactRevs : Compact(r)
  \/ \E l \in Leases : LeaseGrant(l) \/ LeaseEnd(l)

Spec == Init /\ [][Next]_vars
=============================================================================
