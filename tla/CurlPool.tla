------------------------------ MODULE CurlPool ------------------------------
(***************************************************************************)
(* The pool of curl handles, src/curl_pool.c: MAX_POOL_SIZE handles, each  *)
(* marked when a request uses it.  Both operations hold pool->lock from    *)
(* their first statement to their last.  A request that finds no handle    *)
(* does not wait for one.  A handle keeps the options a request sets until *)
(* it is reset; the one that matters here is CURLOPT_CUSTOMREQUEST, which  *)
(* cancel requests set and which overrides the POST of an order.           *)
(***************************************************************************)
EXTENDS Naturals

CONSTANT MaxPoolSize   \* MAX_POOL_SIZE

ASSUME PoolAssumption == MaxPoolSize \in Nat \ {0}

Handles == 0..(MaxPoolSize - 1)
NoHandle == MaxPoolSize

VARIABLES in_use,      \* pool->handles[i].in_use
          delete       \* the handle's CURLOPT_CUSTOMREQUEST is "DELETE"

poolVars == <<in_use, delete>>

FreeHandles == {h \in Handles : ~in_use[h]}

PoolInit ==
  /\ in_use = [h \in Handles |-> FALSE]
  /\ delete = [h \in Handles |-> FALSE]

(* get_curl_pool_handle returns true and the first free handle h ...       *)
get_curl_pool_handle(h) ==
  /\ h \in FreeHandles
  /\ \A g \in FreeHandles : h <= g
  /\ in_use' = [in_use EXCEPT ![h] = TRUE]

(* ... or false, and *handle is NULL.                                      *)
NoHandleFree == FreeHandles = {} /\ UNCHANGED poolVars

(* Mutated: without curl_easy_reset.                                       *)
release_without_reset(h) ==
  /\ in_use' = [in_use EXCEPT ![h] = FALSE]
  /\ UNCHANGED delete

release_curl_pool_handle(h) ==
  /\ in_use' = [in_use EXCEPT ![h] = FALSE]
  /\ delete' = [delete EXCEPT ![h] = FALSE]
=============================================================================
