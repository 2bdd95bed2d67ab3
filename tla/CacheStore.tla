----------------------------- MODULE CacheStore -----------------------------
(***************************************************************************)
(* The table cache_entries of SqliteCacheStore (src/cache/store.rs), for   *)
(* one profile, one SQL statement at a time: the upsert of a row, and the  *)
(* deletions that follow it until the payload fits under the cap.  Each    *)
(* statement commits by itself; the connection's mutex keeps the           *)
(* statements of two writes apart.                                         *)
(*                                                                         *)
(* The drafts are in a table of their own that none of these touch.        *)
(***************************************************************************)
EXTENDS Naturals, SequencesExt

CONSTANTS
    Keys,        \* FeedKey: what the rows are of
    None,
    Bytes(_, _), \* the length of the JSON of an entity of a key
    Cap          \* max_size_bytes, or None

VARIABLES
    rows,        \* key -> its row, or None
    order        \* the keys that have a row, by rowid

table == <<rows, order>>

-----------------------------------------------------------------------------
Stored == {k \in Keys : rows[k] # None}

Payload == MapThenSumSet(LAMBDA k : Bytes(k, rows[k].entity), Stored)

Fits == Cap = None \/ Payload <= Cap

EmptyTable ==
    /\ rows = [k \in Keys |-> None]
    /\ order = <<>>

(* INSERT ... ON CONFLICT DO UPDATE: a key that is there keeps its rowid,  *)
(* a new one is the last.                                                  *)
Upsert(k, row) ==
    /\ rows' = [rows EXCEPT ![k] = row]
    /\ order' = IF rows[k] = None THEN Append(order, k) ELSE order

Before(j, k) == \E m, n \in 1 .. Len(order) : m < n /\ order[m] = j /\ order[n] = k

(* ORDER BY synchronized_at ASC, rowid ASC LIMIT 1                         *)
IsOldest(k) ==
    \A j \in Stored \ {k} :
        \/ rows[k].at < rows[j].at
        \/ rows[k].at = rows[j].at /\ Before(k, j)

(* One round of evict_oldest_locked.                                       *)
DeleteOldest ==
    /\ ~ Fits
    /\ \E n \in DOMAIN order :
          /\ IsOldest(order[n])
          /\ rows' = [rows EXCEPT ![order[n]] = None]
          /\ order' = RemoveAt(order, n)
=============================================================================
