------------------------------ MODULE SharePool ------------------------------
(***************************************************************************)
(* The share pool, the candidate list and the per-key rate charges of the  *)
(* current head.  The three are separate collections in the code, changed  *)
(* by the same calls.  Everything here is about one head: a new head drops *)
(* all of it.                                                              *)
(*                                                                         *)
(*   candidates   works a block may select                                 *)
(*   active       pool entries (by_key), which count against the caps      *)
(*   tombs        reserved or refused entries, oldest first, which only    *)
(*                make their exact resubmission a duplicate                *)
(*   used         admissions charged to a key                              *)
(***************************************************************************)
EXTENDS LocalChain, SequencesExt

CONSTANTS
    GlobalCap,    \* global_share_cap
    PkCap,        \* share_cap_per_pk_block
    TombCap,      \* semantic_reject_tombstone_cap
    PkQuota       \* tickets of a key times the ticket multiplier

ASSUME CapsAssumption ==
    {GlobalCap, PkCap, TombCap, PkQuota} \subseteq Nat \ {0}

Key(w) == <<Pk[w], Slot[w]>>
Keys == {Key(w) : w \in Works}

EmptyShares ==
    [candidates |-> {}, active |-> {}, tombs |-> <<>>, used |-> [pk \in Pks |-> 0]]

ActiveOf(shares, pk) == {k \in shares.active : k[1] = pk}

CapsAllow(shares, w) ==
    /\ Cardinality(ActiveOf(shares, Pk[w])) < PkCap
    /\ Cardinality(shares.active) < GlobalCap

(* Admission accepts a share of the current head. *)
Admissible(shares, w) ==
    /\ shares.used[Pk[w]] < PkQuota
    /\ Key(w) \notin shares.active
    /\ Key(w) \notin ToSet(shares.tombs)
    /\ CapsAllow(shares, w)

Admit(shares, w) ==
    [shares EXCEPT
        !.active = @ \cup {Key(w)},
        !.used[Pk[w]] = @ + 1,
        !.candidates = IF Cardinality(@) < GlobalCap THEN @ \cup {w} ELSE @]

(* Keep the newest TombCap entries. *)
Evict(tombs) ==
    SubSeq(tombs, IF Len(tombs) > TombCap THEN Len(tombs) - TombCap + 1 ELSE 1, Len(tombs))

InsertTomb(tombs, key) ==
    IF key \in ToSet(tombs) THEN Evict(tombs) ELSE Evict(Append(tombs, key))

(* No key is in the order twice. *)
RemoveTomb(tombs, key) == RemoveFirst(tombs, key)

Reserve(shares, w) ==
    [shares EXCEPT !.active = @ \ {Key(w)}, !.tombs = InsertTomb(@, Key(w))]

(* Take an admitted share out of every block's reach. *)
Quarantine(shares, w) ==
    IF w \notin shares.candidates THEN shares
    ELSE [(IF Key(w) \in shares.active THEN Reserve(shares, w) ELSE shares)
            EXCEPT !.candidates = @ \ {w}]

Refund(shares, w) ==
    [shares EXCEPT !.used[Pk[w]] = IF @ > 0 THEN @ - 1 ELSE 0]

(* The reservation for an unlocked check succeeds only if both collections
   hold the share; else the candidate goes and its charge is refunded. *)
Takeable(shares, w) == w \in shares.candidates /\ Key(w) \in shares.active

Take(shares, w) ==
    CASE Takeable(shares, w) -> [Reserve(shares, w) EXCEPT !.candidates = @ \ {w}]
      [] w \in shares.candidates /\ Key(w) \notin shares.active
            -> Refund([shares EXCEPT !.candidates = @ \ {w}], w)
      [] OTHER -> shares

(* A verified share becomes eligible again, if it is still for this head. *)
Restorable(shares, w, sameHead) ==
    /\ sameHead
    /\ w \notin shares.candidates
    /\ Cardinality(shares.candidates) < GlobalCap
    /\ Key(w) \in ToSet(shares.tombs)
    /\ Key(w) \notin shares.active
    /\ CapsAllow(shares, w)

Restore(shares, w) ==
    [shares EXCEPT
        !.tombs = RemoveTomb(@, Key(w)),
        !.active = @ \cup {Key(w)},
        !.candidates = @ \cup {w}]

Release_NoRefund(shares, w, sameHead) == [shares EXCEPT !.tombs = RemoveTomb(@, Key(w))]

(* No verdict: forget the reservation and refund the charge, so that exactly
   this share can be submitted again.  The charge of an older head is gone. *)
Release(shares, w, sameHead) ==
    LET forgotten == [shares EXCEPT !.tombs = RemoveTomb(@, Key(w))]
    IN IF sameHead THEN Refund(forgotten, w) ELSE forgotten

=============================================================================
