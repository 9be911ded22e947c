--------------------------- MODULE PairingServer ---------------------------
(* The pairing service of the server, for one issuer identity: the table of *)
(* sessions, which keeps the newest session of an identity only, and the    *)
(* table of the keys that joined a session (service/identity/pairing).      *)
(* Sessions are numbered in the order of their initial timestamps; the      *)
(* number stands for the digest too.                                        *)
EXTENDS Naturals

VARIABLES
  row,      \* the identity's row: session, sequence and identity document
  joined    \* rows <<session, key>> of the claimer table

serverVars == <<row, joined>>

\* Session 0 is an earlier one that is over: the identity has a row for a put
\* to lock.  An identity that was never paired has none, and two puts that
\* both find none are both applied, in either order; that case is left out.
ServerInit(doc) ==
  /\ row = [session |-> 0, sequence |-> 2, document |-> doc]
  /\ joined = {}

get_pairing_session(session) == row.session = session

(* Slip: the claimers of all sessions of the identity.                      *)
list_all_claimers(session) == {j[2] : j \in joined}

list_claimers(session) == {j[2] : j \in {p \in joined : p[1] = session}}

(* Slip: another session is always taken for a newer one.                   *)
is_stale_state(session, sequence) == row.session = session /\ sequence <= row.sequence

is_stale(session, sequence) ==
  IF row.session = session THEN sequence <= row.sequence ELSE session <= row.session

\* The transaction of put_pairing_session, which locks the row: the put is
\* applied unless stale, and the claimers of an older session are cleared.
PutIssuerState(session, sequence, doc) ==
  IF is_stale(session, sequence) THEN UNCHANGED serverVars
  ELSE /\ row' = [session |-> session, sequence |-> sequence, document |-> doc]
       /\ joined' = IF session = row.session THEN joined ELSE {}

\* add_claimer, on conflict do nothing; the session was looked up before.
AddClaimer(session, key) ==
  /\ joined' = joined \cup {<<session, key>>}
  /\ UNCHANGED row
============================================================================
