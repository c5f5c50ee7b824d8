---------------------------- MODULE Subscriptions -----------------------------
(***************************************************************************)
(* The alert channel of one user: an e-mail address proved by following a  *)
(* link, or a Telegram or Zalo chat proved by sending the token to the     *)
(* bot.  A verification finds the row by its token and updates it by its   *)
(* id, whatever it has become meanwhile.                                   *)
(***************************************************************************)
EXTENDS Integers, FiniteSets

CONSTANTS MaxTokens, Places     \* bound: tokens; Places: addresses or chats

ASSUME MaxTokensAssumption == MaxTokens \in Nat

VARIABLES
  channel,    \* "email" or "chat"
  sub,        \* the row: place, token, isVerified
  issued,     \* tokens: where each was sent, Nowhere for a token shown on the site
  checking,   \* verifications between the find and the update
  expired,    \* tokens past their time
  current,    \* history: the last token issued, 0 after a disconnect
  proof,      \* history: the place each token has proved
  crossed     \* history: the row changed under a verification

subVars == <<channel, sub, issued, checking, expired, current, proof, crossed>>

Nowhere == "nowhere"
Tokens == 1..MaxTokens
NoToken == 0

SubTypeOK ==
  /\ channel \in {"email", "chat"}
  /\ sub \in [place : Places \cup {Nowhere}, token : 0..MaxTokens, verified : BOOLEAN]
  /\ issued \in [Tokens -> Places \cup {Nowhere, "unissued"}]
  /\ checking \subseteq [token : Tokens, place : Places]
  /\ expired \subseteq Tokens /\ current \in 0..MaxTokens
  /\ proof \in [Tokens -> Places \cup {Nowhere}] /\ crossed \in BOOLEAN

SubInit ==
  /\ channel \in {"email", "chat"}
  /\ sub = [place |-> Nowhere, token |-> NoToken, verified |-> FALSE]
  /\ issued = [t \in Tokens |-> "unissued"] /\ proof = [t \in Tokens |-> Nowhere]
  /\ checking = {} /\ expired = {} /\ current = NoToken /\ crossed = FALSE

(* Mutant: the row stays verified.                                         *)
IssueMutant(place) ==
  \E t \in Tokens :
    /\ issued[t] = "unissued" /\ \A u \in 1..(t - 1) : issued[u] # "unissued"
    /\ sub' = [place |-> place, token |-> t, verified |-> sub.verified]
    /\ issued' = [issued EXCEPT ![t] = place]
    /\ current' = t
    /\ crossed' = (crossed \/ checking # {})
    /\ UNCHANGED <<channel, checking, expired, proof>>

(* The next token of the user's tokens; save writes the columns it sets.   *)
Issue(place) ==
  \E t \in Tokens :
    /\ issued[t] = "unissued" /\ \A u \in 1..(t - 1) : issued[u] # "unissued"
    /\ sub' = [place |-> place, token |-> t, verified |-> FALSE]
    /\ issued' = [issued EXCEPT ![t] = place]
    /\ current' = t
    /\ crossed' = (crossed \/ checking # {})
    /\ UNCHANGED <<channel, checking, expired, proof>>

(* E-mail: the link is sent to the address, which is stored with it.       *)
InitiateVerification(a) == channel = "email" /\ Issue(a)

(* Bots: the token is shown to the user, the chat is not known yet.        *)
GenerateToken == channel = "chat" /\ Issue(Nowhere)

(* The link is followed by whoever has the mailbox, or the token sent from *)
(* a chat: findOneBy(token, not verified, not expired).  The bots poll one *)
(* message at a time.                                                      *)
Present(t, p) ==
  /\ issued[t] \in (IF channel = "email" THEN {p} ELSE {Nowhere})
  /\ sub.token = t /\ ~sub.verified /\ t \notin expired
  /\ channel = "chat" => checking = {}
  /\ checking' = checking \cup {[token |-> t, place |-> p]}
  /\ proof' = [proof EXCEPT ![t] = p]
  /\ UNCHANGED <<channel, sub, issued, expired, current, crossed>>

Verified(c) ==
  [place |-> IF channel = "email" THEN sub.place ELSE c.place, token |-> NoToken, verified |-> TRUE]

(* markVerified, verifyToken: the update by id.                            *)
MarkVerified(c) ==
  /\ c \in checking
  /\ sub' = Verified(c)
  /\ crossed' = (crossed \/ checking # {c})
  /\ checking' = checking \ {c}
  /\ UNCHANGED <<channel, issued, expired, current, proof>>

(* The error of a query ends a verification; Telegram does not repeat the  *)
(* update, its offset has moved.                                           *)
VerificationFails(c) ==
  /\ c \in checking
  /\ checking' = checking \ {c}
  /\ UNCHANGED <<channel, sub, issued, expired, current, proof, crossed>>

Disconnect ==
  /\ sub' = [place |-> Nowhere, token |-> NoToken, verified |-> FALSE]
  /\ current' = NoToken
  /\ crossed' = (crossed \/ checking # {})
  /\ UNCHANGED <<channel, issued, checking, expired, proof>>

Expire ==
  /\ sub.token # NoToken /\ expired' = expired \cup {sub.token} /\ expired' # expired
  /\ UNCHANGED <<channel, sub, issued, checking, current, proof, crossed>>

SubStep ==
  \/ \E p \in Places : InitiateVerification(p) \/ \E t \in Tokens : Present(t, p)
  \/ GenerateToken \/ Disconnect \/ Expire
  \/ \E c \in checking : MarkVerified(c) \/ VerificationFails(c)

-------------------------------------------------------------------------------
(***************************************************************************)
(* Properties                                                              *)
(***************************************************************************)

(* Alerts go only to the place that proved the token issued last, and to   *)
(* none after a disconnect.  A new token, a disconnect or a second         *)
(* verification between the find and the update breaks it: an address that *)
(* was never proved becomes verified, a disconnected chat comes back.      *)
VerifiedIsProved == ~crossed /\ sub.verified => current # NoToken /\ proof[current] = sub.place
===============================================================================
