----------------------------- MODULE DefaultWallet ----------------------------
(***************************************************************************)
(* The default wallet of a user.  It is set by two updates, all of the     *)
(* user's wallets off and then one on, by id.  Meanwhile wallets move to   *)
(* another user (updateUser), are removed, and are saved from a copy that  *)
(* was read before (create on a wallet that exists, update,                *)
(* updateByAddress), which may write is_default too.                       *)
(***************************************************************************)
EXTENDS Integers, FiniteSets

CONSTANTS
  Owners,
  Addresses,  \* the wallets, each a row and its id: a wallet added anew is another
  Setters     \* identities of requests

VARIABLES
  ownerOf,    \* the owner of each wallet, Unborn before its row and Removed after it
  isDefault,  \* the wallets with is_default
  setters,    \* the requests in progress
  tangled     \* history: what OneDefault excuses happened

defaultVars == <<ownerOf, isDefault, setters, tangled>>

NoOwner == "none"
Unborn == "unborn"
Removed == "removed"
Idle == [pc |-> "idle", owner |-> NoOwner, address |-> "none", default |-> FALSE, columns |-> {}]

ASSUME NamesAssumption ==
  {NoOwner, Unborn, Removed} \cap Owners = {} /\ Idle.address \notin Addresses

RowOwners == Owners \cup {NoOwner}
WalletTable == {a \in Addresses : ownerOf[a] \in RowOwners}   \* the rows of the table
RowColumns == {"owner", "default"}

(* A default wallet is a row of the table.                                 *)
DefaultTypeOK ==
  /\ ownerOf \in [Addresses -> RowOwners \cup {Unborn, Removed}]
  /\ isDefault \subseteq WalletTable
  /\ \A s \in Setters : setters[s].pc \in {"idle", "clear", "set", "merged", "update", "insert"}
  /\ tangled \in BOOLEAN

DefaultInit ==
  /\ ownerOf \in [Addresses -> Owners \cup {Unborn}]
  /\ isDefault = {}
  /\ setters = [s \in Setters |-> Idle]
  /\ tangled = FALSE

Setting == {s \in Setters : setters[s].pc \in {"clear", "set"}}

EndSetter(s) == setters' = [setters EXCEPT ![s] = Idle]

BeginSetter(s, pc, owner, a, default) ==
  /\ setters[s] = Idle
  /\ setters' = [setters EXCEPT ![s] = [pc |-> pc, owner |-> owner, address |-> a, default |-> default,
                                        columns |-> {}]]

SetDefaultForAddress(s, u, a) ==
  /\ ownerOf[a] = u
  /\ BeginSetter(s, "clear", u, a, TRUE)
  /\ tangled' = (tangled \/ Setting # {})
  /\ UNCHANGED <<ownerOf, isDefault>>

(* Mutant: the other wallets are left as they are.                         *)
ClearOthersMutant(s) ==
  /\ setters[s].pc = "clear"
  /\ setters' = [setters EXCEPT ![s].pc = "set"]
  /\ UNCHANGED <<ownerOf, isDefault, tangled>>

ClearOthers(s) ==
  /\ setters[s].pc = "clear"
  /\ isDefault' = {a \in isDefault : ownerOf[a] # setters[s].owner}
  /\ setters' = [setters EXCEPT ![s].pc = "set"]
  /\ UNCHANGED <<ownerOf, tangled>>

(* Mutant: a wallet removed meanwhile is written all the same.             *)
SetOneMutant(s) ==
  /\ setters[s].pc = "set"
  /\ isDefault' = isDefault \cup {setters[s].address}
  /\ EndSetter(s)
  /\ UNCHANGED <<ownerOf, tangled>>

(* By its id, if the row is still there.                                   *)
SetOne(s) ==
  /\ setters[s].pc = "set"
  /\ isDefault' = isDefault \cup ({setters[s].address} \cap WalletTable)
  /\ EndSetter(s)
  /\ UNCHANGED <<ownerOf, tangled>>

(* createWithNonce and create: a new row; the body of create may name      *)
(* is_default.                                                             *)
InsertWallet(a, owner, default) ==
  /\ ownerOf[a] = Unborn
  /\ ownerOf' = [ownerOf EXCEPT ![a] = owner]
  /\ isDefault' = IF default THEN isDefault \cup {a} ELSE isDefault
  /\ tangled' = (tangled \/ default)
  /\ UNCHANGED setters

(* updateUser keeps is_default; a wallet known by its nonce has no owner   *)
(* before.                                                                 *)
LinkTo(u, a) ==
  /\ a \in WalletTable /\ ownerOf[a] # u
  /\ ownerOf' = [ownerOf EXCEPT ![a] = u]
  /\ tangled' = (tangled \/ a \in isDefault \/ Setting # {})
  /\ UNCHANGED <<isDefault, setters>>

(* remove: by id, for each of the removals of the service.                 *)
RemoveWallet(a) ==
  /\ a \in WalletTable
  /\ ownerOf' = [ownerOf EXCEPT ![a] = Removed]
  /\ isDefault' = isDefault \ {a}
  /\ UNCHANGED <<setters, tangled>>

(* The row is found and the body merged into it: create on a wallet of     *)
(* nobody or of the user, which names the owner; update and                *)
(* updateByAddress, whose bodies may name any column.                      *)
FindRow(s, a, owner, default) ==
  /\ a \in WalletTable
  /\ BeginSetter(s, "merged", owner, a, default)
  /\ UNCHANGED <<ownerOf, isDefault, tangled>>

(* save: SELECT, and what the columns of the row have to become.           *)
DifferingColumns(s) ==
  LET a == setters[s].address IN
  {c \in RowColumns : IF c = "owner" THEN ownerOf[a] # setters[s].owner
                      ELSE setters[s].default # (a \in isDefault)}

CompareRow(s) ==
  /\ setters[s].pc = "merged"
  /\ setters' = [setters EXCEPT ![s].pc = IF setters[s].address \in WalletTable THEN "update" ELSE "insert",
                                ![s].columns = DifferingColumns(s)]
  /\ UNCHANGED <<ownerOf, isDefault, tangled>>

(* UPDATE of the columns that differed, or INSERT of the row that was not  *)
(* found.  It does nothing to a row removed meanwhile, and fails on one    *)
(* inserted meanwhile.                                                     *)
WriteColumns(s, columns) ==
  LET a == setters[s].address
      default == IF "default" \in columns THEN setters[s].default ELSE a \in isDefault
  IN /\ ownerOf' = IF "owner" \in columns THEN [ownerOf EXCEPT ![a] = setters[s].owner] ELSE ownerOf
     /\ isDefault' = IF default THEN isDefault \cup {a} ELSE isDefault \ {a}
     /\ tangled' = \/ tangled
                   \/ "default" \in columns /\ default
                   \/ "owner" \in columns /\ (default \/ Setting # {})

UpdateRow(s) ==
  /\ setters[s].pc = "update"
  /\ IF setters[s].address \in WalletTable THEN WriteColumns(s, setters[s].columns)
     ELSE UNCHANGED <<ownerOf, isDefault, tangled>>
  /\ EndSetter(s)

InsertRow(s) ==
  /\ setters[s].pc = "insert"
  /\ IF setters[s].address \in WalletTable THEN UNCHANGED <<ownerOf, isDefault, tangled>>
     ELSE WriteColumns(s, RowColumns)
  /\ EndSetter(s)

DefaultStep ==
  \/ \E s \in Setters : ClearOthers(s) \/ SetOne(s) \/ CompareRow(s) \/ UpdateRow(s) \/ InsertRow(s)
  \/ \E s \in Setters, u \in Owners, a \in Addresses : SetDefaultForAddress(s, u, a)
  \/ \E s \in Setters, u \in RowOwners, a \in Addresses, d \in BOOLEAN : FindRow(s, a, u, d)
  \/ \E u \in RowOwners, a \in Addresses, d \in BOOLEAN : InsertWallet(a, u, d)
  \/ \E u \in Owners, a \in Addresses : LinkTo(u, a)
  \/ \E a \in Addresses : RemoveWallet(a)

-------------------------------------------------------------------------------
(***************************************************************************)
(* Properties                                                              *)
(***************************************************************************)

(* A user has at most one default wallet, however setting the default,     *)
(* adding, linking, removing and saving wallets interleave, unless         *)
(*   - two requests set the default at once,                               *)
(*   - a default wallet changes hands, or one does while a default is set, *)
(*   - a row is written with is_default true by a create or a save: its    *)
(*     body named the column, or its copy of it was older.                 *)
OneDefault ==
  ~tangled => \A u \in Owners : Cardinality({a \in isDefault : ownerOf[a] = u}) <= 1
===============================================================================
