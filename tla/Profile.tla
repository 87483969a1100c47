------------------------------ MODULE Profile ------------------------------
(***************************************************************************)
(* The profile service: one user's profile and address book.  A request is *)
(* several statements, each its own transaction, and saves whole rows; an  *)
(* index lets one address be the default.  user.deleted erases everything. *)
(***************************************************************************)
EXTENDS Integers, FiniteSets

CONSTANTS
    Request,                \* requests in progress
    MaxId,                  \* addresses ever created
    MaxAddressesPerUser,    \* (10)
    Text                    \* what an address or a profile field may say

ProfileAssumption ==
    /\ IsFiniteSet(Request) /\ MaxId \in Nat /\ MaxAddressesPerUser \in Nat
    /\ IsFiniteSet(Text) /\ "" \notin Text

Id == 1..MaxId
Field == {"name", "phone"}

VARIABLES
    book,       \* the row of each address, or None
    profile,    \* the fields of the profile, or Blank
    seq,        \* the sequence of address ids
    req,        \* what each request does and has read
    wanted,     \* history: what each address and field was last made to say
    pick,       \* history: the address last made the default, or 0
    excused,    \* history: requests overlapped on a row, or one failed half way
    crowded     \* history: an address was created beside one its request had not counted

history == <<wanted, pick, excused, crowded>>
vars == <<book, profile, seq, req, history>>

None == [text |-> "", def |-> FALSE]
Blank == [f \in Field |-> ""]
Nothing == [book |-> [i \in Id |-> ""], profile |-> Blank]
Idle ==
    [pc |-> "idle", op |-> "none", id |-> 0, text |-> "", def |-> FALSE, read |-> None, count |-> 0]

Present == {i \in Id : book[i] # None}
Defaults == {i \in Present : book[i].def}

Init ==
    /\ book = [i \in Id |-> None] /\ profile = Blank /\ seq = 0
    /\ req = [q \in Request |-> Idle]
    /\ wanted = Nothing /\ pick = 0 /\ excused = FALSE /\ crowded = FALSE

Step(q, r) == req' = [req EXCEPT ![q] = r]
Done(q) == Step(q, Idle)

-----------------------------------------------------------------------------
\* CreateAddress gone wrong: the limit is one too many.
CreateOneMore(q) ==
    /\ req[q].pc = "idle" /\ Cardinality(Present) <= MaxAddressesPerUser
    /\ \E t \in Text, def \in BOOLEAN :
          Step(q, [Idle EXCEPT !.pc = "id", !.op = "create", !.text = t,
                               !.count = Cardinality(Present), !.def = def])
    /\ UNCHANGED <<book, profile, seq, history>>

\* CreateAddress counts first.  The first address is the default unless it is said not to be.
CreateAddress(q) ==
    /\ req[q].pc = "idle" /\ Cardinality(Present) < MaxAddressesPerUser
    /\ \E t \in Text, isDefault \in {"yes", "no", "unsaid"} :
          LET n == Cardinality(Present)
          IN  Step(q, [Idle EXCEPT !.pc = "id", !.op = "create", !.text = t, !.count = n,
                          !.def = isDefault = "yes" \/ (isDefault = "unsaid" /\ n = 0)])
    /\ UNCHANGED <<book, profile, seq, history>>

NextAddressID(q) ==
    /\ req[q].pc = "id" /\ seq < MaxId
    /\ seq' = seq + 1
    /\ Step(q, [req[q] EXCEPT !.id = seq + 1, !.pc = IF req[q].def THEN "clear" ELSE "save"])
    /\ UNCHANGED <<book, profile, history>>

\* PatchAddress gone wrong: an address that is not made the default is none.
PatchForgetsDefault(q) ==
    /\ req[q].pc = "idle"
    /\ \E i \in Present, t \in Text, def \in BOOLEAN :
          Step(q, [Idle EXCEPT !.pc = IF def THEN "clear" ELSE "save", !.op = "patch",
                               !.id = i, !.text = t, !.def = def, !.read = book[i]])
    /\ UNCHANGED <<book, profile, seq, history>>

\* PatchAddress reads the row it will save; what the input leaves out stays as it was.
PatchAddress(q) ==
    /\ req[q].pc = "idle"
    /\ \E i \in Present, t \in Text \cup {""}, isDefault \in BOOLEAN :
          Step(q, [Idle EXCEPT !.pc = IF isDefault THEN "clear" ELSE "save", !.op = "patch", !.id = i,
                               !.text = IF t = "" THEN book[i].text ELSE t,
                               !.def = isDefault \/ book[i].def, !.read = book[i]])
    /\ UNCHANGED <<book, profile, seq, history>>

SetDefaultAddress(q) ==
    /\ req[q].pc = "idle"
    /\ \E i \in Present :
          Step(q, [Idle EXCEPT !.pc = "clear", !.op = "default", !.id = i,
                               !.text = book[i].text, !.def = TRUE, !.read = book[i]])
    /\ UNCHANGED <<book, profile, seq, history>>

\* What the request's own clearing makes of the row that it has read.
ClearDefaultAddresses(q) ==
    /\ req[q].pc = "clear"
    /\ book' = [i \in Id |-> [book[i] EXCEPT !.def = FALSE]]
    /\ Step(q, [req[q] EXCEPT !.pc = "save default",
                              !.read.def = IF book[req[q].id] = req[q].read THEN FALSE ELSE @])
    /\ UNCHANGED <<profile, seq, history>>

\* The partial index refuses a second default.
OneDefault(r) == r.def => Defaults \subseteq {r.id}

\* The upsert.
SaveAddress(q) ==
    /\ req[q].pc \in {"save", "save default"}
    /\ LET r == req[q]
       IN  /\ OneDefault(r)
           /\ book' = [book EXCEPT ![r.id] = [text |-> r.text, def |-> r.def]]
           /\ excused' = (excused \/ book[r.id] # r.read)
           /\ wanted' = IF excused' THEN Nothing ELSE [wanted EXCEPT !.book[r.id] = r.text]
           /\ pick' = CASE excused' -> 0 [] r.def -> r.id [] OTHER -> pick
           /\ crowded' = (crowded \/ (r.op = "create" /\ r.count < Cardinality(Present)))
    /\ Done(q)
    /\ UNCHANGED <<profile, seq>>

\* One statement.
DeleteAddress ==
    /\ \E i \in Present : /\ book' = [book EXCEPT ![i] = None]
                          /\ wanted' = [wanted EXCEPT !.book[i] = ""]
                          /\ pick' = IF pick = i THEN 0 ELSE pick
    /\ UNCHANGED <<profile, seq, req, excused, crowded>>

\* A patch of one field reads both and saves both.
PatchProfile(q) ==
    /\ req[q].pc = "idle"
    /\ \E f \in Field, t \in Text :
          Step(q, [Idle EXCEPT !.pc = "upsert", !.op = f, !.text = t, !.read = profile])
    /\ UNCHANGED <<book, profile, seq, history>>

UpsertProfile(q) ==
    /\ req[q].pc = "upsert"
    /\ profile' = [req[q].read EXCEPT ![req[q].op] = req[q].text]
    /\ excused' = (excused \/ profile # req[q].read)
    /\ wanted' = IF excused' THEN Nothing ELSE [wanted EXCEPT !.profile[req[q].op] = req[q].text]
    /\ pick' = IF excused' THEN 0 ELSE pick
    /\ Done(q)
    /\ UNCHANGED <<book, seq, crowded>>

\* user.deleted arrives: both tables, in one transaction.  A failure is logged, and
\* the event does not come again.
DeleteUserData ==
    /\ book' = [i \in Id |-> None] /\ profile' = Blank
    /\ wanted' = Nothing /\ pick' = 0
    /\ UNCHANGED <<seq, req, excused, crowded>>

\* The input is refused, a statement fails, the index refuses, or the process stops.
Fail(q) ==
    /\ req[q].pc # "idle" /\ Done(q)
    /\ IF req[q].pc = "save default"
         THEN excused' = TRUE /\ wanted' = Nothing /\ pick' = 0
         ELSE UNCHANGED <<excused, wanted, pick>>
    /\ UNCHANGED <<book, profile, seq, crowded>>

Next ==
    \/ \E q \in Request :
          \/ CreateAddress(q) \/ NextAddressID(q) \/ PatchAddress(q) \/ SetDefaultAddress(q)
          \/ ClearDefaultAddresses(q) \/ SaveAddress(q) \/ PatchProfile(q) \/ UpsertProfile(q) \/ Fail(q)
    \/ DeleteAddress \/ DeleteUserData

Spec == Init /\ [][Next]_vars

-----------------------------------------------------------------------------
\* GetProfileView: the profile, then the book with its default, in two statements.
DefaultAddressID == IF Defaults = {} THEN 0 ELSE CHOOSE i \in Defaults : TRUE

\* The type invariant: one default, and ids come from the sequence.
TypeOK == Cardinality(Defaults) <= 1 /\ Present \subseteq 1..seq

\* Every address and field says what a request last made it say, deleted rows stay
\* away, and the default is the one last chosen: unless requests overlapped on a
\* row, or one failed after it had cleared the default.
BookFollowsRequests ==
    \/ excused
    \/ /\ \A i \in Id : book[i].text = wanted.book[i]
       /\ profile = wanted.profile
       /\ DefaultAddressID = pick \/ \E q \in Request : req[q].pc = "save default"

\* The book holds no more than it may, unless addresses were created at once or one
\* that was deleted came back with a patch that had read it.
LimitHolds == crowded \/ excused \/ Cardinality(Present) <= MaxAddressesPerUser

-----------------------------------------------------------------------------
(* The inductive invariant of the proofs: a request saves an address that the sequence *)
(* has given out, a default only after it has cleared the others; and one address      *)
(* at most is the default, the one that was picked.                                    *)
Row == [text : Text \cup {""}, def : BOOLEAN]
Fields == [Field -> Text \cup {""}]

RequestOK(r, given) ==
    /\ DOMAIN r = DOMAIN Idle
    /\ r.pc \in {"idle", "id", "clear", "save", "save default", "upsert"}
    /\ r.pc \in {"id", "clear", "save", "save default"} =>
          /\ r.op \in {"create", "patch", "default"} /\ r.text \in Text /\ r.def \in BOOLEAN
          /\ r.read \in Row /\ r.count \in Nat
          /\ IF r.op = "create" THEN r.count < MaxAddressesPerUser ELSE r.read.text # ""
          /\ IF r.pc = "id" THEN r.op = "create" /\ r.read = None ELSE r.id \in 1..given
          /\ r.pc = "save" => r.def = r.read.def
          /\ r.pc \in {"clear", "save default"} => r.def
    /\ r.pc = "upsert" => r.op \in Field /\ r.text \in Text /\ r.read \in Fields

BookOK ==
    /\ book \in [Id -> Row]
    /\ \A i \in Id : book[i].text = "" => ~book[i].def
    /\ \A i, j \in Id : book[i].def /\ book[j].def => i = j
    /\ \A i \in Id : book[i].text # "" => i <= seq

PickOK == {i \in Id : book[i].def} = IF pick = 0 THEN {} ELSE {pick}

ProfileInv ==
    /\ BookOK
    /\ profile \in Fields /\ seq \in 0..MaxId
    /\ wanted \in [book : [Id -> Text \cup {""}], profile : Fields]
    /\ excused \in BOOLEAN /\ crowded \in BOOLEAN
    /\ req = [q \in Request |-> req[q]] /\ \A q \in Request : RequestOK(req[q], seq)
    /\ excused \/ /\ \A i \in Id : book[i].text = wanted.book[i]
                  /\ profile = wanted.profile
                  /\ PickOK \/ \E q \in Request : req[q].pc = "save default"
    /\ LimitHolds
=============================================================================
