------------------------ MODULE UserAccounts_proofs ------------------------
(***************************************************************************)
(* Proofs about Register and Login, for every set of registrations, with   *)
(* any names, addresses and passwords, and whichever queries fail.         *)
(***************************************************************************)
EXTENDS UserAccounts, TLAPS

(* From the insertion on the row of a registration is in the table, and not before. *)
Inserted ==
  \A r \in Registrations :
    /\ step[r] \in {"select", "release"} \/ Told(r) => r \in users
    /\ r \in users => step[r] \in {"select", "release", "done"}

(* What is past Verify is well formed. *)
WellFormed(r) == Malformed \notin {NameOf[r], EmailOf[r], PasswordOf[r]}
Verified ==
  \A r \in Registrations :
    step[r] \in {"name", "email", "insert", "select", "release"} \/ Told(r) => WellFormed(r)

(* The row that is read back by name is the registration's own. *)
OwnRow == \A r \in Registrations : realUser[r] # NoUser => realUser[r] = r

AInv ==
  /\ AccountsTypeOK /\ UniqueUsers /\ Inserted /\ Verified /\ OwnRow
  /\ TokenForOwnAccount /\ NameRefusalTrue

USE NoUserAssumption, DBFailsAssumption

-----------------------------------------------------------------------------
(* In the initial state the table is empty and no handler has begun. *)
LEMMA InitAInv == AccountsInit => AInv
<1> SUFFICES ASSUME AccountsInit PROVE AInv
  OBVIOUS
<1> USE DEF AccountsInit
<1>1. AccountsTypeOK
  <2>1. NoSession \in Session BY DEF NoSession, Session
  <2> QED BY <2>1 DEF AccountsTypeOK, Steps, Replies
<1>2. UniqueUsers /\ OwnRow /\ TokenForOwnAccount /\ NameRefusalTrue
  BY DEF UniqueUsers, OwnRow, TokenForOwnAccount, NameRefusalTrue
<1>3. Inserted /\ Verified
  BY DEF Inserted, Verified, Told
<1> QED BY <1>1, <1>2, <1>3 DEF AInv

(* The invariant speaks of the variables only. *)
LEMMA StutterAInv == AInv /\ UNCHANGED accountVars => AInv'
BY DEF AInv, accountVars, AccountsTypeOK, UniqueUsers, Inserted, Verified, OwnRow,
       TokenForOwnAccount, NameRefusalTrue, Told, WellFormed

(* A login touches nothing but its session. *)
LEMMA LoginAInv == \A l \in Logins : AInv /\ Login(l) => AInv'
<1> SUFFICES ASSUME NEW l \in Logins, AInv, Login(l) PROVE AInv'
  OBVIOUS
<1>1. /\ UNCHANGED <<users, step, realUser, reply, token>>
      /\ \E s \in Session : session' = [session EXCEPT ![l] = s]
  BY DEF Login
<1>2. session' \in [Logins -> Session]
  BY <1>1 DEF AInv, AccountsTypeOK
<1> QED
  BY <1>1, <1>2 DEF AInv, AccountsTypeOK, UniqueUsers, Inserted, Verified, OwnRow,
                    TokenForOwnAccount, NameRefusalTrue, Told, WellFormed

(* A step that inserts nothing keeps what is said of the table alone. *)
LEMMA SameTable == AInv /\ UNCHANGED users => UniqueUsers'
BY DEF AInv, UniqueUsers

USE DEF At, Goto, Answer, Proceed

(* Verify lets only well-formed registrations pass. *)
LEMMA VerifyAInv == \A r \in Registrations : AInv /\ Verify(r) => AInv'
<1> SUFFICES ASSUME NEW r \in Registrations, AInv, Verify(r) PROVE AInv'
  OBVIOUS
<1> USE DEF AInv, Verify
<1>1. AccountsTypeOK' BY DEF AccountsTypeOK, Steps, Replies
<1>2. UniqueUsers' BY SameTable
<1>3. Inserted' BY DEF Inserted, AccountsTypeOK, Told
<1>4. Verified' BY DEF Verified, AccountsTypeOK, Told, WellFormed
<1>5. OwnRow' /\ TokenForOwnAccount' BY DEF OwnRow, TokenForOwnAccount
<1>6. NameRefusalTrue' BY DEF NameRefusalTrue, AccountsTypeOK
<1> QED BY <1>1, <1>2, <1>3, <1>4, <1>5, <1>6

(* A name is refused only while another row has it, and rows stay. *)
LEMMA NameExistedAInv == \A r \in Registrations : AInv /\ NameExisted(r) => AInv'
<1> SUFFICES ASSUME NEW r \in Registrations, AInv, NameExisted(r) PROVE AInv'
  OBVIOUS
<1> USE DEF AInv, NameExisted
<1>1. AccountsTypeOK' BY DEF AccountsTypeOK, Steps, Replies
<1>2. UniqueUsers' BY SameTable
<1>3. Inserted' BY DEF Inserted, AccountsTypeOK, Told
<1>4. Verified' BY DEF Verified, AccountsTypeOK, Told, WellFormed
<1>5. OwnRow' /\ TokenForOwnAccount' BY DEF OwnRow, TokenForOwnAccount
<1>6. NameRefusalTrue'
  <2>1. r \notin users BY DEF Inserted
  <2> QED BY <2>1 DEF NameRefusalTrue, AccountsTypeOK, SelectUserByName
<1> QED BY <1>1, <1>2, <1>3, <1>4, <1>5, <1>6

(* The second query of Register. *)
LEMMA EmailExistedAInv == \A r \in Registrations : AInv /\ EmailExisted(r) => AInv'
<1> SUFFICES ASSUME NEW r \in Registrations, AInv, EmailExisted(r) PROVE AInv'
  OBVIOUS
<1> USE DEF AInv, EmailExisted
<1>1. AccountsTypeOK' BY DEF AccountsTypeOK, Steps, Replies
<1>2. UniqueUsers' BY SameTable
<1>3. Inserted' BY DEF Inserted, AccountsTypeOK, Told
<1>4. Verified' BY DEF Verified, AccountsTypeOK, Told, WellFormed
<1>5. OwnRow' /\ TokenForOwnAccount' BY DEF OwnRow, TokenForOwnAccount
<1>6. NameRefusalTrue' BY DEF NameRefusalTrue, AccountsTypeOK
<1> QED BY <1>1, <1>2, <1>3, <1>4, <1>5, <1>6

(* The insertion: the unique columns keep two users apart whatever the checks
   before it saw. *)
LEMMA InsertUserAInv == \A r \in Registrations : AInv /\ InsertUser(r) => AInv'
<1> SUFFICES ASSUME NEW r \in Registrations, AInv, InsertUser(r) PROVE AInv'
  OBVIOUS
<1> USE DEF AInv
<1>1. AccountsTypeOK' BY DEF AccountsTypeOK, InsertUser, Steps, Replies
<1>2. UniqueUsers'
  BY DEF UniqueUsers, InsertUser, Insertable, SelectUserByName, SelectUserByEmail
<1>3. Inserted' BY DEF Inserted, AccountsTypeOK, InsertUser, Told
<1>4. Verified' BY DEF Verified, AccountsTypeOK, InsertUser, Told, WellFormed
<1>5. OwnRow' /\ TokenForOwnAccount' BY DEF OwnRow, TokenForOwnAccount, InsertUser
<1>6. NameRefusalTrue' BY DEF NameRefusalTrue, AccountsTypeOK, InsertUser
<1> QED BY <1>1, <1>2, <1>3, <1>4, <1>5, <1>6

(* The row with the registration's name is its own, since names are unique. *)
LEMMA ReadBackAInv == \A r \in Registrations : AInv /\ ReadBack(r) => AInv'
<1> SUFFICES ASSUME NEW r \in Registrations, AInv, ReadBack(r) PROVE AInv'
  OBVIOUS
<1> USE DEF AInv
<1>0. r \in users
  BY DEF ReadBack, Inserted
<1>1. AccountsTypeOK' BY DEF AccountsTypeOK, ReadBack, SelectUserByName, Steps, Replies
<1>2. UniqueUsers' BY SameTable DEF ReadBack
<1>3. Inserted' BY <1>0 DEF Inserted, AccountsTypeOK, ReadBack, Told
<1>4. Verified' BY DEF Verified, AccountsTypeOK, ReadBack, Told, WellFormed
<1>5. OwnRow'
  BY <1>0 DEF OwnRow, AccountsTypeOK, ReadBack, SelectUserByName, UniqueUsers
<1>6. TokenForOwnAccount' BY DEF TokenForOwnAccount, ReadBack
<1>7. NameRefusalTrue' BY DEF NameRefusalTrue, AccountsTypeOK, ReadBack
<1> QED BY <1>1, <1>2, <1>3, <1>4, <1>5, <1>6, <1>7

(* The token is made from the row read back. *)
LEMMA ReleaseTokenAInv == \A r \in Registrations : AInv /\ ReleaseToken(r) => AInv'
<1> SUFFICES ASSUME NEW r \in Registrations, AInv, ReleaseToken(r) PROVE AInv'
  OBVIOUS
<1> USE DEF AInv, ReleaseToken
<1>0. r \in users
  BY DEF Inserted
<1>1. AccountsTypeOK' BY DEF AccountsTypeOK, Steps, Replies
<1>2. UniqueUsers' BY SameTable
<1>3. Inserted' BY <1>0 DEF Inserted, AccountsTypeOK, Told
<1>4. Verified' BY DEF Verified, AccountsTypeOK, Told, WellFormed
<1>5. OwnRow' BY DEF OwnRow
<1>6. TokenForOwnAccount' BY <1>0 DEF TokenForOwnAccount, AccountsTypeOK, OwnRow
<1>7. NameRefusalTrue' BY DEF NameRefusalTrue, AccountsTypeOK
<1> QED BY <1>1, <1>2, <1>3, <1>4, <1>5, <1>6, <1>7

(* Every step keeps the invariant. *)
LEMMA NextAInv == AInv /\ [AccountsNext]_accountVars => AInv'
BY StutterAInv, LoginAInv, VerifyAInv, NameExistedAInv, EmailExistedAInv, InsertUserAInv,
   ReadBackAInv, ReleaseTokenAInv DEF AccountsNext, Register

-----------------------------------------------------------------------------
(* The invariant holds for ever. *)
THEOREM Invariance == AccountsSpec => []AInv
<1>1. AccountsInit => AInv BY InitAInv
<1>2. AInv /\ [AccountsNext]_accountVars => AInv' BY NextAInv
<1> QED BY <1>1, <1>2, PTL DEF AccountsSpec

(* Variables keep their types, and Register goes on after a reply in one place. *)
THEOREM TypeCorrect == AccountsSpec => []AccountsTypeOK
<1>1. AInv => AccountsTypeOK BY DEF AInv
<1> QED BY <1>1, Invariance, PTL

(* No two users share a name or an address. *)
THEOREM UsersUnique == AccountsSpec => []UniqueUsers
<1>1. AInv => UniqueUsers BY DEF AInv
<1> QED BY <1>1, Invariance, PTL

(* A token that Register sends is for the account it made. *)
THEOREM TokenOwn == AccountsSpec => []TokenForOwnAccount
<1>1. AInv => TokenForOwnAccount BY DEF AInv
<1> QED BY <1>1, Invariance, PTL

(* A refusal of a name is true. *)
THEOREM RefusalTrue == AccountsSpec => []NameRefusalTrue
<1>1. AInv => NameRefusalTrue BY DEF AInv
<1> QED BY <1>1, Invariance, PTL

(* A login with what a registered user gave finds his account and no other. *)
LEMMA LoginFinds ==
  ASSUME NEW l \in Logins, NEW r \in Registrations, AInv, Told(r), Login(l),
         session'[l].answered, Presents(session'[l], r)
  PROVE  session'[l].user = r
<1>1. r \in users /\ WellFormed(r)
  BY DEF AInv, Inserted, Verified
<1>2. PICK s \in Session :
        /\ s.by # "none"
        /\ IF s.answered /\ Malformed \notin {s.key, s.password}
                /\ Admitted(s.by, s.key, s.password) # {}
           THEN s.user \in Admitted(s.by, s.key, s.password)
           ELSE s.user = NoUser
        /\ session' = [session EXCEPT ![l] = s]
  BY DEF Login
<1>3. session'[l] = s
  BY <1>2 DEF AInv, AccountsTypeOK
<1>4. s.answered /\ Presents(s, r)
  BY <1>3
<1>5. Malformed \notin {s.key, s.password}
  BY <1>1, <1>4 DEF Presents, WellFormed
<1>6. r \in Admitted(s.by, s.key, s.password)
  BY <1>1, <1>4 DEF Presents, Admitted, Found, SelectUserByName, SelectUserByEmail
<1>7. s.user \in Admitted(s.by, s.key, s.password)
  BY <1>2, <1>4, <1>5, <1>6
<1>8. \A u \in Admitted(s.by, s.key, s.password) : u = r
  BY <1>1, <1>4 DEF Presents, Admitted, Found, SelectUserByName, SelectUserByEmail,
                    AInv, UniqueUsers
<1> QED BY <1>3, <1>7, <1>8

(* Whoever was told that he is registered can log in. *)
THEOREM ToldCanLogIn == AccountsSpec => TheToldCanLogIn
<1> DEFINE A == \A l \in Logins, r \in Registrations :
                  session'[l] # session[l] /\ Told(r)
                    /\ session'[l].answered /\ Presents(session'[l], r)
                  => session'[l].user = r
<1>1. AInv /\ [AccountsNext]_accountVars => [A]_accountVars
  <2> SUFFICES ASSUME AInv, AccountsNext, NEW l \in Logins, NEW r \in Registrations,
                      session'[l] # session[l], Told(r),
                      session'[l].answered, Presents(session'[l], r)
               PROVE  session'[l].user = r
    OBVIOUS
  <2>1. CASE \E q \in Registrations : Register(q)
    BY <2>1 DEF Register, Verify, NameExisted, EmailExisted, InsertUser, ReadBack,
                ReleaseToken
  <2>2. CASE \E k \in Logins : Login(k)
    <3>1. PICK k \in Logins : Login(k) BY <2>2
    <3>2. k = l BY <3>1 DEF Login, AInv, AccountsTypeOK
    <3> QED BY <3>1, <3>2, LoginFinds
  <2> QED BY <2>1, <2>2 DEF AccountsNext
<1> QED BY <1>1, Invariance, PTL DEF AccountsSpec, TheToldCanLogIn
=============================================================================
