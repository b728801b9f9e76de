---------------------------- MODULE UserAccounts ----------------------------
(***************************************************************************)
(* The user table in MySQL and the two handlers that work on it, Register  *)
(* and Login (controller.go, user.go).  Register looks the name up, then   *)
(* the e-mail address, then inserts, then reads the new row back, each in  *)
(* a query of its own, while other registrations do the same.              *)
(* A row is named by the registration that inserted it, as user_id names   *)
(* it in the table.  Names are equal when the table's collation says so.   *)
(***************************************************************************)
CONSTANTS
  Registrations, Logins,       \* the calls of the two handlers
  NameOf, EmailOf, PasswordOf, \* what a registration asks for
  Malformed,                   \* an input that does not match its pattern
  Names, Emails, Passwords,    \* what a login may give
  NoUser,                      \* no row; a nil pointer
  DBFails                      \* TRUE: queries may fail

ASSUME NoUserAssumption == NoUser \notin Registrations
ASSUME DBFailsAssumption == DBFails \in BOOLEAN

VARIABLES
  users,      \* the rows of the table
  step,       \* registration -> the query Register is at
  realUser,   \* registration -> the row it has read back
  reply,      \* registration -> the first reply it was sent
  token,      \* registration -> the user its token was made for
  session     \* login -> what it asked and what came of it

accountVars == <<users, step, realUser, reply, token, session>>

Steps == {"verify", "name", "email", "insert", "select", "release", "done"}
Replies == {"none", "invalid", "name_taken", "email_taken", "internal", "created",
            "token"}
Session == [by : {"name", "email", "none"}, key : Names \cup Emails \cup {Malformed},
            password : Passwords \cup {Malformed}, answered : BOOLEAN,
            user : Registrations \cup {NoUser}]
NoSession == [by |-> "none", key |-> Malformed, password |-> Malformed,
              answered |-> FALSE, user |-> NoUser]

(* Only after the failed reading back does Register go on once it has replied. *)
AccountsTypeOK ==
  /\ users \subseteq Registrations
  /\ step \in [Registrations -> Steps]
  /\ realUser \in [Registrations -> Registrations \cup {NoUser}]
  /\ reply \in [Registrations -> Replies]
  /\ token \in [Registrations -> Registrations \cup {NoUser}]
  /\ session \in [Logins -> Session]
  /\ \A r \in Registrations : reply[r] # "none" =>
       step[r] = "done" \/ (reply[r] = "created" /\ step[r] = "release")

AccountsInit ==
  /\ users = {}
  /\ step = [r \in Registrations |-> "verify"]
  /\ realUser = [r \in Registrations |-> NoUser]
  /\ reply = [r \in Registrations |-> "none"]
  /\ token = [r \in Registrations |-> NoUser]
  /\ session = [l \in Logins |-> NoSession]

-----------------------------------------------------------------------------
(* The queries *)

SelectUserByName(n) == {u \in users : NameOf[u] = n}
SelectUserByEmail(e) == {u \in users : EmailOf[u] = e}

(* mutant: the columns are declared without "unique" *)
InsertableAlways(r) == TRUE

(* The unique columns of the table; the last word on a race of registrations. *)
Insertable(r) ==
  SelectUserByName(NameOf[r]) = {} /\ SelectUserByEmail(EmailOf[r]) = {}

-----------------------------------------------------------------------------
(* Register *)

At(r, from) == step[r] = from
Goto(r, to) == step' = [step EXCEPT ![r] = to]
Answer(r, a) == reply' = [reply EXCEPT ![r] = a] /\ Goto(r, "done")
Proceed(r, to) == Goto(r, to) /\ UNCHANGED reply

(* A name, address or password that does not match its pattern, or a user_id
   that is given, is refused. *)
Verify(r) ==
  /\ At(r, "verify")
  /\ IF Malformed \in {NameOf[r], EmailOf[r], PasswordOf[r]}
     THEN Answer(r, "invalid") ELSE Proceed(r, "name")
  /\ UNCHANGED <<users, realUser, token, session>>

(* mutant: no return after the reply *)
NameExistedGoesOn(r) ==
  /\ At(r, "name")
  /\ \/ UNCHANGED reply
     \/ /\ SelectUserByName(NameOf[r]) # {}
        /\ reply' = [reply EXCEPT ![r] = "name_taken"]
  /\ Goto(r, "email")
  /\ UNCHANGED <<users, realUser, token, session>>

(* A query that fails counts as a name that does not exist. *)
NameExisted(r) ==
  /\ At(r, "name")
  /\ \/ /\ DBFails \/ SelectUserByName(NameOf[r]) = {}
        /\ Proceed(r, "email")
     \/ /\ SelectUserByName(NameOf[r]) # {}
        /\ Answer(r, "name_taken")
  /\ UNCHANGED <<users, realUser, token, session>>

(* A query that fails counts as an address that exists. *)
EmailExisted(r) ==
  /\ At(r, "email")
  /\ \/ /\ SelectUserByEmail(EmailOf[r]) = {}
        /\ Proceed(r, "insert")
     \/ /\ DBFails \/ SelectUserByEmail(EmailOf[r]) # {}
        /\ Answer(r, "email_taken")
  /\ UNCHANGED <<users, realUser, token, session>>

(* mutant: the error of InsertUser is not looked at *)
InsertUnchecked(r) ==
  /\ At(r, "insert")
  /\ users' = IF Insertable(r) THEN users \cup {r} ELSE users
  /\ Proceed(r, "select")
  /\ UNCHANGED <<realUser, token, session>>

(* InsertUser, after bcrypt.  An error leaves the table as it was, or the row
   is in it and only the answer was lost. *)
InsertUser(r) ==
  /\ At(r, "insert")
  /\ \/ /\ Insertable(r)
        /\ users' = users \cup {r}
        /\ Proceed(r, "select") \/ (DBFails /\ Answer(r, "internal"))
     \/ /\ DBFails \/ ~Insertable(r)
        /\ Answer(r, "internal")
        /\ UNCHANGED users
  /\ UNCHANGED <<realUser, token, session>>

(* The row is read back by name.  If that fails the handler says so, but does
   not return: it goes on with a nil pointer. *)
ReadBack(r) ==
  /\ At(r, "select")
  /\ \/ /\ \E u \in SelectUserByName(NameOf[r]) : realUser' = [realUser EXCEPT ![r] = u]
        /\ UNCHANGED reply
     \/ /\ DBFails \/ SelectUserByName(NameOf[r]) = {}
        /\ reply' = [reply EXCEPT ![r] = "created"]
        /\ UNCHANGED realUser
  /\ Goto(r, "release")
  /\ UNCHANGED <<users, token, session>>

(* ReleaseToken reads the id of the row, or panics on the nil pointer; what was
   replied before stays. *)
ReleaseToken(r) ==
  /\ At(r, "release")
  /\ IF realUser[r] # NoUser
     THEN Answer(r, "token") /\ token' = [token EXCEPT ![r] = realUser[r]]
     ELSE Proceed(r, "done") /\ UNCHANGED token
  /\ UNCHANGED <<users, realUser, session>>

Register(r) ==
  \/ Verify(r) \/ NameExisted(r) \/ EmailExisted(r) \/ InsertUser(r)
  \/ ReadBack(r) \/ ReleaseToken(r)

-----------------------------------------------------------------------------
(* Login: one query, and a comparison with the hash the row holds, which only
   the password it was made from passes. *)

Found(by, key) ==
  IF by = "name" THEN SelectUserByName(key) ELSE SelectUserByEmail(key)

Admitted(by, key, password) == {u \in Found(by, key) : PasswordOf[u] = password}

(* A malformed input is refused before the query; a failing query is taken for
   a user that does not exist. *)
Login(l) ==
  /\ session[l].by = "none"
  /\ \E s \in Session :
       /\ s.by # "none" /\ s.key \in {Malformed} \cup (IF s.by = "name" THEN Names ELSE Emails)
       /\ DBFails \/ s.answered
       /\ IF s.answered /\ Malformed \notin {s.key, s.password}
               /\ Admitted(s.by, s.key, s.password) # {}
          THEN s.user \in Admitted(s.by, s.key, s.password)
          ELSE s.user = NoUser
       /\ session' = [session EXCEPT ![l] = s]
  /\ UNCHANGED <<users, step, realUser, reply, token>>

AccountsNext ==
  \/ \E r \in Registrations : Register(r)
  \/ \E l \in Logins : Login(l)

AccountsSpec == AccountsInit /\ [][AccountsNext]_accountVars

-----------------------------------------------------------------------------
(* However the checks of concurrent registrations interleave, and whichever
   queries fail, no two users share a name or an address. *)
UniqueUsers ==
  \A q, r \in users : NameOf[q] = NameOf[r] \/ EmailOf[q] = EmailOf[r] => q = r

(* The token that Register sends is for the account it has just made, never for
   one that another registration made meanwhile; the row is read back by name. *)
TokenForOwnAccount ==
  \A r \in Registrations : token[r] # NoUser => token[r] = r /\ r \in users

(* "The name is registered already" is true: failing queries are not taken for
   a name that exists. *)
NameRefusalTrue ==
  \A r \in Registrations : reply[r] = "name_taken" =>
    \E u \in users \ {r} : NameOf[u] = NameOf[r]

(* Whoever was told that his registration succeeded, with a token or without,
   can log in with his name and with his address: a login with his password that
   the database answers yields his account. *)
Told(r) == reply[r] \in {"created", "token"}
Presents(s, r) ==
  /\ s.password = PasswordOf[r]
  /\ \/ s.by = "name" /\ s.key = NameOf[r]
     \/ s.by = "email" /\ s.key = EmailOf[r]
TheToldCanLogIn ==
  [][\A l \in Logins, r \in Registrations :
       session'[l] # session[l] /\ Told(r)
         /\ session'[l].answered /\ Presents(session'[l], r)
       => session'[l].user = r]_accountVars
=============================================================================
