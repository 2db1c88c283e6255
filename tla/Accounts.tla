------------------------------- MODULE Accounts ------------------------------
(***************************************************************************)
(* Registration, whose checks of the address and the name are statements of  *)
(* their own before the transaction that creates the account, and the link    *)
(* of a forgotten password, which goes through the bounded queue every mail   *)
(* of the server goes through: a full queue drops and counts, and one task    *)
(* sends, counts what it cannot send, and never tries again.                  *)
(***************************************************************************)
EXTENDS Naturals, Sequences, FiniteSets

CONSTANTS
  Clients,      \* bound: requests in progress at once
  Pseudos, Typed,
  Mailbox,      \* address as typed -> the address in lower case
  QueueMax,     \* 256 in the code
  MaxLinks      \* bound: links asked for

VARIABLES
  users,        \* the rows of the table, each with its profile
  request,      \* client -> its request in progress
  mails,        \* the queue
  sender,       \* the mail the task is sending, if any
  asked,        \* the links asked for
  left          \* the mails sent, and those counted as errors

accountVars == <<users, request, mails, sender, asked, left>>

NoRequest == [pc |-> "none"]
Init ==
  /\ users = {} /\ request = [c \in Clients |-> NoRequest]
  /\ mails = <<>> /\ sender = <<>> /\ asked = 0 /\ left = {}

\* Mutant of Address: the address is kept as it was typed.
AddressTyped(a) == a
Address(a) == Mailbox[a]

Do(c, r) == request' = [request EXCEPT ![c] = r]
MailUnchanged == UNCHANGED <<mails, sender, asked, left>>

Register(c, p, a) ==
  /\ request[c] = NoRequest
  /\ Do(c, [pc |-> "email", pseudo |-> p, email |-> Address(a)])
  /\ UNCHANGED users /\ MailUnchanged

CheckEmail(c) ==
  /\ request[c].pc = "email"
  /\ Do(c, IF \E u \in users : u.email = request[c].email THEN NoRequest
           ELSE [request[c] EXCEPT !.pc = "pseudo"])
  /\ UNCHANGED users /\ MailUnchanged

CheckPseudo(c) ==
  /\ request[c].pc = "pseudo"
  /\ Do(c, IF \E u \in users : u.pseudo = request[c].pseudo THEN NoRequest
           ELSE [request[c] EXCEPT !.pc = "insert"])
  /\ UNCHANGED users /\ MailUnchanged

\* Mutant of Taken: the address has no index.
TakenPseudo(p, e) == \E u \in users : u.pseudo = p
\* The unique indexes of the table.
Taken(p, e) == \E u \in users : u.pseudo = p \/ u.email = e

\* The user and the profile are one transaction; the loser of a race is answered
\* an internal error where the checks would have named the field.
CreateUser(c) ==
  /\ request[c].pc = "insert"
  /\ LET r == request[c] IN
       users' = IF Taken(r.pseudo, r.email) THEN users
                ELSE users \union {[pseudo |-> r.pseudo, email |-> r.email]}
  /\ Do(c, NoRequest) /\ MailUnchanged

\* An error of the database, or a client that hangs up.
Fail(c) ==
  /\ request[c] # NoRequest
  /\ Do(c, NoRequest)
  /\ UNCHANGED users /\ MailUnchanged

\* Mutant of Counted: a mail that fails leaves no trace.
CountedNot(n) == {}
\* The metric of the mails that fail; there is no second attempt.
Counted(n) == {n}

\* The answer is the same whether or not there is an account.
ForgotPassword(a) ==
  /\ asked < MaxLinks
  /\ \E u \in users : u.email = Address(a)
  /\ asked' = asked + 1
  /\ IF Len(mails) < QueueMax
       THEN mails' = Append(mails, asked') /\ UNCHANGED left
       ELSE left' = left \union Counted(asked') /\ UNCHANGED mails
  /\ UNCHANGED <<users, request, sender>>

TakeMail ==
  /\ sender = <<>> /\ mails # <<>>
  /\ sender' = <<Head(mails)>> /\ mails' = Tail(mails)
  /\ UNCHANGED <<users, request, asked, left>>

SendMail ==
  /\ sender # <<>> /\ sender' = <<>>
  /\ left' = left \union {sender[1]} \/ left' = left \union Counted(sender[1])
  /\ UNCHANGED <<users, request, mails, asked>>

Step(c) == CheckEmail(c) \/ CheckPseudo(c) \/ CreateUser(c) \/ Fail(c)
Next ==
  \/ \E c \in Clients, p \in Pseudos, a \in Typed : Register(c, p, a)
  \/ \E c \in Clients : Step(c)
  \/ \E a \in Typed : ForgotPassword(a)
  \/ TakeMail \/ SendMail

\* The task of the queue runs.
Fairness == WF_accountVars(TakeMail) /\ WF_accountVars(SendMail)
Spec == Init /\ [][Next]_accountVars /\ Fairness
------------------------------------------------------------------------------
\* Properties.

AccountsTypeOK ==
  /\ users \subseteq [pseudo : Pseudos, email : Typed]
  /\ \A c \in Clients : request[c].pc \in {"none", "email", "pseudo", "insert"}
  /\ \A i \in DOMAIN mails : mails[i] \in 1..asked
  /\ Len(mails) <= QueueMax /\ left \subseteq 1..asked

\* Nobody has two accounts with one mailbox, and no two have one name, however the
\* requests that register them cross and however the address is written
\* (auth_service.rs, and the indexes of the users table).
OneAccountEach ==
  \A u, v \in users :
    Mailbox[u.email] = Mailbox[v.email] \/ u.pseudo = v.pseudo => u = v

\* Every mail is sent or counted as an error: one that fails, or a queue that fills
\* up, does not leave those behind it waiting (mailer/queue.rs).
MailLeaves == \A n \in 1..MaxLinks : asked >= n ~> n \in left
==============================================================================
