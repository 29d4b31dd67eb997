----------------------------- MODULE Customers -----------------------------
(***************************************************************************)
(* Customer accounts.  They come from self-registration, from the billing  *)
(* panel's create-or-get and from OAuth logins, and are changed by their   *)
(* owners and by administrators.  The handlers read, decide and write in   *)
(* separate statements without a lock; what holds is due to the conditions *)
(* of the UPDATEs and to the unique indexes.                               *)
(*                                                                         *)
(* An administrator's CreateCustomer is not an action: the service's       *)
(* GetByEmail reports a missing customer by an error that is not           *)
(* ErrNotFound, so that the handler refuses every new address.             *)
(***************************************************************************)
EXTENDS Naturals, FiniteSets

CONSTANTS Requests,      \* requests being served at a time
          Ids,           \* bound: primary keys, 1 .. n
          Emails,
          Clients,       \* ids of the billing panel's clients
          Accounts,      \* <<provider, provider_user_id>> of OAuth accounts
          NoValue,       \* SQL NULL
          MaxRequests,   \* bound: requests started
          MaxCustomerFaults  \* bound: statements that fail

VARIABLES row,           \* customers
          links,         \* customer_oauth_links: <<customer, account>>
          token,         \* customers with a row in email_verification_tokens
          vms,           \* customers that own a VM
          req,           \* the locals of the handlers
          started, customerFaults,
          answered,      \* history: <<customer, client>> the panel was told of
          spoiled,       \* history: customers whose token was never stored or expired
          overlapped     \* history: customers whose unlinks overlapped

tables == <<row, links, token, vms>>
customerHistory == <<answered, spoiled, overlapped>>
vars == <<tables, req, started, customerFaults, customerHistory>>

Unused == [status |-> "none", email |-> NoValue, password |-> FALSE, client |-> NoValue]
Done == [at |-> "done", c |-> 0, e |-> NoValue, x |-> NoValue]

Init ==
  /\ row = [c \in Ids |-> Unused]
  /\ links = {} /\ token = {} /\ vms = {}
  /\ req = [r \in Requests |-> Done]
  /\ started = 0 /\ customerFaults = 0
  /\ answered = {} /\ spoiled = {} /\ overlapped = {}

(* Rows that GetByID and GetByEmail return.                                *)
GetByID(c) == row[c].status \notin {"none", "deleted"}
GetByEmail(e) == {c \in Ids : GetByID(c) /\ row[c].email = e}

(* The index on email covers deleted customers too.                        *)
EmailTaken(e, c) == \E d \in Ids \ {c} : row[d].status # "none" /\ row[d].email = e
GetByProviderUserID(a) == {l[1] : l \in {k \in links : k[2] = a}}
AccountTaken(a) == GetByProviderUserID(a) # {}
FreshId == CHOOSE c \in Ids : row[c].status = "none" /\ \A d \in 1 .. c - 1 : row[d].status # "none"
CanInsert == \E c \in Ids : row[c].status = "none"

Begin(r, at, c, e, x) ==
  /\ req[r] = Done /\ started < MaxRequests
  /\ started' = started + 1
  /\ req' = [req EXCEPT ![r] = [at |-> at, c |-> c, e |-> e, x |-> x]]

Goto(r, at) == req' = [req EXCEPT ![r].at = at] /\ UNCHANGED started
Return(r) == req' = [req EXCEPT ![r] = Done] /\ UNCHANGED started

(* A statement fails and the handler answers with an error.                *)
Fail(r) ==
  /\ req[r] # Done
  /\ customerFaults < MaxCustomerFaults /\ customerFaults' = customerFaults + 1
  /\ Return(r)
  /\ spoiled' = IF req[r].at = "register.token" THEN spoiled \cup {req[r].c} ELSE spoiled
  /\ UNCHANGED <<tables, answered, overlapped>>

-----------------------------------------------------------------------------
(* Register and VerifyEmail.                                               *)

RegisterLookup(r, e) ==
  /\ GetByEmail(e) = {}
  /\ Begin(r, "register.insert", 0, e, NoValue)
  /\ UNCHANGED <<tables, customerFaults, customerHistory>>

(* Mutant: the address is not unique in the database.                      *)
InsertAnyway(e, status, password, client) ==
  row' = [row EXCEPT ![FreshId] = [status |-> status, email |-> e, password |-> password, client |-> client]]

InsertCustomer(e, status, password, client) ==
  /\ ~EmailTaken(e, 0)
  /\ row' = [row EXCEPT ![FreshId] = [status |-> status, email |-> e, password |-> password, client |-> client]]

RegisterInsert(r) ==
  /\ req[r].at = "register.insert" /\ CanInsert
  /\ \/ /\ InsertCustomer(req[r].e, "pending", TRUE, NoValue)
        /\ req' = [req EXCEPT ![r].at = "register.token", ![r].c = FreshId]
        /\ UNCHANGED started
     \/ /\ EmailTaken(req[r].e, 0) /\ Return(r) /\ UNCHANGED row
  /\ UNCHANGED <<links, token, vms, customerFaults, customerHistory>>

CreateEmailVerificationToken(c) == token' = token \cup {c}

RegisterToken(r) ==
  /\ req[r].at = "register.token"
  /\ CreateEmailVerificationToken(req[r].c)
  /\ Return(r)
  /\ UNCHANGED <<row, links, vms, customerFaults, customerHistory>>

DeleteEmailVerificationToken(c) == token' = token \ {c}

(* Mutant: the token is deleted before the customer is activated.          *)
VerifyDeletingFirst(r, c) ==
  /\ c \in token
  /\ Begin(r, "verify.status", c, NoValue, NoValue)
  /\ DeleteEmailVerificationToken(c)
  /\ UNCHANGED <<row, links, vms, customerFaults, customerHistory>>

VerifyEmail(r, c) ==
  /\ c \in token
  /\ Begin(r, "verify.status", c, NoValue, NoValue)
  /\ UNCHANGED <<tables, customerFaults, customerHistory>>

(* A day has passed: the request that presents the token deletes it.       *)
VerifyExpired(c) ==
  /\ c \in token /\ started < MaxRequests /\ started' = started + 1
  /\ DeleteEmailVerificationToken(c)
  /\ spoiled' = spoiled \cup {c}
  /\ UNCHANGED <<row, links, vms, req, customerFaults, answered, overlapped>>

(* Mutant: a status is written whatever the row says.                      *)
SetStatus(c, status) == row' = [row EXCEPT ![c].status = status]

(* WHERE status != 'deleted'.                                              *)
UpdateStatus(c, status) ==
  row' = IF GetByID(c) THEN [row EXCEPT ![c].status = status] ELSE row

VerifyStatus(r) ==
  /\ req[r].at = "verify.status"
  /\ UpdateStatus(req[r].c, "active")
  /\ IF GetByID(req[r].c) THEN Goto(r, "verify.delete") ELSE Return(r)
  /\ UNCHANGED <<links, token, vms, customerFaults, customerHistory>>

VerifyDelete(r) ==
  /\ req[r].at = "verify.delete"
  /\ DeleteEmailVerificationToken(req[r].c)
  /\ Return(r)
  /\ UNCHANGED <<row, links, vms, customerFaults, customerHistory>>

-----------------------------------------------------------------------------
(* CreateOrGetCustomer.                                                    *)

Answer(c, x) == answered' = answered \cup {<<c, x>>}

CreateOrGetCustomer(r, e, x) ==
  \/ /\ GetByEmail(e) = {}
     /\ Begin(r, "panel.insert", 0, e, x)
     /\ UNCHANGED <<tables, customerFaults, customerHistory>>
  \/ \E c \in GetByEmail(e) :
       /\ row[c].client = NoValue
       /\ Begin(r, "panel.client", c, e, x)
       /\ UNCHANGED <<tables, customerFaults, customerHistory>>
  \/ \E c \in GetByEmail(e) :
       /\ row[c].client = x /\ req[r] = Done
       /\ started < MaxRequests /\ started' = started + 1
       /\ Answer(c, x)
       /\ UNCHANGED <<tables, req, customerFaults, spoiled, overlapped>>

PanelInsert(r) ==
  /\ req[r].at = "panel.insert" /\ CanInsert
  /\ \/ InsertCustomer(req[r].e, "active", TRUE, req[r].x) /\ Answer(FreshId, req[r].x)
     \/ EmailTaken(req[r].e, 0) /\ UNCHANGED <<row, answered>>
  /\ Return(r)
  /\ UNCHANGED <<links, token, vms, customerFaults, spoiled, overlapped>>

(* Mutant: the id is set without looking at the present one.               *)
OverwriteClient(c, x) == GetByID(c)

(* WHERE external_client_id IS NULL OR external_client_id = $1.            *)
ClientMatches(c, x) == GetByID(c) /\ row[c].client \in {NoValue, x}

UpdateExternalClientID(r) ==
  LET c == req[r].c  x == req[r].x
  IN /\ req[r].at = "panel.client"
     /\ IF ClientMatches(c, x)
          THEN row' = [row EXCEPT ![c].client = x] /\ Answer(c, x)
          ELSE UNCHANGED <<row, answered>>
     /\ Return(r)
     /\ UNCHANGED <<links, token, vms, customerFaults, spoiled, overlapped>>

-----------------------------------------------------------------------------
(* OAuth: logging in, linking and unlinking.                               *)

(* HandleCallback and resolveCustomer.  An account that is linked logs in  *)
(* and changes nothing.                                                    *)
OAuthLookup(r, a, e) ==
  /\ ~AccountTaken(a)
  /\ Begin(r, "oauth.email", 0, e, a)
  /\ UNCHANGED <<tables, customerFaults, customerHistory>>

(* linkExistingCustomer refuses who is not active or belongs to the panel. *)
LinksItself(c) == row[c].status = "active" /\ row[c].client = NoValue

OAuthByEmail(r) ==
  /\ req[r].at = "oauth.email"
  /\ \/ GetByEmail(req[r].e) = {} /\ Goto(r, "oauth.create")
     \/ \E c \in GetByEmail(req[r].e) :
          IF LinksItself(c)
            THEN req' = [req EXCEPT ![r].at = "link.insert", ![r].c = c] /\ UNCHANGED started
            ELSE Return(r)
  /\ UNCHANGED <<tables, customerFaults, customerHistory>>

(* Mutant: two statements that are not in one transaction.                 *)
CreateInTwoStatements(r) ==
  /\ req[r].at = "oauth.create" /\ CanInsert
  /\ row' = IF EmailTaken(req[r].e, 0) THEN row
            ELSE [row EXCEPT ![FreshId] = [status |-> "active", email |-> req[r].e,
                                           password |-> FALSE, client |-> NoValue]]
  /\ links' = IF AccountTaken(req[r].x) THEN links ELSE links \cup {<<FreshId, req[r].x>>}
  /\ Return(r)
  /\ UNCHANGED <<token, vms, customerFaults, customerHistory>>

(* createOAuthCustomer: one transaction, which a taken address or account  *)
(* rolls back.                                                             *)
CreateOAuthCustomer(r) ==
  /\ req[r].at = "oauth.create" /\ CanInsert
  /\ \/ /\ ~AccountTaken(req[r].x)
        /\ InsertCustomer(req[r].e, "active", FALSE, NoValue)
        /\ links' = links \cup {<<FreshId, req[r].x>>}
     \/ /\ EmailTaken(req[r].e, 0) \/ AccountTaken(req[r].x)
        /\ UNCHANGED <<row, links>>
  /\ Return(r)
  /\ UNCHANGED <<token, vms, customerFaults, customerHistory>>

(* The service asks for the customer and for the account.                  *)
LinkAccount(c, a) == GetByID(c) /\ ~AccountTaken(a)

LinkOAuthAccount(r, c, a) ==
  /\ LinkAccount(c, a)
  /\ Begin(r, "link.insert", c, NoValue, a)
  /\ UNCHANGED <<tables, customerFaults, customerHistory>>

(* Mutant: no unique index on (provider, provider_user_id).                *)
LinkAnyway(r) ==
  /\ req[r].at = "link.insert"
  /\ links' = links \cup {<<req[r].c, req[r].x>>}
  /\ Return(r)
  /\ UNCHANGED <<row, token, vms, customerFaults, customerHistory>>

InsertLink(r) ==
  /\ req[r].at = "link.insert"
  /\ links' = IF AccountTaken(req[r].x) THEN links ELSE links \cup {<<req[r].c, req[r].x>>}
  /\ Return(r)
  /\ UNCHANGED <<row, token, vms, customerFaults, customerHistory>>

LinksOf(c) == {l \in links : l[1] = c}


UnlinkAccount(c) == GetByID(c) /\ (row[c].password \/ Cardinality(LinksOf(c)) > 1)

UnlinkOAuthAccount(r, c, provider) ==
  /\ UnlinkAccount(c)
  /\ Begin(r, "unlink.delete", c, NoValue, provider)
  /\ UNCHANGED <<tables, customerFaults, customerHistory>>

(* All links of the customer with this provider.                           *)
DeleteLinks(r) ==
  LET c == req[r].c
  IN /\ req[r].at = "unlink.delete"
     /\ links' = {l \in links : ~(l[1] = c /\ l[2][1] = req[r].x)}
     /\ overlapped' = IF \E s \in Requests \ {r} : req[s].at = "unlink.delete" /\ req[s].c = c
                        THEN overlapped \cup {c} ELSE overlapped
     /\ Return(r)
     /\ UNCHANGED <<row, token, vms, customerFaults, answered, spoiled>>

-----------------------------------------------------------------------------
(* Profile changes, and the administrator's update and delete.             *)

(* The transaction reads the row and writes all columns of its copy; e is  *)
(* NoValue when only the name or the phone is to change.                   *)
ProfileCopy(c, e) == IF e = NoValue THEN row[c].email ELSE e

UpdateProfile(r, c, e) ==
  /\ GetByID(c)
  /\ Begin(r, "update.write", c, ProfileCopy(c, e), NoValue)
  /\ UNCHANGED <<tables, customerFaults, customerHistory>>

(* The handler's copy serves for the whole request; x is the status asked  *)
(* for.  A new name is written after the status, with the copy's address.  *)
UpdateCustomer(r, c, x) ==
  /\ GetByID(c) /\ row[c].status # x
  /\ Begin(r, IF x = NoValue THEN "update.write" ELSE "status.read", c, row[c].email, x)
  /\ UNCHANGED <<tables, customerFaults, customerHistory>>

(* Suspend and Unsuspend read the row again.                               *)
Suspend(c) == GetByID(c) /\ row[c].status # "suspended"
Unsuspend(c) == GetByID(c) /\ row[c].status = "suspended"

StatusRead(r) ==
  LET c == req[r].c
  IN /\ req[r].at = "status.read"
     /\ IF IF req[r].x = "active" THEN Unsuspend(c) ELSE Suspend(c)
          THEN Goto(r, "status.write") ELSE Return(r)
     /\ UNCHANGED <<tables, customerFaults, customerHistory>>

StatusWrite(r) ==
  /\ req[r].at = "status.write"
  /\ UpdateStatus(req[r].c, req[r].x)
  /\ \/ GetByID(req[r].c) /\ Goto(r, "update.write")
     \/ Return(r)
  /\ UNCHANGED <<links, token, vms, customerFaults, customerHistory>>

(* WHERE status != 'deleted', and the unique index.                        *)
UpdateRow(c, e) ==
  row' = IF GetByID(c) /\ ~EmailTaken(e, c) THEN [row EXCEPT ![c].email = e] ELSE row

WriteRow(r) ==
  /\ req[r].at = "update.write"
  /\ UpdateRow(req[r].c, req[r].e)
  /\ Return(r)
  /\ UNCHANGED <<links, token, vms, customerFaults, customerHistory>>

(* Mutant: the VMs are not looked for.                                     *)
DeleteUnchecked(r, c) ==
  /\ Begin(r, "delete.write", c, NoValue, "clear")
  /\ UNCHANGED <<tables, customerFaults, customerHistory>>

(* The list of VMs must be empty, unless the listing failed; x becomes     *)
(* "late" when a VM is created after it.                                   *)
DeleteCustomer(r, c) ==
  /\ GetByID(c)
  /\ \/ c \notin vms /\ Begin(r, "delete.write", c, NoValue, "clear") /\ UNCHANGED customerFaults
     \/ /\ customerFaults < MaxCustomerFaults /\ customerFaults' = customerFaults + 1
        /\ Begin(r, "delete.write", c, NoValue, "late")
  /\ UNCHANGED <<tables, customerHistory>>

(* WHERE status != 'deleted'.                                              *)
SoftDelete(c) == row' = IF GetByID(c) THEN [row EXCEPT ![c].status = "deleted"] ELSE row

Delete(r) ==
  /\ req[r].at = "delete.write"
  /\ SoftDelete(req[r].c)
  /\ Return(r)
  /\ UNCHANGED <<links, token, vms, customerFaults, customerHistory>>

(* VMService.CreateVM does not look at the customer; the foreign key is    *)
(* content with a deleted one.                                             *)
CreateVM(c) ==
  /\ row[c].status # "none" /\ c \notin vms
  /\ vms' = vms \cup {c}
  /\ req' = [r \in Requests |-> IF req[r].at = "delete.write" /\ req[r].c = c
                                  THEN [req[r] EXCEPT !.x = "late"] ELSE req[r]]
  /\ UNCHANGED <<row, links, token, started, customerFaults, customerHistory>>

-----------------------------------------------------------------------------
Receive(r) ==
  \/ \E e \in Emails : RegisterLookup(r, e) \/ \E x \in Clients : CreateOrGetCustomer(r, e, x)
  \/ \E a \in Accounts, e \in Emails : OAuthLookup(r, a, e)
  \/ \E c \in Ids : \/ VerifyEmail(r, c) \/ DeleteCustomer(r, c)
                    \/ \E a \in Accounts : LinkOAuthAccount(r, c, a) \/ UnlinkOAuthAccount(r, c, a[1])
                    \/ \E e \in Emails \cup {NoValue} : UpdateProfile(r, c, e)
                    \/ \E x \in {NoValue, "active", "suspended"} : UpdateCustomer(r, c, x)

Step(r) ==
  \/ RegisterInsert(r) \/ RegisterToken(r) \/ VerifyStatus(r) \/ VerifyDelete(r)
  \/ PanelInsert(r) \/ UpdateExternalClientID(r)
  \/ OAuthByEmail(r) \/ CreateOAuthCustomer(r) \/ InsertLink(r) \/ DeleteLinks(r)
  \/ StatusRead(r) \/ StatusWrite(r) \/ WriteRow(r) \/ Delete(r)

Next ==
  \/ \E r \in Requests : Receive(r) \/ Step(r) \/ Fail(r)
  \/ \E c \in Ids : VerifyExpired(c) \/ CreateVM(c)

Spec == Init /\ [][Next]_vars

-----------------------------------------------------------------------------
(* Types of the tables and of the handlers' locals.                        *)
TypeOK ==
  /\ row \in [Ids -> [status : {"none", "pending", "active", "suspended", "deleted"},
                      email : Emails \cup {NoValue}, password : BOOLEAN,
                      client : Clients \cup {NoValue}]]
  /\ links \subseteq Ids \X Accounts /\ token \subseteq Ids /\ vms \subseteq Ids
  /\ \A l \in links : row[l[1]].status # "none"
  /\ started \in 0 .. MaxRequests /\ customerFaults \in 0 .. MaxCustomerFaults

(* Register, CreateOrGetCustomer, OAuth and profile changes race for an    *)
(* address that each of them found free: it never names two customers.     *)
OneCustomerPerEmail ==
  \A c, d \in Ids : c # d /\ row[c].status # "none" => row[c].email # row[d].email

(* The same for an OAuth account that resolveCustomer or LinkAccount found *)
(* unlinked: it never logs in as two customers.                            *)
OneCustomerPerAccount ==
  \A l, m \in links : l[2] = m[2] => l = m

(* Suspend, Unsuspend, VerifyEmail and profile changes that read the       *)
(* customer before it was deleted do not bring it back.                    *)
DeletedIsFinal ==
  [][\A c \in Ids : row[c].status = "deleted" => row'[c].status = "deleted"]_vars

(* Once CreateOrGetCustomer told the panel that the customer is client x,  *)
(* it is, whatever other client asks for the same address meanwhile.       *)
ClientIsKept ==
  \A p \in answered : row[p[1]].client = p[2]

(* A customer that waits for verification has a token to verify with, or   *)
(* its registration is still at work, unless storing the token failed or   *)
(* it expired.                                                             *)
PendingCanVerify ==
  \A c \in Ids : row[c].status = "pending" =>
    \/ c \in token \/ c \in spoiled
    \/ \E r \in Requests : req[r].at = "register.token" /\ req[r].c = c

(* UnlinkAccount leaves a customer without a password some account to log  *)
(* in with, unless two of its requests overlapped.                         *)
LastLoginMethodKept ==
  \A c \in Ids : GetByID(c) /\ ~row[c].password /\ c \notin overlapped => LinksOf(c) # {}

(* DeleteCustomer deletes a customer that owns a VM only if the VM came    *)
(* after its check or the check itself failed.                             *)
OwnerIsNotDeleted ==
  [][\A c \in vms : row[c].status # "deleted" /\ row'[c].status = "deleted" =>
       \E r \in Requests : req[r].at = "delete.write" /\ req[r].c = c /\ req[r].x = "late"]_vars

=============================================================================
