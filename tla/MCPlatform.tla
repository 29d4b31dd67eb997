----------------------------- MODULE MCPlatform -----------------------------
(***************************************************************************)
(* Small instances of Customers, Catalogue, Webhooks and Sessions.  The    *)
(* parts share no state in the model: a behaviour is one of the part that  *)
(* is chosen at first.                                                     *)
(***************************************************************************)
EXTENDS Naturals

CONSTANTS Requests, Ids, Emails, Clients, NoValue, MaxRequests, MaxCustomerFaults,
          VMs, Names, Admins, NoObject, MaxAdmin,
          Hooks, Deliveries, Creators, Tasks, Processors, Nil,
          MaxWebhooks, MaxAttempts, MaxFailCount, MaxWebhookFaults, MaxEdits,
          MaxSessions, MaxFailedLogins, MaxCodes, MaxAsked, MaxSessionFaults

VARIABLES part,
          row, links, token, vms, req, started, customerFaults, answered, spoiled, overlapped,
          obj, assigned, vm, adm, asked,
          hook, delivery, queued, creating, try, since, hookFaults, edits,
          kind, account, sessions, failed, challenge, sso, reset, serving, ids, logins, secrets,
          ended, verified, redeemed, excess, sessionsAsked, sessionFaults

OAuthAccounts == {<<"google", 1>>, <<"github", 1>>}
CatalogueRows == {"node", "plan", "template", "backend", "ipset"} \X {1, 2}

Cust == INSTANCE Customers WITH Accounts <- OAuthAccounts
Cat  == INSTANCE Catalogue WITH Junction <- TRUE, BackendColumn <- TRUE, Objects <- CatalogueRows
Hook == INSTANCE Webhooks
Sess == INSTANCE Sessions

custVars == <<row, links, token, vms, req, started, customerFaults, answered, spoiled, overlapped>>
catVars  == <<obj, assigned, vm, adm, asked>>
hookVars == <<hook, delivery, queued, creating, try, since, hookFaults, edits>>
sessVars == <<kind, account, sessions, failed, challenge, sso, reset, serving, ids, logins, secrets,
              ended, verified, redeemed, excess, sessionsAsked, sessionFaults>>
vars == <<part, custVars, catVars, hookVars, sessVars>>

Init == /\ part \in {"customers", "catalogue", "webhooks", "sessions"}
        /\ Cust!Init /\ Cat!Init /\ Hook!WebhooksInit /\ Sess!Init
        /\ part # "sessions" => kind = "admin" /\ sessions = <<>>

Next ==
  /\ UNCHANGED part
  /\ \/ part = "customers" /\ Cust!Next /\ UNCHANGED <<catVars, hookVars, sessVars>>
     \/ part = "catalogue" /\ Cat!Next /\ UNCHANGED <<custVars, hookVars, sessVars>>
     \/ part = "webhooks" /\ Hook!WebhooksNext /\ UNCHANGED <<custVars, catVars, sessVars>>
     \/ part = "sessions" /\ Sess!Next /\ UNCHANGED <<custVars, catVars, hookVars>>

(* WebhooksFairness; naming the part spares TLC the other parts' states.   *)
Fairness ==
  /\ WF_hookVars(part = "webhooks" /\ \E a \in Processors : Hook!GetPendingDeliveries(a))
  /\ \A a \in Hook!Attempters : WF_hookVars(part = "webhooks" /\ Hook!AttemptStep(a))
  /\ WF_hookVars(part = "webhooks" /\ \E d \in Deliveries : Hook!RetryComesDue(d))

Spec == Init /\ [][Next]_vars /\ Fairness

-----------------------------------------------------------------------------
(* The properties are stated and explained in the parts' modules.          *)


(* Catalogue: what a VM refers to exists and is not deleted while in use,  *)
(* and a name has one row.                                                 *)
CatalogueIsSound ==
  /\ [](Cat!TypeOK /\ Cat!ReferencesExist /\ Cat!OneObjectPerName)
  /\ Cat!InUseIsRefused


(* Sessions: a login has one session, and none once it was ended; the      *)
(* limit holds but for the cases named; a sign-on token makes one session  *)
(* and the second factor is one that was shown.                            *)
SessionsAreSound ==
  /\ Sess!TypeOK /\ Sess!OneSessionPerLogin /\ Sess!EndedStaysEnded /\ Sess!SessionLimit
  /\ Sess!TokenRedeemedOnce /\ Sess!EnabledSecretIsVerified


=============================================================================
