------------------------------- MODULE Server --------------------------------
(***************************************************************************)
(* The HTTP server's own state beside the engine (api, oauth): the rate    *)
(* limiters that stand before some routes, the requests that watch an      *)
(* execution, and the OAuth2 service.  They share nothing, and no request  *)
(* changes anything for another, so a behaviour is one of the three at     *)
(* work while the others rest, and one of the requests.                    *)
(***************************************************************************)
EXTENDS RateLimiter, Monitor, Credentials

VARIABLES
    part,   \* which of the three it is
    caller  \* whose request is looked at

serverVars == <<part, caller, limiterVars, monitorVars, credentialVars>>

ServerInit ==
    /\ part \in {"limiter", "watch", "oauth"}
    /\ Init /\ WatchInit /\ OAuthInit
    /\ caller \in Client
    /\ part # "watch" => exists /\ caller = CHOOSE c \in Client : TRUE

Limit   == part = "limiter" /\ Next /\ UNCHANGED <<part, caller, monitorVars, credentialVars>>
Execute == part = "watch" /\ (Drive \/ Recover \/ Restart)
               /\ UNCHANGED <<part, caller, limiterVars, credentialVars>>
Open    == part = "watch" /\ Ask(caller) /\ UNCHANGED <<part, caller, limiterVars, credentialVars>>
Watch   == part = "watch" /\ Serve(caller) /\ UNCHANGED <<part, caller, limiterVars, credentialVars>>
Connect == part = "oauth" /\ OAuthNext /\ UNCHANGED <<part, caller, limiterVars, monitorVars>>

ServerNext == Limit \/ Execute \/ Open \/ Watch \/ Connect

ServerRuns == ServerInit /\ [][ServerNext]_serverVars

(* The handlers that watch go on whatever the execution does.              *)
ServerSpec == ServerRuns /\ WF_serverVars(Watch)
-----------------------------------------------------------------------------
(* Every stream and every getExecution ends, that of an execution which    *)
(* waits for ever as well.                                                 *)
StreamsEnd == (part = "watch" /\ at[caller] # "ended") ~> at[caller] = "ended"
=============================================================================
