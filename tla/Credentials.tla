----------------------------- MODULE Credentials -----------------------------
(***************************************************************************)
(* The OAuth2 service (oauth/oauth.go) and one credential of the store: a  *)
(* user connects the credential through the provider, clients made for the *)
(* nodes refresh its access token, and every new token is written back by  *)
(* persist, which reads the whole credential and writes the whole back.    *)
(* Of the tokens only the refresh token is kept, as the number under which *)
(* the provider issued it; an access token is new at each refresh.  What   *)
(* the provider grants and what the service hears of it are two steps.     *)
(***************************************************************************)
EXTENDS Naturals, Sequences

CONSTANTS
    Flow,       \* the states handed out with authorization URLs
    Callback,   \* calls of the provider's redirect
    Source,     \* token sources of clients made for nodes
    MaxToken    \* bound on the refresh tokens issued

VARIABLES
    row,        \* the credential's row: whether it exists, holds an access
                \* token, and which refresh token, 0 when it has none
    flow,       \* the service's map of states
    used,       \* when a state was exchanged for tokens
    pc,         \* where a callback or a source stands
    token,      \* the refresh token it holds, 0 for none
    granted,    \* the new refresh token in the answer on its way, 0 for none
    read,       \* the refresh token persist found in the row
    moved,      \* the row was written since it was granted its token
    valid,      \* the refresh tokens the provider accepts
    issued,     \* the refresh tokens it has issued
    lost,       \* an answer with a new refresh token did not arrive
    unsaved,    \* a token was obtained and not written to the row
    overlapped  \* a token was written over one that was obtained after it

provider == <<valid, issued>>
history  == <<lost, unsaved, overlapped>>
credentialVars == <<row, flow, used, pc, token, granted, read, moved, provider, history>>

Saver   == Callback \cup Source
Deleted == [exists |-> FALSE, connected |-> FALSE, refresh |-> 0]
Saved(t) == [exists |-> TRUE, connected |-> TRUE, refresh |-> t]

OAuthInit ==
    /\ row = [exists |-> TRUE, connected |-> FALSE, refresh |-> 0]
    /\ flow = [f \in Flow |-> "none"] /\ used = [f \in Flow |-> <<>>]
    /\ pc = [s \in Saver |-> "idle"] /\ token = [s \in Saver |-> 0]
    /\ granted = [s \in Saver |-> 0] /\ read = [s \in Saver |-> 0]
    /\ moved = [s \in Saver |-> FALSE]
    /\ valid = {} /\ issued = 0
    /\ lost = FALSE /\ unsaved = FALSE /\ overlapped = FALSE

Goes(s, place) == pc' = [pc EXCEPT ![s] = place]

(* The provider grants what s asks for, with t as a new refresh token or   *)
(* with none; the answer is on its way.                                    *)
Grants(s, t) ==
    /\ Goes(s, "asked")
    /\ granted' = [granted EXCEPT ![s] = t]
    /\ moved' = [moved EXCEPT ![s] = FALSE]
-----------------------------------------------------------------------------
(* The flow.                                                               *)

(* AuthURL, with putState.                                                 *)
AuthURL(f) ==
    /\ row.exists /\ flow[f] = "none"
    /\ flow' = [flow EXCEPT ![f] = "open"]
    /\ UNCHANGED <<row, used, pc, token, granted, read, moved, provider, history>>

(* Ten minutes pass.                                                       *)
Lapse(f) ==
    /\ flow[f] = "open"
    /\ flow' = [flow EXCEPT ![f] = "lapsed"]
    /\ UNCHANGED <<row, used, pc, token, granted, read, moved, provider, history>>

(* takeState removes the state under the mutex, and finds it or does not.  *)
takeState_Kept(f) == flow
takeState(f) == [flow EXCEPT ![f] = "taken"]

(* The redirect arrives; what goes on has a code.                          *)
Exchange(h, f) ==
    /\ pc[h] = "idle" /\ flow[f] # "none"
    /\ flow' = takeState(f)
    /\ \/ flow[f] = "open" /\ Goes(h, "code") /\ used' = [used EXCEPT ![f] = Append(@, flow[f])]
       \/ UNCHANGED <<pc, used>>
    /\ UNCHANGED <<row, token, granted, read, moved, provider, history>>

(* The credential is read and the code sent; the provider grants a new     *)
(* refresh token, with which earlier ones may end, or an access token      *)
(* alone, or nothing.                                                      *)
ExchangeCode(h) ==
    /\ pc[h] = "code"
    /\ token' = [token EXCEPT ![h] = 0]
    /\ \/ /\ row.exists /\ issued < MaxToken
          /\ issued' = issued + 1
          /\ valid' \in {{issued + 1}, valid \cup {issued + 1}}
          /\ Grants(h, issued + 1)
       \/ /\ row.exists
          /\ Grants(h, 0)
          /\ UNCHANGED provider
       \/ /\ Goes(h, "idle")
          /\ UNCHANGED <<granted, moved, provider>>
    /\ UNCHANGED <<row, flow, used, read, history>>
-----------------------------------------------------------------------------
(* The clients.                                                            *)

ClientForCredential(s) ==
    /\ pc[s] = "idle" /\ row.exists /\ (row.connected \/ row.refresh # 0)
    /\ Goes(s, "client")
    /\ token' = [token EXCEPT ![s] = row.refresh]
    /\ UNCHANGED <<row, flow, used, granted, read, moved, provider, history>>

(* Token: the access token has run out and a refresh is asked for.  A      *)
(* provider gives a new refresh token in the place of the old one or       *)
(* leaves the old one; without a refresh token, or with one the provider   *)
(* knows no more, there is an error and nothing changes.                   *)
Token(s) ==
    /\ pc[s] = "client"
    /\ token[s] \in valid
    /\ \/ /\ issued < MaxToken
          /\ issued' = issued + 1
          /\ valid' = (valid \ {token[s]}) \cup {issued + 1}
          /\ Grants(s, issued + 1)
       \/ /\ Grants(s, 0)
          /\ UNCHANGED provider
    /\ UNCHANGED <<row, flow, used, token, read, history>>

(* The node is done with its client.                                       *)
Done(s) ==
    /\ pc[s] = "client"
    /\ Goes(s, "idle")
    /\ UNCHANGED <<row, flow, used, token, granted, read, moved, provider, history>>
-----------------------------------------------------------------------------
(* The answer, for a callback and for a client.                            *)

(* Where a saver goes after persist, whose error is returned by Exchange   *)
(* and ignored by Token, or after an error of the provider.                *)
Returns(s) == Goes(s, IF s \in Source THEN "client" ELSE "idle")

(* The answer arrives, and persist follows.  A refresh that brings no new  *)
(* refresh token keeps the one it was asked for with.                      *)
Receives(s) ==
    /\ pc[s] = "asked"
    /\ Goes(s, "read")
    /\ token' = [token EXCEPT ![s] = IF granted[s] # 0 THEN granted[s] ELSE @]
    /\ granted' = [granted EXCEPT ![s] = 0]
    /\ UNCHANGED <<row, flow, used, read, moved, provider, history>>

(* The provider has granted, but the request ends in an error.             *)
AnswerLost(s) ==
    /\ pc[s] = "asked"
    /\ Returns(s)
    /\ lost' = (lost \/ granted[s] # 0)
    /\ granted' = [granted EXCEPT ![s] = 0]
    /\ UNCHANGED <<row, flow, used, token, read, moved, provider, unsaved, overlapped>>
-----------------------------------------------------------------------------
(* persist.                                                                *)

PersistRead(s) ==
    /\ pc[s] = "read"
    /\ \/ /\ row.exists
          /\ read' = [read EXCEPT ![s] = row.refresh]
          /\ Goes(s, "write")
          /\ UNCHANGED history
       \/ /\ unsaved' = TRUE
          /\ Returns(s)
          /\ UNCHANGED <<read, lost, overlapped>>
    /\ UNCHANGED <<row, flow, used, token, granted, moved, provider>>

(* The refresh token in what is written.                                   *)
persist_First(s) == IF read[s] # 0 THEN read[s] ELSE token[s]
persist(s) == IF token[s] # 0 THEN token[s] ELSE read[s]

(* What UpdateCredentialData leaves of the row: no row, none to update.    *)
UpdateCredentialData_Upsert(s) == Saved(persist(s))
UpdateCredentialData(s) == IF row.exists THEN Saved(persist(s)) ELSE row

PersistWrite(s) ==
    /\ pc[s] = "write"
    /\ \/ /\ row' = UpdateCredentialData(s)
          /\ overlapped' = (overlapped \/ moved[s])
          /\ moved' = [q \in Saver |-> q # s /\ pc[q] \in {"asked", "read", "write"}]
          /\ UNCHANGED unsaved
       \/ /\ unsaved' = TRUE
          /\ UNCHANGED <<row, overlapped, moved>>
    /\ Returns(s)
    /\ read' = [read EXCEPT ![s] = 0]
    /\ UNCHANGED <<flow, used, token, granted, provider, lost>>

DeleteCredential ==
    /\ row.exists
    /\ row' = Deleted
    /\ UNCHANGED <<flow, used, pc, token, granted, read, moved, provider, history>>

(* The server stops: the states and the clients were in memory only.       *)
Crash ==
    /\ flow' = [f \in Flow |-> IF flow[f] = "none" THEN "none" ELSE "lost"]
    /\ lost' = (lost \/ \E s \in Saver : granted[s] # 0)
    /\ unsaved' = (unsaved \/ \E s \in Saver : pc[s] \in {"read", "write"})
    /\ pc' = [s \in Saver |-> "idle"] /\ token' = [s \in Saver |-> 0]
    /\ granted' = [s \in Saver |-> 0] /\ read' = [s \in Saver |-> 0]
    /\ moved' = [s \in Saver |-> FALSE]
    /\ UNCHANGED <<row, used, provider, overlapped>>

OAuthNext ==
    \/ \E f \in Flow : AuthURL(f) \/ Lapse(f)
    \/ \E h \in Callback : ExchangeCode(h) \/ \E f \in Flow : Exchange(h, f)
    \/ \E s \in Source : ClientForCredential(s) \/ Token(s) \/ Done(s)
    \/ \E s \in Saver : Receives(s) \/ AnswerLost(s) \/ PersistRead(s) \/ PersistWrite(s)
    \/ DeleteCredential
    \/ Crash

OAuthSpec == OAuthInit /\ [][OAuthNext]_credentialVars
-----------------------------------------------------------------------------
OAuthTypeOK ==
    /\ issued \in 0 .. MaxToken /\ valid \subseteq 1 .. issued
    /\ row \in [exists : BOOLEAN, connected : BOOLEAN, refresh : 0 .. issued]
    /\ flow \in [Flow -> {"none", "open", "lapsed", "taken", "lost"}]
    /\ pc \in [Saver -> {"idle", "code", "client", "asked", "read", "write"}]
    /\ token \in [Saver -> 0 .. issued] /\ granted \in [Saver -> 0 .. issued] /\ read \in [Saver -> 0 .. issued]
    /\ moved \in [Saver -> BOOLEAN]
    /\ lost \in BOOLEAN /\ unsaved \in BOOLEAN /\ overlapped \in BOOLEAN

(* A state is exchanged once at most, and not when it has lapsed, however  *)
(* many redirects arrive with it.                                          *)
SingleUse == \A f \in Flow : used[f] \in {<<>>, <<"open">>}

(* A save that was under way does not bring a deleted credential back.     *)
DeletedStaysDeleted == [][~row.exists => ~row'.exists]_credentialVars

(* The refresh token in the row is one the provider accepts, or there is a *)
(* reason: the answer that brought a newer one was lost, its save failed   *)
(* or is still under way, or an older one was saved after it.  Where       *)
(* answers arrive and the store saves, what is left is two that refresh,   *)
(* or connect, at a time.                                                  *)
StaleHasACause ==
    row.refresh # 0 /\ row.refresh \notin valid =>
        lost \/ unsaved \/ overlapped \/ \E s \in Saver : pc[s] \in {"asked", "read", "write"}
=============================================================================
