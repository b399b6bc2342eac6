---------------------------- MODULE AccessGrants ----------------------------
(***************************************************************************)
(* The projects an assistant may use: grants the owner approves and        *)
(* revokes, their expiry, their receipts, and the OAuth codes and tokens   *)
(* that carry a copy of them until they are refreshed.                     *)
(*                                                                         *)
(* One owner in one tenant.  A worker is a request in flight, and          *)
(* interleaves at every await.                                             *)
(***************************************************************************)
EXTENDS Naturals, Sequences

CONSTANTS
    Workers, Assistants, Projects,
    Grants,         \* what an approval is about: assistant, project and key
    AssistantOf, ProjectOf,
    Canon,          \* the project that needs no grant
    Terms,          \* the terms approved: their start and expiry
    MaxTime,        \* the last moment explored
    CodeTTL,        \* how long a code may be exchanged
    TokenTTL,       \* how long an access token is accepted
    Latency,        \* how long a request may take
    SaidTimes,      \* what the administrator's requests say the time is
    Never,          \* the expiry of a permanent grant
    NoGrant, NoAssistant

ASSUME ConstantsAssumption ==
    /\ AssistantOf \in [Grants -> Assistants]
    /\ ProjectOf \in [Grants -> Projects]
    /\ Canon \in Projects
    /\ MaxTime \in Nat /\ CodeTTL \in Nat /\ TokenTTL \in Nat /\ Latency \in Nat
    /\ Terms \subseteq [starts : Nat, expires : Nat \union {Never}]
    /\ \A terms \in Terms : terms.expires # Never => terms.starts < terms.expires
    /\ SaidTimes \subseteq Nat
    /\ Never \notin Nat
    /\ NoGrant \notin Grants /\ NoAssistant \notin Assistants

VARIABLES
    now,
    grants,      \* memory_access_grants
    receipts,    \* memory_authorization_receipts, in the order of insertion
    codes,       \* the authorization codes of each assistant
    tokens,      \* its access tokens, each until it expires
    claims,      \* the projects that its last refresh token carries
    local        \* the locals of the request each worker is running

provider == <<codes, tokens, claims>>

vars == <<now, grants, receipts, provider, local>>

-----------------------------------------------------------------------------
(* Tables.  A receipt hash stands for the content of a receipt; here it is *)
(* the receipt's position in the log, and zero is no receipt.  The columns *)
(* created_at and revoked_at hold what a request said and decide nothing;  *)
(* made and closed are the moments they were written, kept as history.     *)

Expiries == Nat \union {Never}

Grant == [status: {"absent", "active", "revoked"}, starts: Nat,
          expires: Expiries, made: Nat, closed: Nat, receipt: Nat]

Receipt == [grant: Grants, action: {"approved", "expired", "revoked"},
            previous: Nat, at: Nat]

Code == [projects: SUBSET Projects, at: Nat]

Token == [projects: SUBSET Projects, until: Nat]

Row == [grant: Grants, receipt: Nat]

Steps == {"idle", "approve_write", "revoke_close", "resolve"}

Purposes == {"authorize", "refresh", "list"}

Local == [pc: Steps, began: Nat, at: Nat,
          grant: Grants \union {NoGrant}, starts: Nat, expires: Expiries,
          assistant: Assistants \union {NoAssistant}, purpose: Purposes,
          rows: SUBSET Row]

Idle == [pc |-> "idle", began |-> 0, at |-> 0,
         grant |-> NoGrant, starts |-> 0, expires |-> Never,
         assistant |-> NoAssistant, purpose |-> "list", rows |-> {}]

TypeOK ==
    /\ now \in 0..MaxTime
    /\ grants \in [Grants -> Grant]
    /\ receipts \in Seq(Receipt)
    /\ \A i, j \in DOMAIN receipts : receipts[i] = receipts[j] => i = j
    /\ codes \in [Assistants -> SUBSET Code]
    /\ tokens \in [Assistants -> SUBSET Token]
    /\ claims \in [Assistants -> SUBSET Projects]
    /\ local \in [Workers -> Local]

NoRow == [status |-> "absent", starts |-> 0, expires |-> Never,
          made |-> 0, closed |-> 0, receipt |-> 0]

Init ==
    /\ now = 0
    /\ grants = [g \in Grants |-> NoRow]
    /\ receipts = <<>>
    /\ codes = [s \in Assistants |-> {}]
    /\ tokens = [s \in Assistants |-> {}]
    /\ claims = [s \in Assistants |-> {}]
    /\ local = [w \in Workers |-> Idle]

-----------------------------------------------------------------------------
(* Control.                                                                *)

At(w, step) == local[w].pc = step

Start(w, request) == local' = [local EXCEPT ![w] = request]

Return(w) == local' = [local EXCEPT ![w] = Idle]

\* A request for which the time is at.
RequestAt(at) == [Idle EXCEPT !.began = now, !.at = at]

AnyReceipt(receipt) == TRUE         \* mutant: no unique index on the hash

\* receipt_hash is unique.
IsNew(receipt) == \A i \in DOMAIN receipts : receipts[i] # receipt

-----------------------------------------------------------------------------
(* approveAssistantGrant.  A replay writes nothing and is no action.       *)

\* normalizeApproval: the request says when it is, when the grant starts and
\* when it expires, all of which may be over.
ApproveRead(w, g, terms, at) ==
    /\ At(w, "idle")
    /\ grants[g].status = "absent"
    /\ Start(w, [RequestAt(at) EXCEPT
          !.pc = "approve_write", !.grant = g, !.starts = terms.starts,
          !.expires = terms.expires])
    /\ UNCHANGED <<now, grants, receipts, provider>>

Approval(w) == [grant |-> local[w].grant, action |-> "approved",
                previous |-> 0, at |-> local[w].at]

\* The unique indexes on the grant's key and on active grants, which do not
\* ask whether the active one has expired.
ApprovalFits(g) ==
    /\ grants[g].status = "absent"
    /\ \A h \in Grants : grants[h].status = "active" =>
          AssistantOf[h] # AssistantOf[g] \/ ProjectOf[h] # ProjectOf[g]

ApproveWrite(w) ==
    /\ At(w, "approve_write")
    /\ ApprovalFits(local[w].grant)
    /\ grants' = [grants EXCEPT ![local[w].grant] =
          [status |-> "active", starts |-> local[w].starts,
           expires |-> local[w].expires, made |-> now, closed |-> 0,
           receipt |-> Len(receipts) + 1]]
    /\ receipts' = Append(receipts, Approval(w))
    /\ Return(w)
    /\ UNCHANGED <<now, provider>>

ApproveAborts(w) ==
    /\ At(w, "approve_write")
    /\ ~ApprovalFits(local[w].grant)
    /\ Return(w)
    /\ UNCHANGED <<now, grants, receipts, provider>>

-----------------------------------------------------------------------------
(* closeGrant: an update that may come too late, and in any case a receipt *)
(* that follows the one the row carried when it was read.                  *)

Closing(w, row, action) ==
    [grant |-> row.grant, action |-> action, previous |-> row.receipt,
     at |-> local[w].at]

Closed(g) ==
    [grants EXCEPT ![g].status = "revoked", ![g].closed = now,
                   ![g].receipt = Len(receipts) + 1]

ClosedAnyway(g) == Closed(g)        \* mutant: closes a row that is not active

ClosedOnce(g) == IF grants[g].status = "active" THEN Closed(g) ELSE grants

CloseGrant(w, row, action) ==
    /\ IsNew(Closing(w, row, action))
    /\ grants' = ClosedOnce(row.grant)
    /\ receipts' = Append(receipts, Closing(w, row, action))

RowOf(g) == [grant |-> g, receipt |-> grants[g].receipt]

-----------------------------------------------------------------------------
(* revokeAssistantGrant.                                                   *)

RevokeRead(w, g, at) ==
    /\ At(w, "idle")
    /\ grants[g].status = "active"
    /\ Start(w, [RequestAt(at) EXCEPT !.pc = "revoke_close", !.rows = {RowOf(g)}])
    /\ UNCHANGED <<now, grants, receipts, provider>>

RevokeClose(w) ==
    /\ At(w, "revoke_close")
    /\ \E row \in local[w].rows : CloseGrant(w, row, "revoked")
    /\ Return(w)
    /\ UNCHANGED <<now, provider>>

\* Two revocations of one grant that say the same moment and reason.
RevokeAborts(w) ==
    /\ At(w, "revoke_close")
    /\ \E row \in local[w].rows : ~IsNew(Closing(w, row, "revoked"))
    /\ Return(w)
    /\ UNCHANGED <<now, grants, receipts, provider>>

-----------------------------------------------------------------------------
(* resolveAssistantGrant, for a new authorization, for a refresh, or for   *)
(* the administrator's list, which says itself what time it is.            *)

ResolveRead(w, s, purpose, at) ==
    /\ At(w, "idle")
    /\ Start(w, [RequestAt(at) EXCEPT
          !.pc = "resolve", !.assistant = s, !.purpose = purpose,
          !.rows = {RowOf(g) : g \in {h \in Grants :
                        /\ AssistantOf[h] = s
                        /\ grants[h].status = "active"}}])
    /\ UNCHANGED <<now, grants, receipts, provider>>

Authorize(w, s) == ResolveRead(w, s, "authorize", now)

\* What is issued always carries the project that needs no grant.
Refresh(w, s) == claims[s] # {} /\ ResolveRead(w, s, "refresh", now)

ListActive(w, s, at) == ResolveRead(w, s, "list", at)

Expired(g, t) == grants[g].expires # Never /\ grants[g].expires <= t

Started(g, t) == grants[g].starts <= t

ExpiredRows(w) == {row \in local[w].rows : Expired(row.grant, local[w].at)}

\* expireGrant
ExpireRow(w) ==
    \E row \in ExpiredRows(w) :
        /\ At(w, "resolve")
        /\ CloseGrant(w, row, "expired")
        /\ local' = [local EXCEPT ![w].rows = @ \ {row}]
        /\ UNCHANGED <<now, provider>>

\* Another request has expired the grant in the same moment: this one fails.
ExpireAborts(w) ==
    /\ At(w, "resolve")
    /\ \E row \in ExpiredRows(w) : ~IsNew(Closing(w, row, "expired"))
    /\ Return(w)
    /\ UNCHANGED <<now, grants, receipts, provider>>

Resolved(w) ==
    {Canon} \union {ProjectOf[row.grant] : row \in
        {r \in local[w].rows : Started(r.grant, local[w].at)}}

KeepsProjects(w) ==                 \* mutant: a refresh only ever adds
    Resolved(w) \union claims[local[w].assistant]

ReplacesProjects(w) == Resolved(w)

NewToken(projects) == [projects |-> projects, until |-> now + TokenTTL]

\* completeGitHubAuthorization, refreshGrantProps, the administrator's reply.
\* The access tokens issued before a refresh are accepted until they expire.
ResolveReply(w) ==
    LET s == local[w].assistant IN
    /\ At(w, "resolve")
    /\ ExpiredRows(w) = {}
    /\ codes' = IF local[w].purpose = "authorize"
                THEN [codes EXCEPT ![s] =
                        @ \union {[projects |-> Resolved(w), at |-> now]}]
                ELSE codes
    /\ IF local[w].purpose = "refresh"
       THEN /\ claims' = [claims EXCEPT ![s] = ReplacesProjects(w)]
            /\ tokens' = [tokens EXCEPT ![s] =
                  @ \union {NewToken(ReplacesProjects(w))}]
       ELSE UNCHANGED <<claims, tokens>>
    /\ Return(w)
    /\ UNCHANGED <<now, grants, receipts>>

-----------------------------------------------------------------------------
(* The provider's token endpoint: the claims of a code are not resolved    *)
(* again.                                                                  *)

ExchangeCode(s) ==
    \E code \in codes[s] :
        /\ tokens' = [tokens EXCEPT ![s] = @ \union {NewToken(code.projects)}]
        /\ codes' = [codes EXCEPT ![s] = @ \ {code}]
        /\ claims' = [claims EXCEPT ![s] = code.projects]
        /\ UNCHANGED <<now, grants, receipts, local>>

-----------------------------------------------------------------------------

\* A request that stops, or is refused by the allowlist or by GitHub.
Crash(w) ==
    /\ ~At(w, "idle")
    /\ Return(w)
    /\ UNCHANGED <<now, grants, receipts, provider>>

\* The provider forgets codes that are too old, and tokens that have expired.
Tick ==
    /\ now < MaxTime
    /\ \A w \in Workers : At(w, "idle") \/ now < local[w].began + Latency
    /\ now' = now + 1
    /\ codes' = [s \in Assistants |->
                    {code \in codes[s] : now < code.at + CodeTTL}]
    /\ tokens' = [s \in Assistants |-> {k \in tokens[s] : now + 1 < k.until}]
    /\ UNCHANGED <<grants, receipts, claims, local>>

Administer(w) ==
    \/ \E g \in Grants, at \in SaidTimes :
          \/ \E terms \in Terms : ApproveRead(w, g, terms, at)
          \/ RevokeRead(w, g, at)
    \/ ApproveWrite(w)
    \/ ApproveAborts(w)
    \/ RevokeClose(w)
    \/ RevokeAborts(w)

Resolve(w) ==
    \/ \E s \in Assistants : \/ Authorize(w, s)
                             \/ Refresh(w, s)
                             \/ \E at \in SaidTimes : ListActive(w, s, at)
    \/ ExpireRow(w)
    \/ ExpireAborts(w)
    \/ ResolveReply(w)

Next ==
    \/ \E w \in Workers : Administer(w) \/ Resolve(w) \/ Crash(w)
    \/ \E s \in Assistants : ExchangeCode(s)
    \/ Tick

Spec == Init /\ [][Next]_vars

-----------------------------------------------------------------------------
(* Properties.                                                             *)

\* A grant has one approval, first of its receipts and followed by all the
\* others.  It is active as long as there are no others; then the first of
\* them is the one it carries, whatever expiries and revocations raced it and
\* left a receipt as well.
FirstClosingCounts ==
    \A g \in Grants :
        LET own == {i \in DOMAIN receipts : receipts[i].grant = g}
            closings == {i \in own : receipts[i].action # "approved"} IN
        /\ grants[g].status = "absent" <=> own = {}
        /\ grants[g].status = "revoked" <=> closings # {}
        /\ own # {} => \E a \in own \ closings :
              /\ own = closings \union {a}
              /\ receipts[a].previous = 0
              /\ \A i \in closings : a < i /\ receipts[i].previous = a
              /\ grants[g].status = "active" => grants[g].receipt = a
        /\ closings # {} =>
              /\ grants[g].receipt \in closings
              /\ \A i \in closings : grants[g].receipt <= i

\* On the server's clock, whatever the administrator's requests said.
InForce(g, t) ==
    /\ grants[g].status # "absent"
    /\ grants[g].made <= t /\ Started(g, t) /\ ~Expired(g, t)
    /\ grants[g].status = "revoked" => t <= grants[g].closed

Window == TokenTTL + CodeTTL + Latency

\* A token that is accepted opens a project only if a grant for it was in
\* force a bounded time ago: the lifetimes of a token, of a code and of the
\* request that resolved.
AccessEndsInTime ==
    \A s \in Assistants : \A k \in tokens[s] : now < k.until =>
        \A p \in k.projects \ {Canon} :
            \E g \in Grants, t \in 0..now :
                /\ AssistantOf[g] = s /\ ProjectOf[g] = p
                /\ now <= t + Window
                /\ InForce(g, t)

=============================================================================
