------------------------- MODULE AccessGrantsProofs -------------------------
(***************************************************************************)
(* Type correctness of AccessGrants, what its receipts tell, and when      *)
(* access ends, for any number of grants, assistants and requests, any     *)
(* lifetimes, and whatever the administrator's requests say the time is.   *)
(***************************************************************************)
EXTENDS AccessGrants, TLAPS

IsApproval(g, a) ==
    /\ a \in DOMAIN receipts
    /\ receipts[a].grant = g
    /\ receipts[a].action = "approved"

\* The grant was active at t, for all that has become of it.
Held(g, t) ==
    /\ grants[g].status # "absent"
    /\ grants[g].made <= t
    /\ grants[g].status = "revoked" => t <= grants[g].closed

\* A grant for p was in force at most d before m.
Backed(s, p, m, d) ==
    \E g \in Grants, t \in 0..now :
        /\ AssistantOf[g] = s /\ ProjectOf[g] = p
        /\ Held(g, t) /\ Started(g, t) /\ ~Expired(g, t)
        /\ m <= t + d

\* What the locals of a request say at each step.
RequestOK(w) ==
    /\ ~At(w, "idle") => /\ local[w].began <= now
                         /\ now <= local[w].began + Latency
    /\ At(w, "resolve") /\ local[w].purpose # "list" =>
          local[w].at = local[w].began
    /\ At(w, "approve_write") => local[w].grant \in Grants
    /\ At(w, "resolve") => local[w].assistant \in Assistants
    /\ At(w, "idle") => local[w].rows = {}
    /\ \A row \in local[w].rows :
          /\ IsApproval(row.grant, row.receipt)
          /\ At(w, "resolve") => /\ AssistantOf[row.grant] = local[w].assistant
                                 /\ Held(row.grant, local[w].began)

LocalOK == \A w \in Workers : RequestOK(w)

GrantsOK == \A g \in Grants : grants[g].status # "absent" => grants[g].made <= now

CodesOK ==
    \A s \in Assistants : \A code \in codes[s] :
        /\ code.at <= now /\ now <= code.at + CodeTTL
        /\ \A p \in code.projects \ {Canon} : Backed(s, p, code.at, Latency)

TokensOK ==
    \A s \in Assistants : \A k \in tokens[s] :
        \A p \in k.projects \ {Canon} : Backed(s, p, k.until, Window)

\* The inductive invariant.
IInv ==
    /\ TypeOK
    /\ FirstClosingCounts
    /\ LocalOK
    /\ GrantsOK
    /\ CodesOK
    /\ TokensOK

LEMMA InitEstablishes == Init => IInv
  <1> SUFFICES ASSUME Init PROVE IInv
    OBVIOUS
  <1> USE ConstantsAssumption DEF Init, NoRow, Idle
  <1>1. TypeOK
    BY DEF TypeOK, Grant, Expiries, Receipt, Code, Token, Local, Steps,
         Purposes, Row
  <1>2. FirstClosingCounts
    BY DEF FirstClosingCounts
  <1>3. LocalOK /\ GrantsOK /\ CodesOK /\ TokensOK
    BY DEF LocalOK, RequestOK, GrantsOK, CodesOK, TokensOK, At
  <1> QED
    BY <1>1, <1>2, <1>3 DEF IInv

-----------------------------------------------------------------------------
(* The receipts.                                                           *)

\* What the receipts of one grant say, and what its row makes of them.
History(g) ==
    /\ grants[g].status = "absent" <=>
          \A i \in DOMAIN receipts : receipts[i].grant # g
    /\ \A a, i \in DOMAIN receipts :
          /\ receipts[a].grant = g /\ receipts[a].action = "approved"
          /\ receipts[i].grant = g
          => /\ receipts[a].previous = 0
             /\ i = a \/ /\ receipts[i].action # "approved"
                         /\ a < i /\ receipts[i].previous = a
    /\ grants[g].status = "active" =>
          /\ IsApproval(g, grants[g].receipt)
          /\ \A i \in DOMAIN receipts :
                receipts[i].grant = g => i = grants[g].receipt
    /\ grants[g].status = "revoked" =>
          /\ grants[g].receipt \in DOMAIN receipts
          /\ receipts[grants[g].receipt].grant = g
          /\ receipts[grants[g].receipt].action # "approved"
          /\ \E a \in DOMAIN receipts : IsApproval(g, a)
          /\ \A i \in DOMAIN receipts :
                receipts[i].grant = g /\ receipts[i].action # "approved" =>
                    grants[g].receipt <= i

Histories == \A g \in Grants : History(g)

LEMMA HistoryIsEnough == TypeOK => (FirstClosingCounts <=> Histories)
  <1> SUFFICES ASSUME TypeOK PROVE FirstClosingCounts <=> Histories
    OBVIOUS
  <1>0. /\ grants \in [Grants -> Grant]
        /\ receipts \in Seq(Receipt)
        /\ DOMAIN receipts \subseteq Nat
        /\ \A g \in Grants : grants[g].status \in {"absent", "active", "revoked"}
    BY DEF TypeOK, Grant
  <1>1. ASSUME FirstClosingCounts, NEW g \in Grants PROVE History(g)
    BY <1>0, <1>1 DEF FirstClosingCounts, History, IsApproval
  <1>2. ASSUME NEW g \in Grants, History(g)
        PROVE  LET own == {i \in DOMAIN receipts : receipts[i].grant = g}
                   closings == {i \in own : receipts[i].action # "approved"} IN
               /\ grants[g].status = "absent" <=> own = {}
               /\ grants[g].status = "revoked" <=> closings # {}
               /\ own # {} => \E a \in own \ closings :
                     /\ own = closings \union {a}
                     /\ receipts[a].previous = 0
                     /\ \A i \in closings : a < i /\ receipts[i].previous = a
                     /\ grants[g].status = "active" => grants[g].receipt = a
               /\ closings # {} =>
                     /\ grants[g].receipt \in closings
                     /\ \A i \in closings : grants[g].receipt <= i
    <2> DEFINE own == {i \in DOMAIN receipts : receipts[i].grant = g}
               closings == {i \in own : receipts[i].action # "approved"}
    <2>1. CASE grants[g].status = "absent"
      BY <1>2, <2>1 DEF History
    <2>2. CASE grants[g].status = "active"
      <3>1. own = {grants[g].receipt} /\ closings = {}
        BY <1>2, <2>2 DEF History, IsApproval
      <3> QED
        BY <1>2, <2>2, <3>1 DEF History, IsApproval
    <2>3. CASE grants[g].status = "revoked"
      <3>1. PICK a \in DOMAIN receipts : IsApproval(g, a)
        BY <1>2, <2>3 DEF History
      <3>2. a \in own \ closings /\ own = closings \union {a}
        BY <1>2, <3>1 DEF History, IsApproval
      <3>3. /\ receipts[a].previous = 0
            /\ \A i \in closings : a < i /\ receipts[i].previous = a
        BY <1>2, <3>1 DEF History, IsApproval
      <3>4. /\ grants[g].receipt \in closings
            /\ \A i \in closings : grants[g].receipt <= i
        BY <1>2, <2>3 DEF History
      <3> QED
        BY <2>3, <3>2, <3>3, <3>4
    <2> QED
      BY <1>0, <2>1, <2>2, <2>3
  <1> QED
    BY <1>1, <1>2 DEF FirstClosingCounts, Histories

\* The same after a step.
LEMMA HistoryIsEnoughNext == (TypeOK => (FirstClosingCounts <=> Histories))'
  BY HistoryIsEnough, PTL

-----------------------------------------------------------------------------
(* What a step may do to a grant.                                          *)

\* A grant keeps its terms; if the step ends it, then now.
Keeps ==
    \A g \in Grants : grants[g].status # "absent" =>
        /\ grants'[g].status # "absent"
        /\ grants'[g].made = grants[g].made
        /\ grants'[g].starts = grants[g].starts
        /\ grants'[g].expires = grants[g].expires
        /\ grants'[g].status = "revoked" =>
              \/ /\ grants[g].status = "revoked"
                 /\ grants'[g].closed = grants[g].closed
              \/ grants'[g].closed = now

Types ==
    /\ grants \in [Grants -> Grant]
    /\ now \in Nat
    /\ local \in [Workers -> Local]

LEMMA TypesHold == TypeOK => Types
  BY ConstantsAssumption DEF TypeOK, Types

LEMMA HeldStays ==
    ASSUME Types, Types', Keeps, NEW g \in Grants, NEW t \in 0..now, Held(g, t)
    PROVE  Held(g, t)'
  <1>1. t <= now
    BY DEF Types
  <1> QED
    BY <1>1 DEF Held, Keeps

LEMMA BackedStays ==
    ASSUME Types, Types', Keeps, now <= now', NEW s, NEW p, NEW m, NEW d,
           Backed(s, p, m, d)
    PROVE  Backed(s, p, m, d)'
  <1>1. PICK g \in Grants, t \in 0..now :
           /\ AssistantOf[g] = s /\ ProjectOf[g] = p
           /\ Held(g, t) /\ Started(g, t) /\ ~Expired(g, t)
           /\ m <= t + d
    BY DEF Backed
  <1>2. t \in 0..now'
    BY DEF Types
  <1>3. Held(g, t)'
    BY <1>1, HeldStays
  <1>4. Started(g, t)' /\ ~Expired(g, t)'
    BY <1>1 DEF Held, Keeps, Started, Expired
  <1> QED
    BY <1>1, <1>2, <1>3, <1>4 DEF Backed

LEMMA ClaimsStay ==
    ASSUME IInv, Types', Keeps, now <= now', NEW s \in Assistants
    PROVE  /\ \A code \in codes[s] : \A p \in code.projects \ {Canon} :
                 Backed(s, p, code.at, Latency)'
           /\ \A k \in tokens[s] : \A p \in k.projects \ {Canon} :
                 Backed(s, p, k.until, Window)'
  <1>0. Types
    BY TypesHold DEF IInv
  <1>1. ASSUME NEW code \in codes[s], NEW p \in code.projects \ {Canon}
        PROVE  Backed(s, p, code.at, Latency)'
    <2>1. Backed(s, p, code.at, Latency)
      BY DEF IInv, CodesOK
    <2> QED
      BY <1>0, <2>1, BackedStays
  <1>2. ASSUME NEW k \in tokens[s], NEW p \in k.projects \ {Canon}
        PROVE  Backed(s, p, k.until, Window)'
    <2>1. PICK window : window = Window
      OBVIOUS
    <2>2. Backed(s, p, k.until, window)
      BY <2>1 DEF IInv, TokensOK
    <2>3. Backed(s, p, k.until, window)'
      BY <1>0, <2>2, BackedStays
    <2> QED
      BY <2>1, <2>3 DEF Window
  <1> QED
    BY <1>1, <1>2

LEMMA ClaimsQuiet ==
    ASSUME IInv, Types', Keeps, UNCHANGED <<codes, tokens, now>>
    PROVE  CodesOK' /\ TokensOK'
  <1>1. now <= now'
    BY TypesHold DEF IInv, Types
  <1>2. CodesOK'
    BY <1>1, ClaimsStay DEF IInv, CodesOK
  <1>3. TokensOK'
    BY <1>1, ClaimsStay DEF TokensOK
  <1> QED
    BY <1>2, <1>3

-----------------------------------------------------------------------------
(* The requests.                                                           *)

\* Nothing is taken out of the log.
Grows ==
    \A i \in DOMAIN receipts : i \in DOMAIN receipts' /\ receipts'[i] = receipts[i]

LEMMA OtherRequests ==
    ASSUME IInv, Types', Keeps, Grows, now' = now, NEW v \in Workers,
           local'[v] = local[v]
    PROVE  RequestOK(v)'
  <1>1. RequestOK(v) /\ Types /\ local[v] \in Local
    BY TypesHold DEF IInv, LocalOK, Types
  <1>2. \A row \in local[v].rows : row.grant \in Grants /\ row.receipt \in Nat
    BY <1>1 DEF Local, Row
  <1>3. ASSUME NEW row \in local[v].rows
        PROVE  IsApproval(row.grant, row.receipt)'
    BY <1>1 DEF RequestOK, IsApproval, Grows
  <1>4. ASSUME NEW row \in local[v].rows, At(v, "resolve")
        PROVE  Held(row.grant, local[v].began)'
    <2>1. PICK t : t = local[v].began
      OBVIOUS
    <2>2. t \in 0..now /\ Held(row.grant, t)
      BY <1>1, <1>4, <2>1 DEF RequestOK, At, Local, Types
    <2>3. Held(row.grant, t)'
      BY <1>1, <1>2, <2>2, HeldStays
    <2> QED
      BY <2>1, <2>3 DEF Held
  <1>5. At(v, "idle")' <=> At(v, "idle")
    BY DEF At
  <1>6. /\ At(v, "resolve")' <=> At(v, "resolve")
        /\ At(v, "approve_write")' <=> At(v, "approve_write")
    BY DEF At
  <1>7. /\ \A row \in local'[v].rows :
              /\ IsApproval(row.grant, row.receipt)'
              /\ At(v, "resolve")' =>
                    /\ AssistantOf[row.grant] = local'[v].assistant
                    /\ Held(row.grant, local[v].began)'
    BY <1>1, <1>3, <1>4, <1>6 DEF RequestOK
  <1> QED
    BY <1>1, <1>5, <1>6, <1>7 DEF RequestOK

LEMMA IdleRequest ==
    ASSUME NEW w \in Workers, local'[w] = Idle
    PROVE  RequestOK(w)'
  BY DEF RequestOK, Idle, At

LEMMA RequestsReturn ==
    ASSUME IInv, Types', Keeps, Grows, now' = now, NEW w \in Workers, Return(w)
    PROVE  LocalOK'
  <1>1. local \in [Workers -> Local]
    BY DEF IInv, TypeOK
  <1>2. \A v \in Workers : local'[v] = IF v = w THEN Idle ELSE local[v]
    BY <1>1 DEF Return
  <1> QED
    BY <1>2, IdleRequest, OtherRequests DEF LocalOK

LEMMA ReturnTypes ==
    ASSUME TypeOK, NEW w \in Workers, Return(w)
    PROVE  local' \in [Workers -> Local]
  <1>1. Idle \in Local
    BY ConstantsAssumption DEF Idle, Local, Steps, Purposes, Expiries
  <1> QED
    BY <1>1 DEF TypeOK, Return

LEMMA Untouched ==
    ASSUME UNCHANGED <<grants, receipts>>
    PROVE  Keeps /\ Grows
  BY DEF Keeps, Grows

-----------------------------------------------------------------------------
(* The first read of a request.                                            *)

\* A new request reads a grant that is active.
LEMMA ActiveIsHeld ==
    ASSUME IInv, NEW g \in Grants, grants[g].status = "active"
    PROVE  IsApproval(g, grants[g].receipt) /\ Held(g, now)
  <1>1. History(g)
    BY HistoryIsEnough DEF IInv, Histories
  <1> QED
    BY <1>1 DEF History, IInv, GrantsOK, Held

LEMMA StartStep ==
    ASSUME IInv, NEW w \in Workers, NEW new \in Local, Start(w, new),
           UNCHANGED <<now, grants, receipts, provider>>,
           new.began = now, new.pc # "idle",
           new.pc = "resolve" /\ new.purpose # "list" => new.at = now,
           new.pc = "approve_write" => new.grant \in Grants,
           new.pc = "resolve" => new.assistant \in Assistants,
           \A row \in new.rows :
              \E g \in Grants : /\ row = RowOf(g) /\ grants[g].status = "active"
                                /\ new.pc = "resolve" => AssistantOf[g] = new.assistant
    PROVE  IInv'
  <1>1. /\ local \in [Workers -> Local]
        /\ local' = [local EXCEPT ![w] = new]
        /\ now \in Nat /\ Latency \in Nat
    BY TypesHold, ConstantsAssumption DEF IInv, Types, Start
  <1>2. TypeOK'
    BY <1>1 DEF IInv, TypeOK, provider
  <1>3. Types' /\ Keeps /\ Grows
    BY <1>2, TypesHold, Untouched DEF TypeOK, Types, IInv
  <1>4. \A row \in new.rows :
           /\ IsApproval(row.grant, row.receipt)
           /\ new.pc = "resolve" => /\ AssistantOf[row.grant] = new.assistant
                                    /\ Held(row.grant, now)
    BY ActiveIsHeld DEF RowOf
  <1>5. local'[w] = new /\ \A v \in Workers \ {w} : local'[v] = local[v]
    BY <1>1
  <1>6. now <= new.began + Latency
    BY <1>1
  <1>7. RequestOK(w)'
    BY <1>1, <1>4, <1>5, <1>6 DEF RequestOK, At, IsApproval, Held, Expired
  <1>8. LocalOK'
    BY <1>3, <1>5, <1>7, OtherRequests DEF LocalOK
  <1>9. CodesOK' /\ TokensOK'
    BY <1>3, ClaimsQuiet DEF provider
  <1>10. FirstClosingCounts' /\ GrantsOK'
    BY DEF IInv, FirstClosingCounts, GrantsOK
  <1> QED
    BY <1>2, <1>8, <1>9, <1>10 DEF IInv

LEMMA ApproveReadStep ==
    ASSUME IInv, NEW w \in Workers, NEW g \in Grants, NEW terms \in Terms,
           NEW at \in SaidTimes, ApproveRead(w, g, terms, at)
    PROVE  IInv'
  <1>1. /\ now \in Nat /\ at \in Nat /\ terms.starts \in Nat
        /\ terms.expires \in Expiries
    BY TypesHold, ConstantsAssumption DEF IInv, Types, Expiries
  <1>2. PICK begin \in Nat, expiry \in Expiries :
           begin = terms.starts /\ expiry = terms.expires
    BY <1>1
  <1> DEFINE new == [RequestAt(at) EXCEPT
                       !.pc = "approve_write", !.grant = g,
                       !.starts = begin, !.expires = expiry]
  <1>3. /\ new.pc = "approve_write" /\ new.began = now
        /\ new.grant = g /\ new.rows = {}
        /\ new \in Local
    BY <1>1, ConstantsAssumption
       DEF RequestAt, Idle, Local, Steps, Purposes, Expiries
  <1>4. Start(w, new) /\ UNCHANGED <<now, grants, receipts, provider>>
    BY <1>2 DEF ApproveRead
  <1> QED
    BY <1>3, <1>4, StartStep

LEMMA RevokeReadStep ==
    ASSUME IInv, NEW w \in Workers, NEW g \in Grants, NEW at \in SaidTimes,
           RevokeRead(w, g, at)
    PROVE  IInv'
  <1> DEFINE new == [RequestAt(at) EXCEPT !.pc = "revoke_close",
                                          !.rows = {RowOf(g)}]
  <1>1. now \in Nat /\ at \in Nat /\ grants[g] \in Grant
    BY TypesHold, ConstantsAssumption DEF IInv, Types
  <1>2. RowOf(g) \in Row
    BY <1>1 DEF RowOf, Row, Grant
  <1>3. /\ new.pc = "revoke_close" /\ new.began = now
        /\ new.rows = {RowOf(g)}
        /\ new \in Local
    BY <1>1, <1>2, ConstantsAssumption
       DEF RequestAt, Idle, Local, Steps, Purposes, Expiries
  <1>4. /\ Start(w, new) /\ UNCHANGED <<now, grants, receipts, provider>>
        /\ grants[g].status = "active"
    BY DEF RevokeRead
  <1> QED
    BY <1>3, <1>4, StartStep

LEMMA ResolveReadStep ==
    ASSUME IInv, NEW w \in Workers, NEW s \in Assistants,
           NEW purpose \in Purposes, NEW at \in Nat,
           purpose # "list" => at = now,
           ResolveRead(w, s, purpose, at)
    PROVE  IInv'
  <1> DEFINE found == {RowOf(g) : g \in {h \in Grants :
                          /\ AssistantOf[h] = s
                          /\ grants[h].status = "active"}}
             new == [RequestAt(at) EXCEPT
                       !.pc = "resolve", !.assistant = s, !.purpose = purpose,
                       !.rows = found]
  <1>1. now \in Nat /\ \A g \in Grants : grants[g] \in Grant
    BY TypesHold DEF IInv, Types
  <1>2. found \in SUBSET Row
    BY <1>1 DEF RowOf, Row, Grant
  <1> HIDE DEF found
  <1>3. /\ new.pc = "resolve" /\ new.began = now /\ new.at = at
        /\ new.purpose = purpose /\ new.assistant = s /\ new.rows = found
        /\ new \in Local
    BY <1>1, <1>2, ConstantsAssumption
       DEF RequestAt, Idle, Local, Steps, Expiries
  <1>4. Start(w, new) /\ UNCHANGED <<now, grants, receipts, provider>>
    BY DEF ResolveRead, found
  <1>5. \A row \in found : \E g \in Grants :
           /\ row = RowOf(g) /\ grants[g].status = "active"
           /\ AssistantOf[g] = s
    BY DEF found
  <1> QED
    BY <1>3, <1>4, <1>5, StartStep

-----------------------------------------------------------------------------
(* Writing a receipt.                                                      *)

\* What a log with one more receipt is.
LEMMA OneMore ==
    ASSUME TypeOK, NEW r \in Receipt, IsNew(r), receipts' = Append(receipts, r)
    PROVE  /\ Grows
           /\ receipts' \in Seq(Receipt)
           /\ DOMAIN receipts = 1..Len(receipts) /\ Len(receipts) \in Nat
           /\ DOMAIN receipts' = DOMAIN receipts \union {Len(receipts) + 1}
           /\ receipts'[Len(receipts) + 1] = r
           /\ \A i \in DOMAIN receipts : receipts'[i] = receipts[i]
           /\ \A i, j \in DOMAIN receipts' : receipts'[i] = receipts'[j] => i = j
  <1>1. receipts \in Seq(Receipt)
    BY DEF TypeOK
  <1>2. /\ receipts' \in Seq(Receipt)
        /\ DOMAIN receipts = 1..Len(receipts) /\ Len(receipts) \in Nat
        /\ DOMAIN receipts' = 1..(Len(receipts) + 1)
        /\ receipts'[Len(receipts) + 1] = r
        /\ \A i \in DOMAIN receipts : receipts'[i] = receipts[i]
    BY <1>1
  <1>3. DOMAIN receipts' = DOMAIN receipts \union {Len(receipts) + 1}
    BY <1>2
  <1>4. \A i, j \in DOMAIN receipts' : receipts'[i] = receipts'[j] => i = j
    BY <1>2, <1>3 DEF TypeOK, IsNew
  <1>5. Grows
    BY <1>2, <1>3 DEF Grows
  <1> QED
    BY <1>2, <1>3, <1>4, <1>5

\* The receipts of the other grants say what they said.
LEMMA OtherHistories ==
    ASSUME IInv, NEW r \in Receipt, NEW g \in Grants, IsNew(r),
           receipts' = Append(receipts, r), r.grant # g, grants'[g] = grants[g]
    PROVE  History(g)'
  <1>1. History(g)
    BY HistoryIsEnough DEF IInv, Histories
  <1>2. /\ \A i \in DOMAIN receipts : receipts'[i] = receipts[i]
        /\ DOMAIN receipts' = DOMAIN receipts \union {Len(receipts) + 1}
        /\ receipts'[Len(receipts) + 1].grant # g
    BY OneMore DEF IInv
  <1>3. \A i \in DOMAIN receipts' : receipts'[i].grant = g => i \in DOMAIN receipts
    BY <1>2
  <1>4. \A i \in DOMAIN receipts : i \in DOMAIN receipts'
    BY <1>2
  <1>5. /\ grants'[g].status = "absent" <=>
              \A i \in DOMAIN receipts' : receipts'[i].grant # g
        /\ \A a, i \in DOMAIN receipts' :
              /\ receipts'[a].grant = g /\ receipts'[a].action = "approved"
              /\ receipts'[i].grant = g
              => /\ receipts'[a].previous = 0
                 /\ i = a \/ /\ receipts'[i].action # "approved"
                             /\ a < i /\ receipts'[i].previous = a
    BY <1>1, <1>2, <1>3, <1>4 DEF History
  <1>6. grants'[g].status = "active" =>
          /\ IsApproval(g, grants[g].receipt)'
          /\ \A i \in DOMAIN receipts' :
                receipts'[i].grant = g => i = grants'[g].receipt
    BY <1>1, <1>2, <1>3, <1>4 DEF History, IsApproval
  <1>7. grants'[g].status = "revoked" =>
          /\ grants'[g].receipt \in DOMAIN receipts'
          /\ receipts'[grants'[g].receipt].grant = g
          /\ receipts'[grants'[g].receipt].action # "approved"
          /\ \E a \in DOMAIN receipts' : IsApproval(g, a)'
          /\ \A i \in DOMAIN receipts' :
                receipts'[i].grant = g /\ receipts'[i].action # "approved" =>
                    grants'[g].receipt <= i
    BY <1>1, <1>2, <1>3, <1>4 DEF History, IsApproval
  <1> QED
    BY <1>5, <1>6, <1>7 DEF History

LEMMA ApproveWriteStep ==
    ASSUME IInv, NEW w \in Workers, ApproveWrite(w)
    PROVE  IInv'
  <1>0. PICK g \in Grants : g = local[w].grant
    BY DEF ApproveWrite, IInv, LocalOK, RequestOK
  <1>n. PICK n \in Nat : n = Len(receipts) + 1
    BY DEF IInv, TypeOK
  <1>1. /\ RequestOK(w) /\ ~At(w, "idle") /\ ~At(w, "resolve")
        /\ local[w] \in Local /\ now \in Nat
        /\ grants \in [Grants -> Grant]
        /\ TypeOK
    BY TypesHold DEF ApproveWrite, At, IInv, LocalOK, TypeOK, Types
  <1>2. /\ grants[g].status = "absent" /\ History(g)
        /\ Approval(w).grant = g /\ Approval(w).action = "approved"
        /\ Approval(w).previous = 0
        /\ Approval(w) \in Receipt
    BY <1>0, <1>1, HistoryIsEnough
       DEF Histories, ApproveWrite, ApprovalFits, Approval, Receipt, Local, IInv
  <1>3. /\ IsNew(Approval(w))
        /\ \A i \in DOMAIN receipts : receipts[i].grant # g
    BY <1>2 DEF IsNew, History
  <1>4. /\ receipts' = Append(receipts, Approval(w)) /\ Return(w)
        /\ UNCHANGED <<now, provider>>
    BY DEF ApproveWrite
  <1>5. /\ Grows
        /\ receipts' \in Seq(Receipt)
        /\ DOMAIN receipts = 1..Len(receipts) /\ Len(receipts) \in Nat
        /\ DOMAIN receipts' = DOMAIN receipts \union {n}
        /\ receipts'[n] = Approval(w)
        /\ \A i \in DOMAIN receipts : receipts'[i] = receipts[i]
        /\ \A i, j \in DOMAIN receipts' : receipts'[i] = receipts'[j] => i = j
    BY <1>n, <1>1, <1>2, <1>3, <1>4, OneMore
  <1>6. /\ grants' = [grants EXCEPT ![g] =
              [status |-> "active", starts |-> local[w].starts,
               expires |-> local[w].expires, made |-> now,
               closed |-> 0, receipt |-> n]]
    BY <1>n, <1>0 DEF ApproveWrite
  <1>7. /\ grants' \in [Grants -> Grant]
        /\ grants'[g].status = "active" /\ grants'[g].receipt = n
        /\ grants'[g].made = now
        /\ \A h \in Grants \ {g} : grants'[h] = grants[h]
    BY <1>1, <1>6 DEF Grant, Local
  <1>8. local' \in [Workers -> Local]
    BY <1>1, <1>4, ReturnTypes
  <1>9. TypeOK'
    BY <1>1, <1>4, <1>5, <1>7, <1>8 DEF TypeOK, provider
  <1>10. Keeps /\ Types'
    BY <1>2, <1>7, <1>9, <1>4, <1>8, <1>1 DEF Keeps, Types
  <1>11. ASSUME NEW h \in Grants PROVE History(h)'
    <2>1. CASE h # g
      BY <1>2, <1>3, <1>4, <1>7, <2>1, OtherHistories
    <2>2. CASE h = g
      <3>1. \A i \in DOMAIN receipts' : receipts'[i].grant = g => i = n
        BY <1>3, <1>5
      <3>2. /\ IsApproval(g, n)' /\ n \in DOMAIN receipts'
            /\ receipts'[n].grant = g /\ receipts'[n].previous = 0
        BY <1>2, <1>5 DEF IsApproval
      <3> QED
        BY <1>7, <2>2, <3>1, <3>2 DEF History
    <2> QED
      BY <2>1, <2>2
  <1>12. FirstClosingCounts'
    BY <1>9, <1>11, HistoryIsEnoughNext DEF Histories
  <1>13. LocalOK'
    BY <1>4, <1>5, <1>10, RequestsReturn
  <1>14. CodesOK' /\ TokensOK'
    BY <1>4, <1>10, ClaimsQuiet DEF provider
  <1>15. GrantsOK'
    BY <1>1, <1>4, <1>7 DEF IInv, GrantsOK, RequestOK, Local
  <1> QED
    BY <1>9, <1>12, <1>13, <1>14, <1>15 DEF IInv

\* A closing of a grant that some request has read.
LEMMA CloseKeeps ==
    ASSUME IInv, NEW w \in Workers, NEW row \in local[w].rows,
           NEW action \in {"expired", "revoked"}, CloseGrant(w, row, action)
    PROVE  /\ grants' \in [Grants -> Grant]
           /\ receipts' \in Seq(Receipt)
           /\ \A i, j \in DOMAIN receipts' : receipts'[i] = receipts'[j] => i = j
           /\ Histories'
           /\ Keeps /\ Grows
           /\ \A g \in Grants :
                 /\ grants'[g].status = "absent" <=> grants[g].status = "absent"
                 /\ grants'[g].made = grants[g].made
  <1>1. /\ RequestOK(w) /\ local[w] \in Local /\ now \in Nat
        /\ grants \in [Grants -> Grant] /\ TypeOK
    BY TypesHold DEF IInv, LocalOK, Types
  <1>2. /\ row.grant \in Grants /\ row.receipt \in Nat /\ local[w].at \in Nat
        /\ IsApproval(row.grant, row.receipt)
    BY <1>1 DEF Local, Row, RequestOK
  <1>2a. Closing(w, row, action) \in Receipt
    BY <1>2 DEF CloseGrant, Closing, Receipt
  <1>3. PICK g \in Grants, a \in Nat, t \in Nat, r \in Receipt :
           /\ g = row.grant /\ a = row.receipt /\ t = now
           /\ r = Closing(w, row, action)
    BY <1>1, <1>2, <1>2a
  <1>4. PICK n \in Nat : n = Len(receipts) + 1
    BY <1>1 DEF TypeOK
  <1>5. /\ r \in Receipt /\ IsNew(r)
        /\ r.grant = g /\ r.action # "approved" /\ r.previous = a
        /\ receipts' = Append(receipts, r)
    BY <1>2, <1>3 DEF CloseGrant, Closing, Receipt
  <1>6. /\ Grows
        /\ receipts' \in Seq(Receipt)
        /\ DOMAIN receipts = 1..Len(receipts) /\ Len(receipts) \in Nat
        /\ DOMAIN receipts' = DOMAIN receipts \union {n}
        /\ receipts'[n] = r
        /\ \A i \in DOMAIN receipts : receipts'[i] = receipts[i]
        /\ \A i, j \in DOMAIN receipts' : receipts'[i] = receipts'[j] => i = j
    BY <1>1, <1>4, <1>5, OneMore
  <1>7. /\ a \in DOMAIN receipts /\ receipts[a].grant = g
        /\ receipts[a].action = "approved"
    BY <1>2, <1>3 DEF IsApproval
  <1>8. /\ History(g)
        /\ grants[g].status \in {"absent", "active", "revoked"}
        /\ grants[g].status # "absent"
    BY <1>1, <1>7, HistoryIsEnough DEF IInv, Histories, History, Grant
  <1>9. grants' = ClosedOnce(g)
    BY <1>3 DEF CloseGrant
  <1>10. CASE grants[g].status = "active"
    <2>1. grants' = [grants EXCEPT ![g].status = "revoked", ![g].closed = t,
                                   ![g].receipt = n]
      BY <1>3, <1>4, <1>9, <1>10 DEF ClosedOnce, Closed
    <2>2. /\ \A h \in Grants \ {g} : grants'[h] = grants[h]
          /\ grants'[g] = [grants[g] EXCEPT !.status = "revoked",
                                            !.closed = t, !.receipt = n]
          /\ grants' = [h \in Grants |-> grants'[h]]
      BY <1>1, <2>1
    <2>2a. PICK old \in Grant : old = grants[g]
      BY <1>1
    <2>2b. grants'[g] = [old EXCEPT !.status = "revoked", !.closed = t,
                                    !.receipt = n]
      BY <2>2, <2>2a
    <2>2c. grants'[g] \in Grant
      BY <2>2b DEF Grant
    <2>3. /\ grants'[g] \in Grant
          /\ grants'[g].status = "revoked" /\ grants'[g].closed = t
          /\ grants'[g].receipt = n
          /\ grants'[g].made = grants[g].made
          /\ grants'[g].starts = grants[g].starts
          /\ grants'[g].expires = grants[g].expires
      BY <2>2a, <2>2b, <2>2c DEF Grant
    <2>4. grants' \in [Grants -> Grant]
      BY <1>1, <2>2, <2>3
    <2>5. Keeps
      <3>1. grants'[g].closed = now
        BY <1>3, <2>3
      <3>2. ASSUME NEW h \in Grants, h # g, grants[h].status # "absent"
            PROVE  grants'[h] = grants[h]
        BY <2>2, <3>2
      <3> QED
        BY <1>8, <2>3, <3>1, <3>2 DEF Keeps
    <2>6. ASSUME NEW h \in Grants PROVE History(h)'
      <3>1. CASE h # g
        BY <1>5, <2>2, <3>1, OtherHistories
      <3>2. CASE h = g
        <4>1. \A i \in DOMAIN receipts : receipts[i].grant = g => i = a
          BY <1>7, <1>8, <1>10 DEF History
        <4>2. /\ a \in DOMAIN receipts' /\ receipts'[a].grant = g
              /\ receipts'[a].action = "approved" /\ receipts'[a].previous = 0
              /\ a < n
          BY <1>4, <1>6, <1>7, <1>8 DEF History
        <4>3. /\ n \in DOMAIN receipts' /\ receipts'[n].grant = g
              /\ receipts'[n].action # "approved" /\ receipts'[n].previous = a
          BY <1>5, <1>6
        <4>4. \A i \in DOMAIN receipts' : receipts'[i].grant = g => i = a \/ i = n
          BY <1>6, <4>1
        <4>5. IsApproval(g, a)'
          BY <4>2 DEF IsApproval
        <4> QED
          BY <2>3, <3>2, <4>2, <4>3, <4>4, <4>5 DEF History
      <3> QED
        BY <3>1, <3>2
    <2>7. \A h \in Grants :
             /\ grants'[h].status = "absent" <=> grants[h].status = "absent"
             /\ grants'[h].made = grants[h].made
      BY <1>10, <2>2, <2>3
    <2> QED
      BY <1>6, <2>4, <2>5, <2>6, <2>7 DEF Histories
  <1>11. CASE grants[g].status = "revoked"
    <2>1. grants' = grants
      BY <1>9, <1>11 DEF ClosedOnce
    <2>2. Keeps
      BY <2>1 DEF Keeps
    <2>3. ASSUME NEW h \in Grants PROVE History(h)'
      <3>1. CASE h # g
        BY <1>5, <2>1, <3>1, OtherHistories
      <3>2. CASE h = g
        <4>1. /\ \A i \in DOMAIN receipts :
                    receipts[i].grant = g =>
                       i = a \/ /\ receipts[i].action # "approved"
                                /\ a < i /\ receipts[i].previous = a
              /\ receipts[a].previous = 0
              /\ grants[g].receipt \in DOMAIN receipts
              /\ receipts[grants[g].receipt].grant = g
              /\ receipts[grants[g].receipt].action # "approved"
              /\ \A i \in DOMAIN receipts :
                    receipts[i].grant = g /\ receipts[i].action # "approved" =>
                       grants[g].receipt <= i
          BY <1>7, <1>8, <1>11 DEF History
        <4>2. /\ n \in DOMAIN receipts' /\ receipts'[n].grant = g
              /\ receipts'[n].action # "approved" /\ receipts'[n].previous = a
              /\ \A i \in DOMAIN receipts : i < n
          BY <1>4, <1>5, <1>6
        <4>3. IsApproval(g, a)' /\ a \in DOMAIN receipts'
          BY <1>6, <1>7 DEF IsApproval
        <4>4. /\ grants'[g].receipt \in DOMAIN receipts'
              /\ receipts'[grants'[g].receipt].grant = g
              /\ receipts'[grants'[g].receipt].action # "approved"
              /\ \A i \in DOMAIN receipts' :
                    receipts'[i].grant = g /\ receipts'[i].action # "approved" =>
                       grants'[g].receipt <= i
          BY <1>6, <2>1, <4>1, <4>2
        <4>5. \A b, i \in DOMAIN receipts' :
                 /\ receipts'[b].grant = g /\ receipts'[b].action = "approved"
                 /\ receipts'[i].grant = g
                 => /\ receipts'[b].previous = 0
                    /\ i = b \/ /\ receipts'[i].action # "approved"
                                /\ b < i /\ receipts'[i].previous = b
          BY <1>6, <1>7, <4>1, <4>2
        <4> QED
          BY <1>11, <2>1, <3>2, <4>2, <4>3, <4>4, <4>5 DEF History
      <3> QED
        BY <3>1, <3>2
    <2> QED
      BY <1>1, <1>6, <2>1, <2>2, <2>3 DEF Histories
  <1> QED
    BY <1>8, <1>10, <1>11

LEMMA RevokeCloseStep ==
    ASSUME IInv, NEW w \in Workers, RevokeClose(w)
    PROVE  IInv'
  <1>1. PICK row \in local[w].rows : CloseGrant(w, row, "revoked")
    BY DEF RevokeClose
  <1>2. /\ Return(w) /\ UNCHANGED <<now, provider>>
        /\ TypeOK
    BY DEF RevokeClose, IInv
  <1>3. /\ grants' \in [Grants -> Grant]
        /\ receipts' \in Seq(Receipt)
        /\ \A i, j \in DOMAIN receipts' : receipts'[i] = receipts'[j] => i = j
        /\ Histories'
        /\ Keeps /\ Grows
        /\ \A g \in Grants :
              /\ grants'[g].status = "absent" <=> grants[g].status = "absent"
              /\ grants'[g].made = grants[g].made
    BY <1>1, <1>2, CloseKeeps
  <1>4. local' \in [Workers -> Local]
    BY <1>2, ReturnTypes
  <1>5. TypeOK'
    BY <1>2, <1>3, <1>4 DEF TypeOK, provider
  <1>6. Types'
    BY <1>2, <1>3, <1>4, TypesHold DEF Types
  <1>7. FirstClosingCounts'
    BY <1>3, <1>5, HistoryIsEnoughNext
  <1>8. LocalOK'
    BY <1>2, <1>3, <1>6, RequestsReturn
  <1>9. CodesOK' /\ TokensOK'
    BY <1>2, <1>3, <1>6, ClaimsQuiet DEF provider
  <1>10. GrantsOK'
    BY <1>2, <1>3 DEF IInv, GrantsOK
  <1> QED
    BY <1>5, <1>7, <1>8, <1>9, <1>10 DEF IInv

LEMMA ExpireRowStep ==
    ASSUME IInv, NEW w \in Workers, ExpireRow(w)
    PROVE  IInv'
  <1>1. PICK row \in ExpiredRows(w) :
           /\ At(w, "resolve")
           /\ CloseGrant(w, row, "expired")
           /\ local' = [local EXCEPT ![w].rows = @ \ {row}]
           /\ UNCHANGED <<now, provider>>
    BY DEF ExpireRow
  <1>2. /\ row \in local[w].rows /\ Expired(row.grant, local[w].at)
        /\ TypeOK /\ RequestOK(w)
    BY DEF ExpiredRows, IInv, LocalOK
  <1>3. /\ grants' \in [Grants -> Grant]
        /\ receipts' \in Seq(Receipt)
        /\ \A i, j \in DOMAIN receipts' : receipts'[i] = receipts'[j] => i = j
        /\ Histories'
        /\ Keeps /\ Grows
        /\ \A g \in Grants :
              /\ grants'[g].status = "absent" <=> grants[g].status = "absent"
              /\ grants'[g].made = grants[g].made
    BY <1>1, <1>2, CloseKeeps
  <1>4. PICK old \in Local : old = local[w]
    BY <1>2 DEF TypeOK
  <1>5. /\ local'[w] = [old EXCEPT !.rows = old.rows \ {row}]
        /\ \A v \in Workers \ {w} : local'[v] = local[v]
        /\ local' = [v \in Workers |-> local'[v]]
    BY <1>1, <1>2, <1>4 DEF TypeOK
  <1>6. local'[w] \in Local
    BY <1>5 DEF Local
  <1>7. /\ local'[w].rows \subseteq local[w].rows
        /\ local'[w].pc = local[w].pc /\ local'[w].began = local[w].began
        /\ local'[w].at = local[w].at /\ local'[w].purpose = local[w].purpose
        /\ local'[w].assistant = local[w].assistant
    BY <1>4, <1>5 DEF Local
  <1>8. local' \in [Workers -> Local]
    BY <1>2, <1>5, <1>6 DEF TypeOK
  <1>9. TypeOK'
    BY <1>1, <1>2, <1>3, <1>8 DEF TypeOK, provider
  <1>10. Types'
    BY <1>1, <1>2, <1>3, <1>8, TypesHold DEF Types
  <1>11. FirstClosingCounts'
    BY <1>3, <1>9, HistoryIsEnoughNext
  <1>12. \A r \in local'[w].rows :
            /\ IsApproval(r.grant, r.receipt)'
            /\ AssistantOf[r.grant] = local'[w].assistant
            /\ Held(r.grant, local[w].began)'
    <2>1. PICK t : t = local[w].began
      OBVIOUS
    <2>2. t \in 0..now /\ Types
      BY <1>1, <1>2, <1>4, <2>1, TypesHold DEF RequestOK, At, Local, Types
    <2>3. ASSUME NEW r \in local'[w].rows
          PROVE  Held(r.grant, t)'
      <3>1. Held(r.grant, t) /\ r.grant \in Grants
        BY <1>1, <1>2, <1>4, <1>7, <2>1 DEF RequestOK, Local, Row
      <3> QED
        BY <1>3, <1>10, <2>2, <3>1, HeldStays
    <2>4. ASSUME NEW r \in local'[w].rows
          PROVE  /\ IsApproval(r.grant, r.receipt)'
                 /\ AssistantOf[r.grant] = local'[w].assistant
      BY <1>1, <1>2, <1>3, <1>7 DEF RequestOK, IsApproval, Grows
    <2>5. t = local'[w].began
      BY <1>7, <2>1
    <2> QED
      BY <2>3, <2>4, <2>5 DEF Held
  <1>13. RequestOK(w)'
    BY <1>1, <1>2, <1>7, <1>12 DEF RequestOK, At
  <1>14. LocalOK'
    BY <1>1, <1>3, <1>5, <1>10, <1>13, OtherRequests DEF LocalOK
  <1>15. CodesOK' /\ TokensOK'
    BY <1>1, <1>3, <1>10, ClaimsQuiet DEF provider
  <1>16. GrantsOK'
    BY <1>1, <1>3 DEF IInv, GrantsOK
  <1> QED
    BY <1>9, <1>11, <1>14, <1>15, <1>16 DEF IInv

-----------------------------------------------------------------------------
(* The claims.                                                             *)

\* What a resolution answers was in force when it began.
LEMMA ResolvedIsBacked ==
    ASSUME IInv, NEW w \in Workers, At(w, "resolve"),
           local[w].purpose # "list", ExpiredRows(w) = {},
           NEW p \in Resolved(w) \ {Canon}
    PROVE  \E g \in Grants, t \in 0..now :
              /\ AssistantOf[g] = local[w].assistant /\ ProjectOf[g] = p
              /\ Held(g, t) /\ Started(g, t) /\ ~Expired(g, t)
              /\ now <= t + Latency
  <1>1. /\ RequestOK(w) /\ local[w] \in Local /\ now \in Nat
    BY TypesHold DEF IInv, LocalOK, Types
  <1>2. PICK row \in local[w].rows :
           p = ProjectOf[row.grant] /\ Started(row.grant, local[w].at)
    BY DEF Resolved
  <1>3. row.grant \in Grants /\ local[w].at \in 0..now
    BY <1>1, <1>2 DEF Local, Row, RequestOK, At
  <1>4. ~Expired(row.grant, local[w].at)
    BY <1>2 DEF ExpiredRows
  <1>5. /\ Held(row.grant, local[w].at)
        /\ AssistantOf[row.grant] = local[w].assistant
        /\ now <= local[w].at + Latency
    BY <1>1, <1>2 DEF RequestOK, At
  <1> QED
    BY <1>2, <1>3, <1>4, <1>5

LEMMA ResolveReplyStep ==
    ASSUME IInv, NEW w \in Workers, ResolveReply(w)
    PROVE  IInv'
  <1>1. /\ At(w, "resolve") /\ ExpiredRows(w) = {} /\ Return(w)
        /\ UNCHANGED <<now, grants, receipts>>
        /\ RequestOK(w) /\ local[w] \in Local /\ TypeOK
        /\ now \in Nat /\ TokenTTL \in Nat /\ Latency \in Nat /\ CodeTTL \in Nat
    BY TypesHold, ConstantsAssumption
       DEF ResolveReply, IInv, LocalOK, Types
  <1>2. PICK s \in Assistants : s = local[w].assistant
    BY <1>1 DEF RequestOK
  <1>3. local' \in [Workers -> Local]
    BY <1>1, ReturnTypes
  <1>4. Types' /\ Keeps /\ Grows /\ now <= now'
    BY <1>1, <1>3, Untouched, TypesHold DEF Types
  <1>5. Resolved(w) \subseteq Projects
    BY <1>1, ConstantsAssumption DEF Resolved, Local, Row
  <1>6. PICK code \in Code : code = [projects |-> Resolved(w), at |-> now]
    BY <1>1, <1>5 DEF Code
  <1>7. /\ codes' \in [Assistants -> SUBSET Code]
        /\ \A q \in Assistants : \A c \in codes'[q] :
              \/ c \in codes[q]
              \/ q = s /\ local[w].purpose = "authorize" /\ c = code
    <2>1. codes' = IF local[w].purpose = "authorize"
                   THEN [codes EXCEPT ![s] = codes[s] \union {code}]
                   ELSE codes
      BY <1>1, <1>2, <1>6 DEF ResolveReply, TypeOK
    <2> QED
      BY <1>1, <1>6, <2>1 DEF TypeOK
  <1>8. PICK token \in Token : token = NewToken(Resolved(w))
    <2>1. PICK until \in Nat : until = now + TokenTTL
      BY <1>1
    <2>2. NewToken(Resolved(w)) = [projects |-> Resolved(w), until |-> until]
      BY <2>1 DEF NewToken
    <2> QED
      BY <1>5, <2>2 DEF Token
  <1>9. /\ tokens' \in [Assistants -> SUBSET Token]
        /\ \A q \in Assistants : \A k \in tokens'[q] :
              \/ k \in tokens[q]
              \/ q = s /\ local[w].purpose = "refresh" /\ k = token
    <2>1. tokens' = IF local[w].purpose = "refresh"
                    THEN [tokens EXCEPT ![s] = tokens[s] \union {token}]
                    ELSE tokens
      BY <1>1, <1>2, <1>8 DEF ResolveReply, ReplacesProjects, TypeOK
    <2> QED
      BY <1>1, <1>8, <2>1 DEF TypeOK
  <1>10. claims' \in [Assistants -> SUBSET Projects]
    <2>1. \/ claims' = claims
          \/ claims' = [claims EXCEPT ![s] = Resolved(w)]
      BY <1>2 DEF ResolveReply, ReplacesProjects
    <2> QED
      BY <1>1, <1>5, <2>1 DEF TypeOK
  <1>11. TypeOK'
    BY <1>1, <1>3, <1>7, <1>9, <1>10 DEF TypeOK
  <1>12. LocalOK'
    BY <1>1, <1>4, RequestsReturn
  <1>13. local[w].purpose # "list" =>
            \A p \in Resolved(w) \ {Canon} :
               \E g \in Grants, t \in 0..now :
                  /\ AssistantOf[g] = s /\ ProjectOf[g] = p
                  /\ Held(g, t)' /\ Started(g, t)' /\ ~Expired(g, t)'
                  /\ now <= t + Latency
    <2>1. ASSUME NEW g \in Grants, NEW t \in 0..now
          PROVE  /\ Held(g, t)' <=> Held(g, t)
                 /\ Started(g, t)' <=> Started(g, t)
                 /\ Expired(g, t)' <=> Expired(g, t)
      BY <1>1 DEF Held, Started, Expired
    <2> QED
      BY <1>1, <1>2, <2>1, ResolvedIsBacked
  <1>14. CodesOK'
    <2> SUFFICES ASSUME NEW q \in Assistants, NEW c \in codes'[q]
                 PROVE  /\ c.at <= now /\ now <= c.at + CodeTTL
                        /\ \A p \in c.projects \ {Canon} :
                              Backed(q, p, c.at, Latency)'
      BY <1>1 DEF CodesOK
    <2>1. CASE c \in codes[q]
      BY <1>4, <2>1, ClaimsStay DEF IInv, CodesOK
    <2>2. CASE q = s /\ local[w].purpose = "authorize" /\ c = code
      <3>1. c.at = now /\ c.projects = Resolved(w)
        BY <1>6, <2>2
      <3> QED
        BY <1>1, <1>13, <2>2, <3>1 DEF Backed
    <2> QED
      BY <1>7, <2>1, <2>2
  <1>15. TokensOK'
    <2> SUFFICES ASSUME NEW q \in Assistants, NEW k \in tokens'[q],
                        NEW p \in k.projects \ {Canon}
                 PROVE  Backed(q, p, k.until, Window)'
      BY DEF TokensOK
    <2>1. CASE k \in tokens[q]
      BY <1>4, <2>1, ClaimsStay
    <2>2. CASE q = s /\ local[w].purpose = "refresh" /\ k = token
      <3>1. k.until = now + TokenTTL /\ k.projects = Resolved(w)
        BY <1>8, <2>2 DEF NewToken
      <3>2. PICK g \in Grants, t \in 0..now :
                  /\ AssistantOf[g] = q /\ ProjectOf[g] = p
                  /\ Held(g, t)' /\ Started(g, t)' /\ ~Expired(g, t)'
                  /\ now <= t + Latency
        BY <1>13, <2>2, <3>1
      <3>3. k.until <= t + Window
        BY <1>1, <3>1, <3>2 DEF Window
      <3> QED
        BY <1>1, <3>2, <3>3 DEF Backed, Window
    <2> QED
      BY <1>9, <2>1, <2>2
  <1>16. FirstClosingCounts' /\ GrantsOK'
    BY <1>1 DEF IInv, FirstClosingCounts, GrantsOK
  <1> QED
    BY <1>11, <1>12, <1>14, <1>15, <1>16 DEF IInv

LEMMA ExchangeCodeStep ==
    ASSUME IInv, NEW s \in Assistants, ExchangeCode(s)
    PROVE  IInv'
  <1>1. PICK code \in codes[s] :
           /\ tokens' = [tokens EXCEPT ![s] = @ \union {NewToken(code.projects)}]
           /\ codes' = [codes EXCEPT ![s] = @ \ {code}]
           /\ claims' = [claims EXCEPT ![s] = code.projects]
           /\ UNCHANGED <<now, grants, receipts, local>>
    BY DEF ExchangeCode
  <1>2. /\ TypeOK /\ code \in Code
        /\ now \in Nat /\ TokenTTL \in Nat /\ Latency \in Nat /\ CodeTTL \in Nat
    BY TypesHold, ConstantsAssumption DEF IInv, Types, TypeOK
  <1>3. code.projects \subseteq Projects /\ code.at \in Nat
    BY <1>2 DEF Code
  <1>4. PICK token \in Token : token = NewToken(code.projects)
    <2>1. PICK until \in Nat : until = now + TokenTTL
      BY <1>2
    <2>2. NewToken(code.projects) = [projects |-> code.projects, until |-> until]
      BY <2>1 DEF NewToken
    <2> QED
      BY <1>3, <2>2 DEF Token
  <1>5. /\ codes' \in [Assistants -> SUBSET Code]
        /\ \A q \in Assistants : codes'[q] \subseteq codes[q]
    BY <1>1, <1>2 DEF TypeOK
  <1>6. /\ tokens' \in [Assistants -> SUBSET Token]
        /\ \A q \in Assistants : \A k \in tokens'[q] :
              k \in tokens[q] \/ (q = s /\ k = token)
    <2>1. tokens' = [tokens EXCEPT ![s] = tokens[s] \union {token}]
      BY <1>1, <1>2, <1>4 DEF TypeOK
    <2> QED
      BY <1>2, <2>1 DEF TypeOK
  <1>7. claims' \in [Assistants -> SUBSET Projects]
    BY <1>1, <1>2, <1>3 DEF TypeOK
  <1>8. TypeOK'
    BY <1>1, <1>2, <1>5, <1>6, <1>7 DEF TypeOK
  <1>9. Types' /\ Keeps /\ Grows /\ now <= now'
    BY <1>1, <1>2, Untouched, TypesHold DEF Types
  <1>10. LocalOK'
    BY <1>1, <1>9, OtherRequests DEF LocalOK
  <1>11. CodesOK'
    BY <1>1, <1>5, <1>9, ClaimsStay DEF IInv, CodesOK
  <1>12. TokensOK'
    <2> SUFFICES ASSUME NEW q \in Assistants, NEW k \in tokens'[q],
                        NEW p \in k.projects \ {Canon}
                 PROVE  Backed(q, p, k.until, Window)'
      BY DEF TokensOK
    <2>1. CASE k \in tokens[q]
      BY <1>9, <2>1, ClaimsStay
    <2>2. CASE q = s /\ k = token
      <3>1. k.until = now + TokenTTL /\ k.projects = code.projects
        BY <1>4, <2>2 DEF NewToken
      <3>2. Backed(s, p, code.at, Latency)'
        BY <1>9, <3>1, ClaimsStay
      <3>3. PICK g \in Grants, t \in 0..now' :
                  /\ AssistantOf[g] = s /\ ProjectOf[g] = p
                  /\ Held(g, t)' /\ Started(g, t)' /\ ~Expired(g, t)'
                  /\ code.at <= t + Latency
        BY <3>2 DEF Backed
      <3>4. now <= code.at + CodeTTL
        BY DEF IInv, CodesOK
      <3>5. k.until <= t + Window
        BY <1>1, <1>2, <1>3, <3>1, <3>3, <3>4 DEF Window
      <3> QED
        BY <1>1, <2>2, <3>3, <3>5 DEF Backed, Window
    <2> QED
      BY <1>6, <2>1, <2>2
  <1>13. FirstClosingCounts' /\ GrantsOK'
    BY <1>1 DEF IInv, FirstClosingCounts, GrantsOK
  <1> QED
    BY <1>8, <1>10, <1>11, <1>12, <1>13 DEF IInv

LEMMA ReturnStep ==
    ASSUME IInv, NEW w \in Workers, Return(w),
           UNCHANGED <<now, grants, receipts, provider>>
    PROVE  IInv'
  <1>1. local' \in [Workers -> Local]
    BY ReturnTypes DEF IInv
  <1>2. TypeOK'
    BY <1>1 DEF IInv, TypeOK, provider
  <1>3. Types' /\ Keeps /\ Grows
    BY <1>1, Untouched, TypesHold DEF Types, IInv
  <1>4. LocalOK'
    BY <1>3, RequestsReturn
  <1>5. CodesOK' /\ TokensOK'
    BY <1>3, ClaimsQuiet DEF provider
  <1>6. FirstClosingCounts' /\ GrantsOK'
    BY DEF IInv, FirstClosingCounts, GrantsOK
  <1> QED
    BY <1>2, <1>4, <1>5, <1>6 DEF IInv

\* Time passes while no request takes longer than Latency, and takes the codes
\* and tokens that are too old with it.
LEMMA TickStep ==
    ASSUME IInv, Tick
    PROVE  IInv'
  <1>1. /\ now \in Nat /\ now' = now + 1 /\ MaxTime \in Nat
        /\ Latency \in Nat /\ CodeTTL \in Nat
        /\ UNCHANGED <<grants, receipts, claims, local>>
        /\ TypeOK
    BY TypesHold, ConstantsAssumption DEF Tick, IInv, Types
  <1>2. /\ codes' \in [Assistants -> SUBSET Code]
        /\ \A q \in Assistants : \A c \in codes'[q] :
              c \in codes[q] /\ now < c.at + CodeTTL
        /\ tokens' \in [Assistants -> SUBSET Token]
        /\ \A q \in Assistants : tokens'[q] \subseteq tokens[q]
    BY <1>1 DEF Tick, TypeOK
  <1>3. now' \in 0..MaxTime
    BY <1>1 DEF Tick, TypeOK
  <1>4. TypeOK'
    BY <1>1, <1>2, <1>3 DEF TypeOK
  <1>5. Types' /\ Keeps /\ now <= now'
    BY <1>1, Untouched, TypesHold DEF Types
  <1>6. ASSUME NEW w \in Workers PROVE RequestOK(w)'
    <2>1. RequestOK(w) /\ local[w] \in Local
      BY <1>1 DEF IInv, LocalOK, TypeOK
    <2>2. ~At(w, "idle") => now < local[w].began + Latency
      BY DEF Tick
    <2>3. local[w].began \in Nat
      BY <2>1 DEF Local
    <2> QED
      BY <1>1, <2>1, <2>2, <2>3 DEF RequestOK, At, IsApproval, Held
  <1>7. CodesOK'
    <2> SUFFICES ASSUME NEW q \in Assistants, NEW c \in codes'[q]
                 PROVE  /\ c.at <= now' /\ now' <= c.at + CodeTTL
                        /\ \A p \in c.projects \ {Canon} :
                              Backed(q, p, c.at, Latency)'
      BY DEF CodesOK
    <2>1. /\ c \in codes[q] /\ now < c.at + CodeTTL
          /\ c.at \in Nat /\ c.at <= now
      BY <1>1, <1>2 DEF TypeOK, Code, IInv, CodesOK
    <2>2. \A p \in c.projects \ {Canon} : Backed(q, p, c.at, Latency)'
      BY <1>5, <2>1, ClaimsStay
    <2> QED
      BY <1>1, <2>1, <2>2
  <1>8. TokensOK'
    BY <1>2, <1>5, ClaimsStay DEF TokensOK
  <1>9. FirstClosingCounts' /\ GrantsOK'
    <2>1. \A g \in Grants : grants[g].made \in Nat
      BY <1>1 DEF TypeOK, Grant
    <2> QED
      BY <1>1, <2>1 DEF IInv, FirstClosingCounts, GrantsOK
  <1> QED
    BY <1>4, <1>6, <1>7, <1>8, <1>9 DEF IInv, LocalOK

-----------------------------------------------------------------------------

LEMMA IInvStep == IInv /\ [Next]_vars => IInv'
  <1>1. ASSUME IInv, UNCHANGED vars PROVE IInv'
    <2>1. /\ now' = now /\ grants' = grants /\ receipts' = receipts
          /\ codes' = codes /\ tokens' = tokens /\ claims' = claims
          /\ local' = local
      BY <1>1 DEF vars, provider
    <2>1a. TypeOK'
      BY <1>1, <2>1 DEF IInv, TypeOK
    <2>1b. FirstClosingCounts' /\ GrantsOK'
      BY <1>1, <2>1 DEF IInv, FirstClosingCounts, GrantsOK
    <2>2. Types' /\ Keeps /\ Grows
      BY <1>1, Untouched, TypesHold DEF vars, IInv, Types
    <2>3. LocalOK' /\ CodesOK' /\ TokensOK'
      BY <1>1, <2>1, <2>2, OtherRequests, ClaimsQuiet DEF LocalOK
    <2> QED
      BY <2>1a, <2>1b, <2>3 DEF IInv
  <1>2. ASSUME IInv, NEW w \in Workers, Administer(w) PROVE IInv'
    <2>1. CASE ApproveAborts(w) \/ RevokeAborts(w)
      BY <1>2, <2>1, ReturnStep DEF ApproveAborts, RevokeAborts
    <2> QED
      BY <1>2, <2>1, ApproveReadStep, RevokeReadStep, ApproveWriteStep,
         RevokeCloseStep DEF Administer
  <1>3. ASSUME IInv, NEW w \in Workers, Resolve(w) PROVE IInv'
    <2>1. now \in Nat
      BY <1>3, TypesHold DEF IInv, Types
    <2>2. CASE \E s \in Assistants :
                  \/ Authorize(w, s)
                  \/ Refresh(w, s)
                  \/ \E at \in SaidTimes : ListActive(w, s, at)
      BY <1>3, <2>1, <2>2, ConstantsAssumption, ResolveReadStep
         DEF Authorize, Refresh, ListActive, Purposes
    <2>3. CASE ExpireAborts(w)
      BY <1>3, <2>3, ReturnStep DEF ExpireAborts
    <2> QED
      BY <1>3, <2>2, <2>3, ExpireRowStep, ResolveReplyStep DEF Resolve
  <1>4. ASSUME IInv, NEW w \in Workers, Crash(w) PROVE IInv'
    BY <1>4, ReturnStep DEF Crash
  <1> QED
    BY <1>1, <1>2, <1>3, <1>4, ExchangeCodeStep, TickStep DEF Next

\* Every row, receipt, code, token and local keeps its domain, and no two
\* receipts are the same.
THEOREM AccessTypeCorrect == Spec => []TypeOK
  BY InitEstablishes, IInvStep, PTL DEF Spec, IInv

\* Whatever approvals, revocations and expiries race, the receipts of a grant
\* are its approval and the closings that follow it, and the row carries the
\* first closing there is.
THEOREM ReceiptsTellHistory == Spec => []FirstClosingCounts
  BY InitEstablishes, IInvStep, PTL DEF Spec, IInv

LEMMA BackedIsInForce == IInv => AccessEndsInTime
  <1> SUFFICES ASSUME IInv, NEW s \in Assistants, NEW k \in tokens[s],
                      now < k.until, NEW p \in k.projects \ {Canon}
               PROVE  \E g \in Grants, t \in 0..now :
                         /\ AssistantOf[g] = s /\ ProjectOf[g] = p
                         /\ now <= t + Window
                         /\ InForce(g, t)
    BY DEF AccessEndsInTime
  <1>1. PICK g \in Grants, t \in 0..now :
           /\ AssistantOf[g] = s /\ ProjectOf[g] = p
           /\ Held(g, t) /\ Started(g, t) /\ ~Expired(g, t)
           /\ k.until <= t + Window
    BY DEF IInv, TokensOK, Backed
  <1>2. /\ now \in Nat /\ k.until \in Nat /\ Window \in Nat /\ t \in Nat
    BY TypesHold, ConstantsAssumption DEF IInv, Types, TypeOK, Token, Window
  <1>3. now <= t + Window
    BY <1>1, <1>2
  <1>4. InForce(g, t)
    BY <1>1 DEF InForce, Held
  <1> QED
    BY <1>1, <1>3, <1>4

\* An accepted token opens no project but the canon for which no grant of the
\* assistant was in force at some moment at most Window ago, for any lifetimes
\* of tokens, codes and requests.
THEOREM AccessEnds == Spec => []AccessEndsInTime
  <1>1. Spec => []IInv
    BY InitEstablishes, IInvStep, PTL DEF Spec
  <1> QED
    BY <1>1, BackedIsInForce, PTL

=============================================================================
