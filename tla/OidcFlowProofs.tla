--------------------------- MODULE OidcFlowProofs ---------------------------
(***************************************************************************)
(* One sign-in at the provider yields one session, and it ends where it    *)
(* began, for any number of browsers, logins, callbacks, exchanges and     *)
(* terminals.  What a sign-in is worth is in one place at a time: the code *)
(* still at the provider, one callback, the login code, one exchange, or   *)
(* the session.                                                            *)
(***************************************************************************)
EXTENDS Loopback, SequenceTheorems, TLAPS

Minting == [to : Browser \cup {NoBrowser}, verifier : Flow \cup {NoFlow}]

Login == [kind : FlowKind \cup {"none"}, home : Browser \cup {NoBrowser},
          caller : Cli \cup {NoCli}, grant : {"none", "open", "spent"}]
Visiting == [pc : {"start", "exchange", "persist", "issue"}, browser : Browser \cup {NoBrowser},
             pending : Flow \cup {NoFlow}, authz : Flow \cup {NoFlow}]
Swapping == [pc : {"start", "consume", "issue"}, code : Flow \cup {NoFlow}, verifier : Flow \cup {NoFlow}]

FType ==
    /\ flow \in [Flow -> Login]
    /\ cookie \in [Browser -> Flow \cup {NoFlow}]
    /\ visit \in [Visit -> Visiting]
    /\ codes \in [Flow -> [state : {"none", "live", "consumed", "gone"}, expires : Nat]]
    /\ swap \in [Swap -> Swapping]
    /\ minted \in [Flow -> Seq(Minting)]
    /\ hour \in Nat
    /\ traffic \in FlowLoad

\* A callback, or an exchange, that has the sign-in in hand.
Carries(v, f) == visit[v].pc \in {"persist", "issue"} /\ visit[v].pending = f
Redeems(w, f) == swap[w].pc = "issue" /\ swap[w].code = f

\* Where each sign-in is.
InOnePlace(f) ==
    /\ flow[f].grant # "none" => flow[f].kind # "none"
    /\ flow[f].grant # "spent" =>
          /\ \A v \in Visit : ~Carries(v, f)
          /\ codes[f].state = "none" /\ minted[f] = << >>
          /\ \A w \in Swap : ~Redeems(w, f)
    /\ \A v \in Visit : Carries(v, f) =>
          /\ \A u \in Visit : Carries(u, f) => u = v
          /\ codes[f].state = "none" /\ minted[f] = << >>
          /\ \A w \in Swap : ~Redeems(w, f)
    /\ codes[f].state \in {"none", "live"} => \A w \in Swap : ~Redeems(w, f)
    /\ codes[f].state = "live" => minted[f] = << >>
    /\ \A w \in Swap : Redeems(w, f) =>
          minted[f] = << >> /\ \A u \in Swap : Redeems(u, f) => u = w
    /\ Len(minted[f]) <= 1

OnePlace == \A f \in Flow : InOnePlace(f)

\* A callback brings a code that the provider granted.
Asked == \A v \in Visit : visit[v].pc = "exchange" =>
            visit[v].authz \in Flow /\ flow[visit[v].authz].grant # "none"

FInv == FType /\ OnePlace /\ Asked

LEMMA PlaceInit == LoopbackInit => FInv
  BY DEF LoopbackInit, FlowInit, FInv, FType, Login, Visiting, Swapping, OnePlace, InOnePlace, Asked,
         Carries, Redeems, NoLogin, NoVisit, NoCode, NoSwap, FlowKind

\* A first session.
LEMMA FirstMinted ==
    ASSUME FType, NEW f \in Flow, NEW to \in Browser \cup {NoBrowser}, NEW verifier \in Flow \cup {NoFlow},
           Issued(f, to, verifier), minted[f] = << >>
    PROVE  /\ minted' \in [Flow -> Seq(Minting)]
           /\ \A g \in Flow : g # f => minted'[g] = minted[g]
           /\ Len(minted'[f]) = 1
<1> DEFINE one == [to |-> to, verifier |-> verifier]
<1>1. one \in Minting
  BY DEF Minting
<1>2. minted' = [minted EXCEPT ![f] = Append(minted[f], one)]
  BY DEF Issued
<1> HIDE DEF one
<1>3. minted[f] \in Seq(Minting)
  BY DEF FType
<1>4. Append(minted[f], one) \in Seq(Minting) /\ Len(Append(minted[f], one)) = Len(minted[f]) + 1
  BY <1>1, <1>3, AppendProperties
<1>5. Len(minted[f]) = 0
  BY EmptySeq
<1> QED
  BY <1>2, <1>4, <1>5 DEF FType

\* A visit that moves on.
LEMMA MovedOn ==
    ASSUME FType, NEW v \in Visit, NEW pc \in {"start", "exchange", "persist", "issue"},
           visit' = [visit EXCEPT ![v].pc = pc]
    PROVE  /\ visit' \in [Visit -> Visiting]
           /\ \A u \in Visit : /\ visit'[u].pc = IF u = v THEN pc ELSE visit[u].pc
                               /\ visit'[u].pending = visit[u].pending
                               /\ visit'[u].authz = visit[u].authz
<1> DEFINE held == [visit[v] EXCEPT !.pc = pc]
<1>1. held \in Visiting /\ held.pc = pc /\ held.pending = visit[v].pending /\ held.authz = visit[v].authz
  BY DEF FType, Visiting
<1>2. visit' = [visit EXCEPT ![v] = held]
  OBVIOUS
<1> HIDE DEF held
<1> QED
  BY <1>1, <1>2 DEF FType

\* The provider's answer about one authorization code.
LEMMA Answered ==
    ASSUME FType, NEW f \in Flow, NEW grant \in {"none", "open", "spent"},
           flow' = [flow EXCEPT ![f].grant = grant]
    PROVE  /\ flow' \in [Flow -> Login]
           /\ \A e \in Flow : /\ flow'[e].kind = flow[e].kind
                              /\ flow'[e].grant = IF e = f THEN grant ELSE flow[e].grant
<1> DEFINE login == [flow[f] EXCEPT !.grant = grant]
<1>1. login \in Login /\ login.kind = flow[f].kind /\ login.grant = grant
  BY DEF FType, Login
<1>2. flow' = [flow EXCEPT ![f] = login]
  OBVIOUS
<1> HIDE DEF login
<1> QED
  BY <1>1, <1>2 DEF FType

-----------------------------------------------------------------------------
(* The login and the callback. *)

LEMMA BeginKeeps ==
    ASSUME FInv, NEW b \in Browser, NEW kind \in FlowKind, NEW caller \in Cli \cup {NoCli},
           BeginLogin(b, kind, caller)
    PROVE  FInv'
<1>1. PICK f \in Flow :
        /\ flow[f].kind = "none"
        /\ flow' = [flow EXCEPT ![f] = [kind |-> kind, home |-> b, caller |-> caller, grant |-> "none"]]
        /\ cookie' = [cookie EXCEPT ![b] = f]
        /\ UNCHANGED <<visit, codes, swap, minted, hour, traffic>>
  BY FlowAssumption DEF BeginLogin, FInv, FType
<1>2. FType'
  BY <1>1 DEF FInv, FType, Login, Visiting
<1>3. flow[f].grant = "none"
  BY <1>1 DEF FInv, FType, Login, Visiting, Swapping, OnePlace, InOnePlace
<1>4. \A g \in Flow : flow'[g].grant = flow[g].grant /\ (flow'[g].grant # "none" => flow'[g].kind # "none")
  BY <1>1, <1>3 DEF FInv, FType, Login, Visiting, Swapping, OnePlace, InOnePlace
<1>5. OnePlace' /\ Asked'
  BY <1>1, <1>4 DEF FInv, OnePlace, InOnePlace, Asked, Carries, Redeems
<1> QED
  BY <1>2, <1>5 DEF FInv

LEMMA GrantKeeps == ASSUME FInv, NEW f \in Flow, Grant(f) PROVE FInv'
<1>1. /\ flow' = [flow EXCEPT ![f].grant = "open"]
      /\ UNCHANGED <<cookie, visit, codes, swap, minted, hour, traffic>>
      /\ flow[f].kind # "none" /\ flow[f].grant = "none"
  BY DEF Grant
<1>2. /\ flow' \in [Flow -> Login]
      /\ \A e \in Flow : /\ flow'[e].kind = flow[e].kind
                         /\ flow'[e].grant = IF e = f THEN "open" ELSE flow[e].grant
  BY <1>1, Answered DEF FInv
<1>3. FType'
  BY <1>1, <1>2 DEF FInv, FType
<1>4. OnePlace' /\ Asked'
  BY <1>1, <1>2 DEF FInv, OnePlace, InOnePlace, Asked, Carries, Redeems
<1> QED
  BY <1>3, <1>4 DEF FInv

\* A visit that ends, and any that gets no further than the provider, carries nothing.
LEMMA FewerCarry ==
    ASSUME FInv, NEW v \in Visit,
           NEW q \in [pc : {"start", "exchange"}, browser : Browser \cup {NoBrowser},
                      pending : Flow \cup {NoFlow}, authz : Flow \cup {NoFlow}],
           visit' = [visit EXCEPT ![v] = q]
    PROVE  /\ visit' \in [Visit -> Visiting]
           /\ \A u \in Visit, f \in Flow : Carries(u, f)' <=> u # v /\ Carries(u, f)
  BY DEF FInv, FType, Login, Visiting, Carries

LEMMA AnswerCarries ==
    ASSUME FInv, NEW v \in Visit, Answer(v)
    PROVE  /\ visit' \in [Visit -> Visiting]
           /\ cookie' \in [Browser -> Flow \cup {NoFlow}]
           /\ \A u \in Visit, f \in Flow : Carries(u, f)' <=> u # v /\ Carries(u, f)
<1>1. NoVisit \in [pc : {"start", "exchange"}, browser : Browser \cup {NoBrowser},
                   pending : Flow \cup {NoFlow}, authz : Flow \cup {NoFlow}]
  BY DEF NoVisit
<1>2. cookie' \in [Browser -> Flow \cup {NoFlow}]
  BY DEF Answer, FInv, FType
<1> QED
  BY <1>1, <1>2, FewerCarry DEF Answer

LEMMA CallbackKeeps == ASSUME FInv, NEW v \in Visit, Callback(v) PROVE FInv'
<1>1. PICK b \in Browser, state \in Flow, authz \in {f \in Flow : flow[f].grant # "none"} :
        IF Pending(b, state) = state
        THEN visit' = [visit EXCEPT ![v] = [pc |-> "exchange", browser |-> b, authz |-> authz,
                                            pending |-> state]] /\ UNCHANGED cookie
        ELSE cookie' = [cookie EXCEPT ![b] = NoFlow] /\ UNCHANGED visit
  BY DEF Callback
<1>2. UNCHANGED <<flow, codes, swap, minted, hour, traffic>>
  BY DEF Callback
<1>3. /\ visit' \in [Visit -> Visiting]
      /\ \A u \in Visit, f \in Flow : Carries(u, f)' => Carries(u, f)
  <2>1. CASE UNCHANGED visit
    BY <2>1 DEF FInv, FType, Login, Visiting, Carries
  <2>2. CASE visit' = [visit EXCEPT ![v] = [pc |-> "exchange", browser |-> b, authz |-> authz, pending |-> state]]
    BY <2>2, FewerCarry
  <2> QED
    BY <1>1, <2>1, <2>2
<1>4. FType'
  BY <1>1, <1>2, <1>3 DEF FInv, FType, Login, Visiting
<1>5. OnePlace'
  BY <1>2, <1>3 DEF FInv, OnePlace, InOnePlace, Redeems
<1>6. Asked'
  <2>1. CASE UNCHANGED visit
    BY <1>2, <2>1 DEF FInv, Asked
  <2>2. CASE visit' = [visit EXCEPT ![v] = [pc |-> "exchange", browser |-> b, authz |-> authz, pending |-> state]]
    <3>1. \A u \in Visit : /\ u # v => visit'[u] = visit[u]
                           /\ u = v => visit'[u].authz = authz
      BY <2>2 DEF FInv, FType
    <3>2. authz \in Flow /\ flow[authz].grant # "none" /\ flow' = flow
      BY <1>2
    <3> QED
      BY <3>1, <3>2 DEF FInv, Asked
  <2> QED
    BY <1>1, <2>1, <2>2
<1> QED
  BY <1>4, <1>5, <1>6 DEF FInv

LEMMA CompleteKeeps == ASSUME FInv, NEW v \in Visit, CompleteFlow(v) PROVE FInv'
<1>1. UNCHANGED <<codes, swap, minted, hour, traffic>> /\ visit[v].pc = "exchange"
  BY DEF CompleteFlow
<1>2. PICK f \in Flow : f = visit[v].authz /\ flow[f].grant # "none"
  BY <1>1 DEF FInv, Asked
<1>3. CASE /\ flow[f].grant = "open" /\ visit[v].pending = f
           /\ flow' = [flow EXCEPT ![f].grant = "spent"]
           /\ visit' = [visit EXCEPT ![v].pc = "persist"]
           /\ UNCHANGED cookie
  <2>1. /\ flow' \in [Flow -> Login]
        /\ \A e \in Flow : /\ flow'[e].kind = flow[e].kind
                           /\ flow'[e].grant = IF e = f THEN "spent" ELSE flow[e].grant
    BY <1>3, Answered DEF FInv
  <2>2. /\ visit' \in [Visit -> Visiting]
        /\ \A u \in Visit : /\ visit'[u].pc = IF u = v THEN "persist" ELSE visit[u].pc
                            /\ visit'[u].pending = visit[u].pending
                            /\ visit'[u].authz = visit[u].authz
    BY <1>3, MovedOn DEF FInv
  <2>3. FType'
    BY <1>1, <1>3, <2>1, <2>2 DEF FInv, FType
  <2>4. \A u \in Visit, e \in Flow : Carries(u, e)' <=> Carries(u, e) \/ (u = v /\ e = f)
    BY <1>1, <1>3, <2>2 DEF Carries
  <2>5. OnePlace'
    BY <1>1, <1>3, <2>1, <2>4 DEF FInv, OnePlace, InOnePlace, Redeems
  <2>6. Asked'
    BY <2>1, <2>2 DEF FInv, Asked
  <2> QED
    BY <2>3, <2>5, <2>6 DEF FInv
<1>4. CASE flow' \in {flow, [flow EXCEPT ![f].grant = "spent"]} /\ Answer(v)
  <2>1. /\ flow' \in [Flow -> Login]
        /\ \A e \in Flow : /\ flow'[e].kind = flow[e].kind
                           /\ flow'[e].grant = flow[e].grant \/ (e = f /\ flow'[e].grant = "spent")
    BY <1>4, Answered DEF FInv, FType
  <2>2. FType'
    BY <1>1, <1>4, <2>1, AnswerCarries DEF FInv, FType
  <2>3. OnePlace'
    BY <1>1, <1>2, <1>4, <2>1, AnswerCarries DEF FInv, OnePlace, InOnePlace, Redeems
  <2>4. \A u \in Visit : visit'[u].pc = "exchange" => visit[u] = visit'[u]
    BY <1>4 DEF Answer, NoVisit, FInv, FType
  <2>5. Asked'
    BY <2>1, <2>4 DEF FInv, Asked
  <2> QED
    BY <2>2, <2>3, <2>5 DEF FInv
<1> QED
  BY <1>2, <1>3, <1>4 DEF CompleteFlow

LEMMA PersistKeeps == ASSUME FInv, NEW v \in Visit, Persist(v) PROVE FInv'
<1>1. UNCHANGED <<flow, codes, swap, minted, hour, traffic>> /\ visit[v].pc = "persist"
  BY DEF Persist
<1>2. /\ visit' \in [Visit -> Visiting] /\ cookie' \in [Browser -> Flow \cup {NoFlow}]
      /\ \A u \in Visit, f \in Flow : Carries(u, f)' => Carries(u, f)
      /\ \A u \in Visit : visit'[u].pc = "exchange" => visit'[u].pc = visit[u].pc /\ visit'[u].authz = visit[u].authz
  <2>1. CASE visit' = [visit EXCEPT ![v].pc = "issue"] /\ UNCHANGED cookie
    <3>1. /\ visit' \in [Visit -> Visiting]
          /\ \A u \in Visit : /\ visit'[u].pc = IF u = v THEN "issue" ELSE visit[u].pc
                              /\ visit'[u].pending = visit[u].pending
                              /\ visit'[u].authz = visit[u].authz
      BY <2>1, MovedOn DEF FInv
    <3>2. cookie' \in [Browser -> Flow \cup {NoFlow}]
      BY <2>1 DEF FInv, FType
    <3> QED
      BY <1>1, <3>1, <3>2 DEF Carries
  <2>2. CASE Answer(v)
    <3>1. \A u \in Visit : visit'[u].pc = "exchange" => visit'[u] = visit[u]
      BY <2>2 DEF Answer, NoVisit, FInv, FType
    <3> QED
      BY <2>2, <3>1, AnswerCarries
  <2> QED
    BY <2>1, <2>2 DEF Persist
<1>3. FType'
  BY <1>1, <1>2 DEF FInv, FType
<1>4. OnePlace' /\ Asked'
  BY <1>1, <1>2 DEF FInv, OnePlace, InOnePlace, Asked, Redeems
<1> QED
  BY <1>3, <1>4 DEF FInv

\* The end of a callback, whatever it issued.
LEMMA EndOfVisit ==
    ASSUME FInv, NEW v \in Visit, NEW f \in Flow, Carries(v, f), Answer(v), UNCHANGED <<flow, swap, hour, traffic>>
    PROVE  /\ \A u \in Visit : ~Carries(u, f)'
           /\ Asked'
           /\ codes' \in [Flow -> [state : {"none", "live", "consumed", "gone"}, expires : Nat]]
              /\ minted' \in [Flow -> Seq(Minting)] => FType'
<1>1. \A u \in Visit : visit'[u].pc = "exchange" => visit'[u] = visit[u]
  BY DEF Answer, NoVisit, FInv, FType
<1>2. Asked'
  BY <1>1 DEF FInv, Asked
<1>3. \A u \in Visit : ~Carries(u, f)'
  BY AnswerCarries DEF FInv, OnePlace, InOnePlace
<1> QED
  BY <1>2, <1>3, AnswerCarries DEF FInv, FType

LEMMA IssueCookieKeeps == ASSUME FInv, NEW v \in Visit, IssueCookie(v) PROVE FInv'
<1>1. PICK f \in Flow \cup {NoFlow} : f = visit[v].pending
  BY DEF FInv, FType, Visiting
<1>2. /\ visit[v].pc = "issue" /\ flow[f].kind = "browser" /\ Answer(v)
      /\ UNCHANGED <<flow, codes, swap, hour, traffic>>
      /\ Issued(f, visit[v].browser, NoFlow) \/ UNCHANGED minted
  BY <1>1 DEF IssueCookie
<1>3. visit[v].browser \in Browser \cup {NoBrowser}
  BY DEF FInv, FType, Visiting
<1>4. CASE f \in Flow /\ Issued(f, visit[v].browser, NoFlow)
  <2>1. Carries(v, f)
    BY <1>1, <1>2 DEF Carries
  <2>2. minted[f] = << >> /\ flow[f].grant = "spent" /\ codes[f].state = "none" /\ \A w \in Swap : ~Redeems(w, f)
    BY <2>1, <1>4 DEF FInv, FType, Login, OnePlace, InOnePlace
  <2>3. /\ minted' \in [Flow -> Seq(Minting)]
        /\ \A g \in Flow : g # f => minted'[g] = minted[g]
        /\ Len(minted'[f]) = 1
    BY <1>3, <1>4, <2>2, FirstMinted DEF FInv
  <2>4. (\A u \in Visit : ~Carries(u, f)') /\ Asked' /\ FType'
    BY <1>2, <1>4, <2>1, <2>3, EndOfVisit DEF FInv, FType
  <2>5. \A u \in Visit, g \in Flow : Carries(u, g)' => g # f /\ Carries(u, g)
    BY <1>2, <2>4, AnswerCarries
  <2>6. \A w \in Swap, g \in Flow : Redeems(w, g)' <=> Redeems(w, g)
    BY <1>2 DEF Redeems
  <2>7. flow' = flow /\ codes' = codes
    BY <1>2
  <2>8. OnePlace'
    <3> SUFFICES ASSUME NEW g \in Flow PROVE InOnePlace(g)'
      BY DEF OnePlace
    <3>1. CASE g = f
      BY <3>1, <1>4, <2>2, <2>3, <2>5, <2>6, <2>7 DEF FInv, OnePlace, InOnePlace
    <3>2. CASE g # f
      BY <3>2, <2>3, <2>5, <2>6, <2>7 DEF FInv, OnePlace, InOnePlace
    <3> QED
      BY <3>1, <3>2
  <2> QED
    BY <2>4, <2>8 DEF FInv
<1>5. CASE UNCHANGED minted
  <2>1. FType'
    BY <1>2, <1>5, AnswerCarries DEF FInv, FType
  <2>2. \A u \in Visit : visit'[u].pc = "exchange" => visit'[u] = visit[u]
    BY <1>2 DEF Answer, NoVisit, FInv, FType
  <2>3. OnePlace' /\ Asked'
    BY <1>2, <1>5, <2>2, AnswerCarries DEF FInv, OnePlace, InOnePlace, Asked, Redeems
  <2> QED
    BY <2>1, <2>3 DEF FInv
<1>6. f # NoFlow \/ UNCHANGED minted
  <2>1. NoFlow \notin Flow
    BY FlowAssumption
  <2> QED
    BY <1>2, <2>1 DEF Issued, FInv, FType
<1> QED
  BY <1>2, <1>4, <1>5, <1>6

LEMMA IssueCodeKeeps == ASSUME FInv, NEW v \in Visit, IssueCode(v) PROVE FInv'
<1>1. PICK f \in Flow \cup {NoFlow} : f = visit[v].pending
  BY DEF FInv, FType, Visiting
<1> DEFINE code == [state |-> "live", expires |-> hour + CodeTTL]
<1>2. /\ visit[v].pc = "issue" /\ Answer(v) /\ UNCHANGED <<flow, swap, minted, hour, traffic>>
      /\ codes' = [codes EXCEPT ![f] = code] \/ UNCHANGED codes
  BY <1>1 DEF IssueCode
<1>3. code \in [state : {"none", "live", "consumed", "gone"}, expires : Nat] /\ code.state = "live"
  BY FlowAssumption DEF FInv, FType
<1> HIDE DEF code
<1>4. CASE f \in Flow /\ codes' = [codes EXCEPT ![f] = code]
  <2>1. Carries(v, f)
    BY <1>1, <1>2 DEF Carries
  <2>2. minted[f] = << >> /\ flow[f].grant = "spent" /\ codes[f].state = "none" /\ \A w \in Swap : ~Redeems(w, f)
    BY <2>1, <1>4 DEF FInv, FType, Login, OnePlace, InOnePlace
  <2>3. /\ codes' \in [Flow -> [state : {"none", "live", "consumed", "gone"}, expires : Nat]]
        /\ \A g \in Flow : codes'[g].state = IF g = f THEN "live" ELSE codes[g].state
    BY <1>3, <1>4 DEF FInv, FType
  <2>4. (\A u \in Visit : ~Carries(u, f)') /\ Asked' /\ FType'
    BY <1>2, <1>4, <2>1, <2>3, EndOfVisit DEF FInv, FType
  <2>5. \A u \in Visit, g \in Flow : Carries(u, g)' => g # f /\ Carries(u, g)
    BY <1>2, <2>4, AnswerCarries
  <2>6. \A w \in Swap, g \in Flow : Redeems(w, g)' <=> Redeems(w, g)
    BY <1>2 DEF Redeems
  <2>7. OnePlace'
    BY <1>2, <1>4, <2>2, <2>3, <2>5, <2>6 DEF FInv, OnePlace, InOnePlace
  <2> QED
    BY <2>4, <2>7 DEF FInv
<1>5. CASE UNCHANGED codes
  <2>1. FType'
    BY <1>2, <1>5, AnswerCarries DEF FInv, FType
  <2>2. \A u \in Visit : visit'[u].pc = "exchange" => visit'[u] = visit[u]
    BY <1>2 DEF Answer, NoVisit, FInv, FType
  <2>3. OnePlace' /\ Asked'
    BY <1>2, <1>5, <2>2, AnswerCarries DEF FInv, OnePlace, InOnePlace, Asked, Redeems
  <2> QED
    BY <2>1, <2>3 DEF FInv
<1>6. f # NoFlow \/ UNCHANGED codes
  <2>1. NoFlow \notin Flow
    BY FlowAssumption
  <2> QED
    BY <1>2, <2>1 DEF FInv, FType
<1> QED
  BY <1>2, <1>4, <1>5, <1>6

-----------------------------------------------------------------------------
(* The exchange, the sweep and the terminal. *)

\* What an exchange that is not about to mint leaves as it is.
LEMMA FewerRedeem ==
    ASSUME FInv, UNCHANGED <<flow, visit, minted>>,
           \A w \in Swap, f \in Flow : Redeems(w, f)' => Redeems(w, f),
           \A f \in Flow : codes'[f].state = codes[f].state
    PROVE  OnePlace' /\ Asked'
<1>1. OnePlace'
  BY DEF FInv, OnePlace, InOnePlace, Carries
<1>2. Asked'
  BY DEF FInv, Asked
<1> QED
  BY <1>1, <1>2

LEMMA ExchangeKeeps == ASSUME FInv, NEW w \in Swap, Exchange(w) PROVE FInv'
<1>1. PICK f \in Flow, verifier \in Flow \cup {NoFlow} :
        swap' = [swap EXCEPT ![w] = [pc |-> "consume", code |-> f, verifier |-> verifier]]
  BY DEF Exchange
<1>2. UNCHANGED <<flow, cookie, visit, codes, minted, hour, traffic>>
  BY DEF Exchange
<1>3. swap' \in [Swap -> Swapping] /\ \A u \in Swap, g \in Flow : Redeems(u, g)' => Redeems(u, g)
  BY <1>1 DEF FInv, FType, Swapping, Redeems
<1>4. FType'
  BY <1>2, <1>3 DEF FInv, FType
<1>5. OnePlace' /\ Asked'
  BY <1>2, <1>3, FewerRedeem
<1> QED
  BY <1>4, <1>5 DEF FInv

LEMMA ConsumeKeeps == ASSUME FInv, NEW w \in Swap, Consume(w) PROVE FInv'
<1>1. UNCHANGED <<flow, cookie, visit, minted, hour, traffic>> /\ swap[w].pc = "consume"
  BY DEF Consume
<1>2. CASE swap' = [swap EXCEPT ![w] = NoSwap] /\ UNCHANGED codes
  <2>1. swap' \in [Swap -> Swapping] /\ \A u \in Swap, g \in Flow : Redeems(u, g)' => Redeems(u, g)
    BY <1>2 DEF FInv, FType, Swapping, Redeems, NoSwap
  <2>2. FType'
    BY <1>1, <1>2, <2>1 DEF FInv, FType
  <2>3. OnePlace' /\ Asked'
    BY <1>1, <1>2, <2>1, FewerRedeem
  <2> QED
    BY <2>2, <2>3 DEF FInv
<1>3. CASE /\ codes[swap[w].code].state = "live"
           /\ codes' = [codes EXCEPT ![swap[w].code].state = "consumed"]
           /\ swap' = [swap EXCEPT ![w].pc = "issue"]
  <2>1. PICK f \in Flow \cup {NoFlow} : f = swap[w].code
    BY DEF FInv, FType, Swapping
  <2>2. swap' \in [Swap -> Swapping]
    <3>1. swap \in [Swap -> Swapping] /\ [swap[w] EXCEPT !.pc = "issue"] \in Swapping
      BY DEF FInv, FType, Swapping
    <3> QED
      BY <1>3, <3>1
  <2>3. /\ codes' \in [Flow -> [state : {"none", "live", "consumed", "gone"}, expires : Nat]]
        /\ \A g \in Flow : codes'[g].state = IF g = f THEN "consumed" ELSE codes[g].state
    BY <1>3, <2>1 DEF FInv, FType
  <2>4. \A u \in Swap, g \in Flow : Redeems(u, g)' <=> Redeems(u, g) \/ (u = w /\ g = f)
    BY <1>1, <1>3, <2>1 DEF FInv, FType, Swapping, Redeems
  <2>5. \A u \in Visit, g \in Flow : Carries(u, g)' <=> Carries(u, g)
    BY <1>1 DEF Carries
  <2>6. codes[f].state = "live" /\ flow' = flow /\ minted' = minted
    BY <1>1, <1>3, <2>1
  <2>7. FType'
    BY <1>1, <2>2, <2>3 DEF FInv, FType
  <2>8. OnePlace'
    <3> SUFFICES ASSUME NEW g \in Flow PROVE InOnePlace(g)'
      BY DEF OnePlace
    <3>1. CASE g = f
      BY <3>1, <2>3, <2>4, <2>5, <2>6 DEF FInv, OnePlace, InOnePlace
    <3>2. CASE g # f
      BY <3>2, <2>3, <2>4, <2>5, <2>6 DEF FInv, OnePlace, InOnePlace
    <3> QED
      BY <3>1, <3>2
  <2>9. Asked'
    BY <1>1 DEF FInv, Asked
  <2> QED
    BY <2>7, <2>8, <2>9 DEF FInv
<1> QED
  BY <1>2, <1>3 DEF Consume, Unspent

LEMMA IssueKeeps == ASSUME FInv, NEW w \in Swap, Issue(w) PROVE FInv'
<1>1. PICK f \in Flow \cup {NoFlow} : f = swap[w].code
  BY DEF FInv, FType, Swapping
<1>2. /\ swap[w].pc = "issue" /\ swap' = [swap EXCEPT ![w] = NoSwap]
      /\ UNCHANGED <<flow, cookie, visit, codes, hour, traffic>>
      /\ Issued(f, NoBrowser, swap[w].verifier) \/ UNCHANGED minted
  BY <1>1 DEF Issue
<1>3. /\ swap' \in [Swap -> Swapping]
      /\ \A u \in Swap, g \in Flow : Redeems(u, g)' <=> u # w /\ Redeems(u, g)
      /\ swap[w].verifier \in Flow \cup {NoFlow}
  BY <1>2 DEF FInv, FType, Swapping, Redeems, NoSwap
<1>4. CASE UNCHANGED minted
  <2>1. FType'
    BY <1>2, <1>3, <1>4 DEF FInv, FType
  <2>2. OnePlace' /\ Asked'
    BY <1>2, <1>3, <1>4, FewerRedeem
  <2> QED
    BY <2>1, <2>2 DEF FInv
<1>5. CASE f \in Flow /\ Issued(f, NoBrowser, swap[w].verifier)
  <2>1. Redeems(w, f)
    BY <1>1, <1>2 DEF Redeems
  <2>2. /\ minted[f] = << >> /\ flow[f].grant = "spent" /\ codes[f].state \notin {"none", "live"}
        /\ \A u \in Swap : Redeems(u, f) => u = w
        /\ \A v \in Visit : ~Carries(v, f)
    BY <2>1, <1>5 DEF FInv, FType, Login, OnePlace, InOnePlace
  <2>3. /\ minted' \in [Flow -> Seq(Minting)]
        /\ \A g \in Flow : g # f => minted'[g] = minted[g]
        /\ Len(minted'[f]) = 1
    BY <1>3, <1>5, <2>2, FirstMinted DEF FInv
  <2>4. FType'
    BY <1>2, <1>3, <2>3 DEF FInv, FType
  <2>5. flow' = flow /\ codes' = codes /\ \A u \in Visit, g \in Flow : Carries(u, g)' <=> Carries(u, g)
    BY <1>2 DEF Carries
  <2>6. OnePlace'
    <3> SUFFICES ASSUME NEW g \in Flow PROVE InOnePlace(g)'
      BY DEF OnePlace
    <3>1. CASE g = f
      BY <3>1, <1>3, <1>5, <2>2, <2>3, <2>5 DEF FInv, OnePlace, InOnePlace
    <3>2. CASE g # f
      BY <3>2, <1>3, <2>3, <2>5 DEF FInv, OnePlace, InOnePlace
    <3> QED
      BY <3>1, <3>2
  <2>7. Asked'
    BY <1>2 DEF FInv, Asked
  <2> QED
    BY <2>4, <2>6, <2>7 DEF FInv
<1>6. f # NoFlow \/ UNCHANGED minted
  <2>1. NoFlow \notin Flow
    BY FlowAssumption
  <2> QED
    BY <1>2, <2>1 DEF Issued, FInv, FType
<1> QED
  BY <1>2, <1>4, <1>5, <1>6

LEMMA SweepCodesKeeps == ASSUME FInv, SweepCodes PROVE FInv'
<1>1. UNCHANGED <<flow, cookie, visit, swap, minted, hour, traffic>>
  BY DEF SweepCodes
<1>2. /\ codes' \in [Flow -> [state : {"none", "live", "consumed", "gone"}, expires : Nat]]
      /\ \A f \in Flow : \/ codes'[f].state = codes[f].state
                         \/ codes[f].state # "none" /\ codes'[f].state = "gone"
  BY DEF SweepCodes, FInv, FType
<1>3. FType'
  BY <1>1, <1>2 DEF FInv, FType
<1>4. OnePlace' /\ Asked'
  BY <1>1, <1>2 DEF FInv, OnePlace, InOnePlace, Asked, Carries, Redeems
<1> QED
  BY <1>3, <1>4 DEF FInv

LEMMA ElsewhereKeeps ==
    ASSUME FInv, FlowTick \/ UNCHANGED fvars
    PROVE  FInv'
<1>1. UNCHANGED <<flow, cookie, visit, codes, swap, minted, traffic>> /\ hour' \in Nat
  BY DEF FlowTick, fvars, FInv, FType
<1>2. FType'
  BY <1>1 DEF FInv, FType
<1>3. OnePlace' /\ Asked'
  BY <1>1 DEF FInv, OnePlace, InOnePlace, Asked, Carries, Redeems
<1> QED
  BY <1>2, <1>3 DEF FInv

LEMMA PlaceStep == FInv /\ [LoopbackNext]_lvars => FInv'
<1> SUFFICES ASSUME FInv, [LoopbackNext]_lvars PROVE FInv'
  OBVIOUS
<1>1. CASE ServerNext
  BY <1>1, BeginKeeps, GrantKeeps, CallbackKeeps, CompleteKeeps, PersistKeeps, IssueCookieKeeps,
     IssueCodeKeeps, ExchangeKeeps, ConsumeKeeps, IssueKeeps, SweepCodesKeeps, ElsewhereKeeps DEF ServerNext
<1>2. CASE \E v \in Visit : Redirected(v)
  BY <1>2, IssueCodeKeeps DEF Redirected
<1>3. ASSUME NEW c \in Cli, CliStep(c) PROVE FInv'
  <2>1. CASE \E b \in Browser : OpenURL(c, b)
    BY <2>1, BeginKeeps DEF OpenURL, FlowKind
  <2>2. CASE UNCHANGED fvars
    BY <2>2, ElsewhereKeeps
  <2>3. Listen(c) => UNCHANGED fvars
    BY DEF Listen
  <2> QED
    BY <1>3, <2>1, <2>2, <2>3 DEF CliStep, TakeCode, GiveUp, CloseListener, Arrive
<1>4. CASE UNCHANGED lvars
  BY <1>4, ElsewhereKeeps DEF lvars, fvars
<1> QED
  BY <1>1, <1>2, <1>3, <1>4 DEF LoopbackNext

\* However often callbacks are reloaded and login codes presented, raced and
\* swept, a sign-in yields one session at most, for any number of browsers,
\* logins, callbacks, exchanges and terminals (oidc/handlers.go
\* handleCallback, handleExchange, pg.go Consume, DeleteExpired).
THEOREM OneSessionEach == LoopbackSpec => []OneSessionPerLogin
<1>1. LoopbackInit => FInv
  BY PlaceInit
<1>2. FInv /\ [LoopbackNext]_lvars => FInv'
  BY PlaceStep
<1>3. FInv => OneSessionPerLogin
  BY DEF FInv, OnePlace, InOnePlace, OneSessionPerLogin
<1> QED
  BY <1>1, <1>2, <1>3, PTL DEF LoopbackSpec

-----------------------------------------------------------------------------
(* A login ends where it began.  A flow that has started keeps its kind,   *)
(* its home and its caller, and each place a sign-in passes through agrees *)
(* with them: the browser's cookie, the callback, the exchange once its    *)
(* verifier was checked, the session, the redirect and the terminal.       *)

Started(f) == f \in Flow /\ flow[f].kind # "none"

Rides == \A b \in Browser : cookie[b] # NoFlow => Started(cookie[b]) /\ flow[cookie[b]].home = b
Calls == \A v \in Visit : visit[v].pc # "start" =>
            Started(visit[v].pending) /\ flow[visit[v].pending].home = visit[v].browser
Coded == \A f \in Flow : codes[f].state # "none" => Started(f)
Swaps ==
    \A w \in Swap : /\ swap[w].pc # "start" => Started(swap[w].code)
                    /\ swap[w].pc = "issue" => swap[w].verifier = Challenge(swap[w].code)
Mints ==
    \A f \in Flow : \A i \in DOMAIN minted[f] :
        /\ Started(f) /\ minted[f][i].to \in {flow[f].home, NoBrowser}
        /\ minted[f][i].verifier = Challenge(f)
Redirects == \A f \in redirected : Started(f)

Waiting == [pc : {"none", "waiting", "done", "failed"}, open : BOOLEAN,
            parked : Flow \cup {NoFlow}, result : Flow \cup {NoFlow}]
Waits ==
    /\ wait \in [Cli -> Waiting]
    /\ \A c \in Cli : \A f \in {wait[c].parked, wait[c].result} \ {NoFlow} :
          Started(f) /\ flow[f].caller = c

AtHome == Rides /\ Calls /\ Coded /\ Swaps /\ Mints /\ Redirects /\ Waits

LEMMA HomeInit == LoopbackInit => AtHome
<1> SUFFICES ASSUME LoopbackInit PROVE AtHome
  OBVIOUS
<1>1. Rides /\ Calls /\ Coded /\ Swaps /\ Redirects /\ Waits
  BY DEF LoopbackInit, FlowInit, Rides, Calls, Coded, Swaps, Redirects, Waits, Waiting, NoVisit,
         NoCode, NoSwap, NoWait
<1>2. Mints
  BY DEF LoopbackInit, FlowInit, Mints
<1> QED
  BY <1>1, <1>2 DEF AtHome

\* What no step changes of a flow that has started.
Settled ==
    \A f \in Flow : flow[f].kind # "none" =>
        /\ flow'[f].kind = flow[f].kind /\ flow'[f].home = flow[f].home
        /\ flow'[f].caller = flow[f].caller

\* A place that a step leaves alone still agrees with its flow.
LEMMA HomeKeeps ==
    ASSUME AtHome, FType, Settled
    PROVE  /\ UNCHANGED cookie => Rides'
           /\ UNCHANGED visit => Calls'
           /\ UNCHANGED codes => Coded'
           /\ UNCHANGED swap => Swaps'
           /\ UNCHANGED minted => Mints'
           /\ UNCHANGED redirected => Redirects'
           /\ UNCHANGED wait => Waits'
<1>1. \A f : Started(f) =>
        /\ Started(f)' /\ flow'[f].home = flow[f].home /\ flow'[f].caller = flow[f].caller
        /\ Challenge(f)' = Challenge(f)
  BY DEF Settled, Started, Challenge
<1>2. UNCHANGED cookie => Rides'
  BY <1>1 DEF AtHome, Rides
<1>3. UNCHANGED visit => Calls'
  BY <1>1 DEF AtHome, Calls
<1>4. UNCHANGED codes => Coded'
  BY <1>1 DEF AtHome, Coded
<1>5. UNCHANGED swap => Swaps'
  BY <1>1 DEF AtHome, Swaps
<1>6. UNCHANGED minted => Mints'
  BY <1>1 DEF AtHome, Mints
<1>7. UNCHANGED redirected => Redirects'
  BY <1>1 DEF AtHome, Redirects
<1>8. UNCHANGED wait => Waits'
  BY <1>1 DEF AtHome, Waits
<1> QED
  BY <1>2, <1>3, <1>4, <1>5, <1>6, <1>7, <1>8

\* The response takes a cookie away and ends the callback.
LEMMA AnswerHome ==
    ASSUME AtHome, FType, Settled, NEW v \in Visit, Answer(v)
    PROVE  Rides' /\ Calls'
<1>1. \A b \in Browser : cookie'[b] \in {cookie[b], NoFlow}
  BY DEF Answer, FType
<1>2. \A u \in Visit : visit'[u] \in {visit[u], NoVisit}
  BY DEF Answer, FType
<1>3. \A f : Started(f) => Started(f)' /\ flow'[f].home = flow[f].home
  BY DEF Settled, Started
<1>4. Rides'
  BY <1>1, <1>3 DEF AtHome, Rides
<1>5. Calls'
  BY <1>2, <1>3 DEF AtHome, Calls, NoVisit
<1> QED
  BY <1>4, <1>5

LEMMA SameFlow == ASSUME UNCHANGED flow PROVE Settled
  BY DEF Settled

\* A first session agrees with its flow.
LEMMA MintsHome ==
    ASSUME AtHome, FType, UNCHANGED flow, NEW f, Started(f), minted[f] = << >>,
           NEW to \in {flow[f].home, NoBrowser}, NEW verifier, verifier = Challenge(f),
           Issued(f, to, verifier)
    PROVE  Mints'
<1> DEFINE one == [to |-> to, verifier |-> verifier]
<1>1. f \in Flow /\ minted' = [minted EXCEPT ![f] = Append(<< >>, one)]
  BY DEF Issued, Started
<1>2. Append(<< >>, one) = <<one>>
  OBVIOUS
<1>3. one.to = to /\ one.verifier = verifier
  OBVIOUS
<1> HIDE DEF one
<1>4. \A g \in Flow : minted'[g] = IF g = f THEN <<one>> ELSE minted[g]
  BY <1>1, <1>2 DEF FType
<1>5. DOMAIN <<one>> = {1} /\ <<one>>[1] = one
  OBVIOUS
<1>6. ASSUME NEW g \in Flow, NEW i \in DOMAIN minted'[g]
      PROVE  /\ Started(g)' /\ minted'[g][i].to \in {flow'[g].home, NoBrowser}
             /\ minted'[g][i].verifier = Challenge(g)'
  <2>1. CASE g = f
    <3>1. minted'[g][i] = one
      BY <1>4, <1>5, <1>6, <2>1
    <3> QED
      BY <1>3, <2>1, <3>1 DEF Started, Challenge
  <2>2. CASE g # f
    BY <1>4, <1>6, <2>2 DEF AtHome, Mints, Started, Challenge
  <2> QED
    BY <2>1, <2>2
<1> QED
  BY <1>6 DEF Mints

\* What the server holds.
ServerHome == Rides /\ Calls /\ Coded /\ Swaps /\ Mints

LEMMA BeginHome ==
    ASSUME FInv, AtHome, NEW b \in Browser, NEW kind \in FlowKind, NEW caller \in Cli \cup {NoCli},
           BeginLogin(b, kind, caller)
    PROVE  Settled /\ ServerHome'
<1>1. PICK f \in Flow :
        /\ flow[f].kind = "none"
        /\ flow' = [flow EXCEPT ![f] = [kind |-> kind, home |-> b, caller |-> caller, grant |-> "none"]]
        /\ cookie' = [cookie EXCEPT ![b] = f]
        /\ UNCHANGED <<visit, codes, swap, minted, hour, traffic>>
  BY FlowAssumption DEF BeginLogin, FInv, FType
<1>2. FType
  BY DEF FInv
<1>3. Settled
  BY <1>1, <1>2 DEF Settled, FType
<1>4. kind # "none"
  BY DEF FlowKind
<1>5. /\ Started(f)' /\ flow'[f].home = b
      /\ \A c \in Browser : cookie'[c] = IF c = b THEN f ELSE cookie[c]
  BY <1>1, <1>2, <1>4 DEF Started, FType
<1>6. \A g : Started(g) => Started(g)' /\ flow'[g].home = flow[g].home
  BY <1>3 DEF Settled, Started
<1>7. Rides'
  BY <1>5, <1>6 DEF AtHome, Rides
<1> QED
  BY <1>1, <1>2, <1>3, <1>7, HomeKeeps DEF ServerHome

LEMMA GrantHome == ASSUME FInv, AtHome, NEW f \in Flow, Grant(f) PROVE Settled /\ ServerHome'
<1>1. FType /\ Settled
  BY DEF FInv, FType, Login, Grant, Settled
<1> QED
  BY <1>1, HomeKeeps DEF Grant, ServerHome

LEMMA CallbackHome == ASSUME FInv, AtHome, NEW v \in Visit, Callback(v) PROVE Settled /\ ServerHome'
<1>1. FType /\ Settled
  BY SameFlow DEF FInv, Callback
<1>2. PICK b \in Browser, state \in Flow, authz \in Flow :
        /\ cookie[b] # NoFlow
        /\ IF cookie[b] = state
           THEN visit' = [visit EXCEPT ![v] = [pc |-> "exchange", browser |-> b, authz |-> authz,
                                               pending |-> state]] /\ UNCHANGED cookie
           ELSE cookie' = [cookie EXCEPT ![b] = NoFlow] /\ UNCHANGED visit
  BY DEF Callback, Pending
<1>3. UNCHANGED <<flow, codes, swap, minted>>
  BY DEF Callback
<1>4. Rides' /\ Calls'
  <2>1. CASE cookie[b] = state
    <3>1. UNCHANGED cookie /\ \A u \in Visit : u # v => visit'[u] = visit[u]
      BY <1>1, <1>2, <2>1 DEF FType
    <3>2. visit'[v].pending = state /\ visit'[v].browser = b
      BY <1>1, <1>2, <2>1 DEF FType
    <3>3. Started(state) /\ flow[state].home = b
      BY <1>2, <2>1 DEF AtHome, Rides
    <3>4. Calls'
      BY <1>3, <3>1, <3>2, <3>3 DEF AtHome, Calls, Started
    <3> QED
      BY <1>1, <3>1, <3>4, HomeKeeps
  <2>2. CASE cookie[b] # state
    <3>1. UNCHANGED visit /\ \A c \in Browser : cookie'[c] \in {cookie[c], NoFlow}
      BY <1>1, <1>2, <2>2 DEF FType
    <3>2. Rides'
      BY <1>3, <3>1 DEF AtHome, Rides, Started
    <3> QED
      BY <1>1, <3>1, <3>2, HomeKeeps
  <2> QED
    BY <2>1, <2>2
<1> QED
  BY <1>1, <1>3, <1>4, HomeKeeps DEF ServerHome

\* A callback that moves on keeps its browser and its flow.
LEMMA MovesHome ==
    ASSUME AtHome, FType, Settled, NEW v \in Visit, NEW pc, visit[v].pc # "start",
           visit' = [visit EXCEPT ![v].pc = pc]
    PROVE  Calls'
<1>1. \A u \in Visit : /\ visit'[u].pc # "start" => visit[u].pc # "start"
                       /\ visit'[u].pending = visit[u].pending /\ visit'[u].browser = visit[u].browser
  BY DEF FType, Visiting
<1>2. \A f : Started(f) => Started(f)' /\ flow'[f].home = flow[f].home
  BY DEF Settled, Started
<1> QED
  BY <1>1, <1>2 DEF AtHome, Calls

LEMMA CompleteHome ==
    ASSUME FInv, AtHome, NEW v \in Visit, CompleteFlow(v) \/ Persist(v)
    PROVE  Settled /\ ServerHome'
<1>1. FType
  BY DEF FInv
<1>2. Settled
  <2>1. CASE UNCHANGED flow
    BY <2>1, SameFlow
  <2>2. CASE flow' = [flow EXCEPT ![visit[v].authz].grant = "spent"]
    <3>1. \A f \in Flow : flow'[f] = flow[f] \/ flow'[f] = [flow[f] EXCEPT !.grant = "spent"]
      BY <1>1, <2>2 DEF FType
    <3>2. \A f \in Flow : flow[f] \in Login
      BY <1>1 DEF FType
    <3> QED
      BY <3>1, <3>2 DEF Settled, Login
  <2> QED
    BY <2>1, <2>2 DEF CompleteFlow, Persist
<1>3. Rides' /\ Calls'
  <2>1. CASE Answer(v)
    BY <1>1, <1>2, <2>1, AnswerHome
  <2>2. CASE (\E pc : visit' = [visit EXCEPT ![v].pc = pc]) /\ UNCHANGED cookie
    BY <1>1, <1>2, <2>2, MovesHome, HomeKeeps DEF CompleteFlow, Persist
  <2> QED
    BY <2>1, <2>2 DEF CompleteFlow, Persist
<1>4. UNCHANGED <<codes, swap, minted>>
  BY DEF CompleteFlow, Persist
<1> QED
  BY <1>1, <1>2, <1>3, <1>4, HomeKeeps DEF ServerHome

\* The sign-in a callback is about to issue for is its browser's own.
LEMMA IssueCookieHome == ASSUME FInv, AtHome, NEW v \in Visit, IssueCookie(v) PROVE Settled /\ ServerHome'
<1>1. FType /\ Settled
  BY SameFlow DEF FInv, IssueCookie
<1>2. PICK f : f = visit[v].pending
  OBVIOUS
<1>3. /\ visit[v].pc = "issue" /\ flow[f].kind = "browser" /\ Answer(v)
      /\ UNCHANGED <<flow, codes, swap>>
      /\ Issued(f, visit[v].browser, NoFlow) \/ UNCHANGED minted
  BY <1>2 DEF IssueCookie
<1>4. Started(f) /\ visit[v].browser = flow[f].home /\ Challenge(f) = NoFlow
  BY <1>2, <1>3 DEF AtHome, Calls, Challenge
<1>5. Mints'
  <2>1. CASE UNCHANGED minted
    BY <1>1, <2>1, HomeKeeps
  <2>2. CASE Issued(f, flow[f].home, NoFlow)
    <3>1. Carries(v, f)
      BY <1>2, <1>3 DEF Carries
    <3>2. minted[f] = << >>
      BY <1>4, <3>1 DEF FInv, OnePlace, InOnePlace, Started
    <3> QED
      BY <1>1, <1>3, <1>4, <2>2, <3>2, MintsHome
  <2> QED
    BY <1>3, <1>4, <2>1, <2>2
<1>6. Rides' /\ Calls'
  BY <1>1, <1>3, AnswerHome
<1> QED
  BY <1>1, <1>3, <1>5, <1>6, HomeKeeps DEF ServerHome

LEMMA IssueCodeHome == ASSUME FInv, AtHome, NEW v \in Visit, IssueCode(v) PROVE Settled /\ ServerHome'
<1>1. FType /\ Settled
  BY SameFlow DEF FInv, IssueCode
<1>2. visit[v].pc = "issue" /\ Answer(v) /\ UNCHANGED <<flow, swap, minted>>
      /\ \A f \in Flow : codes'[f] = codes[f] \/ f = visit[v].pending
  BY <1>1 DEF IssueCode, FType
<1>3. Started(visit[v].pending)
  BY <1>2 DEF AtHome, Calls
<1>4. Coded'
  BY <1>2, <1>3 DEF AtHome, Coded, Started
<1>5. Rides' /\ Calls'
  BY <1>1, <1>2, AnswerHome
<1> QED
  BY <1>1, <1>2, <1>4, <1>5, HomeKeeps DEF ServerHome

LEMMA ExchangeHome == ASSUME FInv, AtHome, NEW w \in Swap, Exchange(w) PROVE Settled /\ ServerHome'
<1>1. FType /\ Settled
  BY SameFlow DEF FInv, Exchange
<1>2. PICK f \in Flow, verifier \in Flow \cup {NoFlow} :
        /\ codes[f].state # "none"
        /\ swap' = [swap EXCEPT ![w] = [pc |-> "consume", code |-> f, verifier |-> verifier]]
  BY DEF Exchange
<1>3. UNCHANGED <<flow, cookie, visit, codes, minted>>
  BY DEF Exchange
<1>4. /\ \A u \in Swap : u # w => swap'[u] = swap[u]
      /\ swap'[w].pc = "consume" /\ swap'[w].code = f
  BY <1>1, <1>2 DEF FType
<1>5. Started(f)
  BY <1>2 DEF AtHome, Coded
<1>6. Swaps'
  BY <1>3, <1>4, <1>5 DEF AtHome, Swaps, Started, Challenge
<1> QED
  BY <1>1, <1>3, <1>6, HomeKeeps DEF ServerHome

LEMMA ConsumeHome == ASSUME FInv, AtHome, NEW w \in Swap, Consume(w) PROVE Settled /\ ServerHome'
<1>1. FType /\ Settled
  BY SameFlow DEF FInv, Consume
<1>2. UNCHANGED <<flow, cookie, visit, minted>> /\ swap[w].pc = "consume"
  BY DEF Consume
<1>3. CASE swap' = [swap EXCEPT ![w] = NoSwap] /\ UNCHANGED codes
  <2>1. \A u \in Swap : swap'[u] \in {swap[u], NoSwap}
    BY <1>1, <1>3 DEF FType
  <2>2. Swaps'
    BY <1>2, <2>1 DEF AtHome, Swaps, Started, Challenge, NoSwap
  <2> QED
    BY <1>1, <1>2, <1>3, <2>2, HomeKeeps DEF ServerHome
<1>4. CASE /\ swap[w].verifier = Challenge(swap[w].code)
           /\ codes' = [codes EXCEPT ![swap[w].code].state = "consumed"]
           /\ swap' = [swap EXCEPT ![w].pc = "issue"]
  <2>1. \A u \in Swap : /\ u # w => swap'[u] = swap[u]
                        /\ swap'[u].code = swap[u].code /\ swap'[u].verifier = swap[u].verifier
    BY <1>1, <1>4 DEF FType, Swapping
  <2>2. Started(swap[w].code)
    BY <1>2 DEF AtHome, Swaps
  <2>3. Swaps'
    BY <1>2, <1>4, <2>1, <2>2 DEF AtHome, Swaps, Started, Challenge
  <2>4. \A f \in Flow : f # swap[w].code => codes'[f] = codes[f]
    BY <1>1, <1>4 DEF FType
  <2>5. Coded'
    BY <1>2, <2>2, <2>4 DEF AtHome, Coded, Started
  <2> QED
    BY <1>1, <1>2, <2>3, <2>5, HomeKeeps DEF ServerHome
<1> QED
  BY <1>3, <1>4 DEF Consume, Names

LEMMA IssueHome == ASSUME FInv, AtHome, NEW w \in Swap, Issue(w) PROVE Settled /\ ServerHome'
<1>1. FType /\ Settled
  BY SameFlow DEF FInv, Issue
<1>2. PICK f : f = swap[w].code
  OBVIOUS
<1>3. /\ swap[w].pc = "issue" /\ swap' = [swap EXCEPT ![w] = NoSwap]
      /\ UNCHANGED <<flow, cookie, visit, codes>>
      /\ Issued(f, NoBrowser, swap[w].verifier) \/ UNCHANGED minted
  BY <1>2 DEF Issue
<1>4. Started(f) /\ swap[w].verifier = Challenge(f)
  BY <1>2, <1>3 DEF AtHome, Swaps
<1>5. Mints'
  <2>1. CASE UNCHANGED minted
    BY <1>1, <2>1, HomeKeeps
  <2>2. CASE Issued(f, NoBrowser, swap[w].verifier)
    <3>1. Redeems(w, f)
      BY <1>2, <1>3 DEF Redeems
    <3>2. minted[f] = << >>
      BY <1>4, <3>1 DEF FInv, OnePlace, InOnePlace, Started
    <3> QED
      BY <1>1, <1>3, <1>4, <2>2, <3>2, MintsHome
  <2> QED
    BY <1>3, <2>1, <2>2
<1>6. \A u \in Swap : swap'[u] \in {swap[u], NoSwap}
  BY <1>1, <1>3 DEF FType
<1>7. Swaps'
  BY <1>3, <1>6 DEF AtHome, Swaps, Started, Challenge, NoSwap
<1> QED
  BY <1>1, <1>3, <1>5, <1>7, HomeKeeps DEF ServerHome

LEMMA SweepHome ==
    ASSUME FInv, AtHome, SweepCodes \/ FlowTick \/ UNCHANGED fvars
    PROVE  Settled /\ ServerHome'
<1>1. FType /\ Settled
  BY SameFlow DEF FInv, SweepCodes, FlowTick, fvars
<1>2. \A f \in Flow : codes'[f].state # "none" => codes[f].state # "none"
  BY <1>1 DEF SweepCodes, FlowTick, fvars, FType
<1>3. UNCHANGED <<flow, cookie, visit, swap, minted>>
  BY DEF SweepCodes, FlowTick, fvars
<1>4. Coded'
  BY <1>2, <1>3 DEF AtHome, Coded, Started
<1> QED
  BY <1>1, <1>3, <1>4, HomeKeeps DEF ServerHome

LEMMA ServerKeepsHome == ASSUME FInv, AtHome, ServerNext PROVE Settled /\ ServerHome'
  BY BeginHome, GrantHome, CallbackHome, CompleteHome, IssueCookieHome, ExchangeHome, ConsumeHome,
     IssueHome, SweepHome DEF ServerNext

-----------------------------------------------------------------------------
(* The terminal. *)

\* A terminal that stays, moves on, or parks a login of its own.
LEMMA WaitsHome ==
    ASSUME AtHome, UNCHANGED flow, NEW c \in Cli, NEW q \in Waiting, wait' = [wait EXCEPT ![c] = q],
           \A f \in {q.parked, q.result} \ {NoFlow} :
              \/ f \in {wait[c].parked, wait[c].result}
              \/ Started(f) /\ flow[f].caller = c
    PROVE  Waits'
<1>1. /\ wait' \in [Cli -> Waiting]
      /\ \A d \in Cli : wait'[d] = IF d = c THEN q ELSE wait[d]
  BY DEF AtHome, Waits
<1>2. \A f \in {q.parked, q.result} \ {NoFlow} : Started(f) /\ flow[f].caller = c
  BY DEF AtHome, Waits
<1> QED
  BY <1>1, <1>2 DEF AtHome, Waits, Started

LEMMA TerminalHome ==
    ASSUME AtHome, FInv, NEW c \in Cli,
           Listen(c) \/ (\E f \in Flow : Arrive(f, c)) \/ TakeCode(c) \/ GiveUp(c) \/ CloseListener(c)
    PROVE  UNCHANGED <<fvars, redirected>> /\ Waits'
<1>1. UNCHANGED <<fvars, redirected>> /\ flow' = flow
  BY DEF Listen, Arrive, TakeCode, GiveUp, CloseListener, fvars
<1>2. wait[c] \in Waiting
  BY DEF AtHome, Waits
<1>3. CASE Listen(c)
  <2> DEFINE q == [NoWait EXCEPT !.pc = "waiting", !.open = TRUE]
  <2>1. q \in Waiting /\ q.parked = NoFlow /\ q.result = NoFlow
    BY DEF NoWait, Waiting
  <2>2. wait' = [wait EXCEPT ![c] = q]
    BY <1>3 DEF Listen
  <2> HIDE DEF q
  <2> QED
    BY <1>1, <2>1, <2>2, WaitsHome
<1>4. ASSUME NEW f \in Flow, Arrive(f, c) PROVE Waits'
  <2> DEFINE q == [wait[c] EXCEPT !.parked = f]
  <2>1. q \in Waiting /\ q.parked = f /\ q.result = wait[c].result
    BY <1>2 DEF Waiting
  <2>2. wait' = [wait EXCEPT ![c] = q]
    BY <1>4 DEF Arrive
  <2>3. Started(f) /\ flow[f].caller = c
    BY <1>4 DEF Arrive, Echoes, AtHome, Redirects
  <2> HIDE DEF q
  <2> QED
    BY <1>1, <2>1, <2>2, <2>3, WaitsHome
<1>5. CASE TakeCode(c)
  <2> DEFINE q == [wait[c] EXCEPT !.pc = "done", !.result = wait[c].parked]
  <2>1. q \in Waiting /\ q.parked = wait[c].parked /\ q.result = wait[c].parked
    BY <1>2 DEF Waiting
  <2>2. wait' = [wait EXCEPT ![c] = q]
    BY <1>5 DEF TakeCode
  <2> HIDE DEF q
  <2> QED
    BY <1>1, <2>1, <2>2, WaitsHome
<1>6. CASE GiveUp(c)
  <2> DEFINE q == [wait[c] EXCEPT !.pc = "failed"]
  <2>1. q \in Waiting /\ q.parked = wait[c].parked /\ q.result = wait[c].result
    BY <1>2 DEF Waiting
  <2>2. wait' = [wait EXCEPT ![c] = q]
    BY <1>6 DEF GiveUp
  <2> HIDE DEF q
  <2> QED
    BY <1>1, <2>1, <2>2, WaitsHome
<1>7. CASE CloseListener(c)
  <2> DEFINE q == [wait[c] EXCEPT !.open = FALSE]
  <2>1. q \in Waiting /\ q.parked = wait[c].parked /\ q.result = wait[c].result
    BY <1>2 DEF Waiting
  <2>2. wait' = [wait EXCEPT ![c] = q]
    BY <1>7 DEF CloseListener
  <2> HIDE DEF q
  <2> QED
    BY <1>1, <2>1, <2>2, WaitsHome
<1> QED
  BY <1>1, <1>3, <1>4, <1>5, <1>6, <1>7

LEMMA HomeStep == FInv /\ AtHome /\ [LoopbackNext]_lvars => AtHome'
<1> SUFFICES ASSUME FInv, AtHome, [LoopbackNext]_lvars PROVE AtHome'
  OBVIOUS
<1>1. FType
  BY DEF FInv
<1>2. CASE ServerNext /\ UNCHANGED <<wait, redirected>>
  BY <1>1, <1>2, ServerKeepsHome, HomeKeeps DEF AtHome, ServerHome
<1>3. ASSUME NEW v \in Visit, Redirected(v) PROVE AtHome'
  <2>1. Settled /\ ServerHome'
    BY <1>3, IssueCodeHome DEF Redirected
  <2>2. UNCHANGED <<flow, wait>> /\ visit[v].pc = "issue"
    BY <1>3 DEF Redirected, IssueCode
  <2>3. Started(visit[v].pending)
    BY <2>2 DEF AtHome, Calls
  <2>4. Redirects'
    BY <1>3, <2>2, <2>3 DEF Redirected, AtHome, Redirects, Started
  <2> QED
    BY <1>1, <2>1, <2>2, <2>4, HomeKeeps DEF AtHome, ServerHome
<1>4. ASSUME NEW c \in Cli, NEW b \in Browser, OpenURL(c, b) PROVE AtHome'
  BY <1>1, <1>4, BeginHome, HomeKeeps DEF OpenURL, FlowKind, AtHome, ServerHome
<1>5. ASSUME NEW c \in Cli,
             Listen(c) \/ (\E f \in Flow : Arrive(f, c)) \/ TakeCode(c) \/ GiveUp(c) \/ CloseListener(c)
      PROVE  AtHome'
  BY <1>1, <1>5, TerminalHome, SweepHome, HomeKeeps DEF AtHome, ServerHome
<1>6. CASE UNCHANGED lvars
  BY <1>1, <1>6, SweepHome, HomeKeeps DEF lvars, fvars, AtHome, ServerHome
<1> QED
  BY <1>2, <1>3, <1>4, <1>5, <1>6 DEF LoopbackNext, CliStep

\* A login ends where it began, whatever callbacks, exchanges, redirects and
\* terminals race and whatever codes and callback URLs are carried from one
\* browser to another (oidc/handlers.go handleCallback, completeFlow,
\* handleExchange; loopback/wait.go callback).
THEOREM LoginsEndAtHome == LoopbackSpec => []EndsWhereItBegan
<1>1. LoopbackInit => FInv /\ AtHome
  BY PlaceInit, HomeInit
<1>2. FInv /\ AtHome /\ [LoopbackNext]_lvars => FInv' /\ AtHome'
  BY PlaceStep, HomeStep
<1>3. FInv /\ AtHome => EndsWhereItBegan
  BY DEF FInv, AtHome, Mints, Waits, EndsWhereItBegan, OwnLogin, MobileBound, LoopbackOwn
<1> QED
  BY <1>1, <1>2, <1>3, PTL DEF LoopbackSpec
=============================================================================
