--------------------------- MODULE TabContexts_proofs ---------------------------
(***************************************************************************)
(* Proofs about the contexts of tabs, for any tabs, windows and pages.        *)
(***************************************************************************)
EXTENDS TabContexts, FiniteSetTheorems, SequenceTheorems, TLAPS

-----------------------------------------------------------------------------
(* What is asked and answered in turn.                                      *)

\* q is among what is asked in s.
Has(s, q) == \E i \in DOMAIN s : s[i] = q

LEMMA ConcatFacts ==
  ASSUME NEW S, NEW s \in Seq(S), NEW m \in Seq(S)
  PROVE  /\ s \o m \in Seq(S)
         /\ \A q : Has(s \o m, q) <=> Has(s, q) \/ Has(m, q)
<1>1. s \o m \in Seq(S) /\ Len(s \o m) = Len(s) + Len(m) /\ Len(s) \in Nat /\ Len(m) \in Nat
  BY ConcatProperties, LenProperties
<1>2. \A i \in 1..Len(s) : (s \o m)[i] = s[i]
  BY <1>1, ConcatProperties
<1>3. \A j \in 1..Len(m) : (s \o m)[Len(s) + j] = m[j]
  BY <1>1
<1>4. DOMAIN s = 1..Len(s) /\ DOMAIN m = 1..Len(m) /\ DOMAIN (s \o m) = 1..(Len(s) + Len(m))
  BY <1>1, LenProperties
<1>5. ASSUME NEW q, Has(s \o m, q) PROVE Has(s, q) \/ Has(m, q)
  <2>1. PICK i \in 1..(Len(s) + Len(m)) : (s \o m)[i] = q
    BY <1>4, <1>5 DEF Has
  <2>2. CASE i <= Len(s)
    BY <1>1, <1>2, <1>4, <2>1, <2>2 DEF Has
  <2>3. CASE i > Len(s)
    <3>1. i - Len(s) \in 1..Len(m) /\ Len(s) + (i - Len(s)) = i
      BY <1>1, <2>3
    <3>2. m[i - Len(s)] = q
      BY <1>3, <2>1, <3>1
    <3> QED BY <1>4, <3>1, <3>2 DEF Has
  <2> QED BY <1>1, <2>2, <2>3
<1>6. ASSUME NEW q, Has(s, q) PROVE Has(s \o m, q)
  BY <1>1, <1>2, <1>4, <1>6 DEF Has
<1>7. ASSUME NEW q, Has(m, q) PROVE Has(s \o m, q)
  <2>1. PICK j \in 1..Len(m) : m[j] = q
    BY <1>4, <1>7 DEF Has
  <2>2. Len(s) + j \in 1..(Len(s) + Len(m))
    BY <1>1
  <2> QED BY <1>3, <1>4, <2>1, <2>2 DEF Has
<1> QED BY <1>1, <1>5, <1>6, <1>7

LEMMA TailFacts ==
  ASSUME NEW S, NEW s \in Seq(S), s # <<>>
  PROVE  /\ Head(s) \in S /\ Tail(s) \in Seq(S)
         /\ \A q : Has(s, q) <=> Head(s) = q \/ Has(Tail(s), q)
<1>1. /\ Head(s) \in S /\ Tail(s) \in Seq(S) /\ Len(s) \in Nat \ {0}
      /\ Len(Tail(s)) = Len(s) - 1 /\ s[1] = Head(s)
      /\ \A i \in 1..Len(Tail(s)) : Tail(s)[i] = s[i + 1]
  BY HeadTailProperties, LenProperties, EmptySeq
<1>2. DOMAIN s = 1..Len(s) /\ DOMAIN Tail(s) = 1..(Len(s) - 1)
  BY <1>1, LenProperties
<1>3. ASSUME NEW q, Has(s, q), Head(s) # q PROVE Has(Tail(s), q)
  <2>1. PICK i \in 1..Len(s) : s[i] = q
    BY <1>2, <1>3 DEF Has
  <2>2. i - 1 \in 1..(Len(s) - 1) /\ (i - 1) + 1 = i
    BY <1>1, <1>3, <2>1
  <2> QED BY <1>1, <1>2, <2>1, <2>2 DEF Has
<1>4. ASSUME NEW q, Has(Tail(s), q) PROVE Has(s, q)
  <2>1. PICK i \in 1..(Len(s) - 1) : Tail(s)[i] = q
    BY <1>2, <1>4 DEF Has
  <2>2. i + 1 \in 1..Len(s)
    BY <1>1
  <2> QED BY <1>1, <1>2, <2>1, <2>2 DEF Has
<1>5. Has(s, Head(s))
  BY <1>1, <1>2 DEF Has
<1> QED BY <1>1, <1>3, <1>4, <1>5

\* The orders of a finite set hold what is in it.
LEMMA SetToSeqsFacts ==
  ASSUME NEW S, IsFiniteSet(S), NEW s \in SetToSeqs(S)
  PROVE  s \in Seq(S) /\ \A q \in S : Has(s, q)
<1> DEFINE D == 1..Cardinality(S)
<1>1. Cardinality(S) \in Nat
  BY FS_CardinalityType
<1>2. s \in [D -> S] /\ \A i, j \in D : i # j => s[i] # s[j]
  BY DEF SetToSeqs
<1>3. IsFiniteSet(D) /\ Cardinality(D) = Cardinality(S)
  BY <1>1, FS_Interval
<1>4. s \in Injection(D, S)
  BY <1>2 DEF Injection, IsInjective
<1>5. s \in Surjection(D, S)
  BY <1>3, <1>4, FS_Injection
<1>6. \A q \in S : \E i \in D : s[i] = q
  BY <1>5 DEF Surjection
<1>7. s \in Seq(S)
  BY <1>1, <1>2, IsASeq
<1> QED BY <1>2, <1>6, <1>7 DEF Has

-----------------------------------------------------------------------------
(* What the listeners make of the stores.                                   *)

Stores == [Tab -> {Null} \cup TabState]

\* From stores s to n only the contexts of tabs T may come or go, and the URLs, the
\* visibility and so on of the others are what they were.
SameContexts(s, n) == \A x \in Tab : n[x] = Null <=> s[x] = Null
SamePages(s, n) ==
  \A x \in Tab : s[x] # Null => n[x].url = s[x].url /\ n[x].originChanged = s[x].originChanged
SameHidden(s, n) == \A x \in Tab : s[x] # Null => n[x].hidden = s[x].hidden
SameAssessing(s, n) == \A x \in Tab : s[x] # Null => n[x].assessing = s[x].assessing

LEMMA InterpretFacts ==
  ASSUME NEW s \in Stores, NEW t \in Tab, NEW r, s[t] # Null => r \in TabState
  PROVE  /\ Interpret(s, t, r) \in Stores
         /\ SameContexts(s, Interpret(s, t, r))
         /\ s[t] # Null => Interpret(s, t, r)[t] = r
         /\ \A x \in Tab \ {t} : Interpret(s, t, r)[x] = s[x]
BY IdAssumption DEF Interpret, Stores, SameContexts

LEMMA VisibilityFacts ==
  ASSUME NEW s \in Stores, NEW t \in Tab, NEW h \in BOOLEAN
  PROVE  LET n == OnVisibilityChange(s, t, h)
         IN /\ n \in Stores
            /\ SameContexts(s, n) /\ SamePages(s, n) /\ SameAssessing(s, n)
            /\ s[t] # Null => n[t].hidden = h
            /\ \A x \in Tab \ {t} : n[x] = s[x]
<1> DEFINE r == [s[t] EXCEPT !.hidden = h]
<1>1. ASSUME s[t] # Null
      PROVE  /\ r \in TabState /\ r.hidden = h /\ r.url = s[t].url
             /\ r.originChanged = s[t].originChanged /\ r.assessing = s[t].assessing
  <2>1. s[t] \in TabState
    BY <1>1 DEF Stores
  <2> QED BY <2>1 DEF TabState
<1>2. OnVisibilityChange(s, t, h) = Interpret(s, t, r)
  BY DEF OnVisibilityChange
<1> HIDE DEF r
<1> QED BY <1>1, <1>2, InterpretFacts DEF SamePages, SameAssessing

LEMMA ActivatedFacts ==
  ASSUME NEW s \in Stores, NEW t \in Tab
  PROVE  /\ Activated(s, t) \in Stores
         /\ SameContexts(s, Activated(s, t)) /\ SamePages(s, Activated(s, t))
         /\ SameAssessing(s, Activated(s, t))
         /\ s[t] # Null => Activated(s, t)[t].hidden = FALSE
         /\ \A x \in Tab \ {t} : Activated(s, t)[x] = s[x]
BY VisibilityFacts, Zenon DEF Activated

LEMMA NewTabFacts ==
  ASSUME NEW s \in Stores, NEW t \in Tab, NEW url \in Url
  PROVE  LET n == OnNewTabCreated(s, t, url)
         IN /\ n \in Stores
            /\ SameContexts(s, n) /\ SameHidden(s, n) /\ SameAssessing(s, n)
            /\ s[t] # Null => n[t].url = url
            /\ \A x \in Tab \ {t} : n[x] = s[x]
<1> DEFINE r == [s[t] EXCEPT !.url = url, !.originChanged = FALSE]
<1>1. ASSUME s[t] # Null
      PROVE  /\ r \in TabState /\ r.url = url
             /\ r.hidden = s[t].hidden /\ r.assessing = s[t].assessing
  <2>1. s[t] \in TabState
    BY <1>1 DEF Stores
  <2> QED BY <2>1 DEF TabState
<1>2. OnNewTabCreated(s, t, url) = Interpret(s, t, r)
  BY DEF OnNewTabCreated
<1> HIDE DEF r
<1> QED BY <1>1, <1>2, InterpretFacts DEF SameHidden, SameAssessing

LEMMA TabUpdatedFacts ==
  ASSUME NEW s \in Stores, NEW t \in Tab, NEW url \in Url \cup Tab
  PROVE  LET n == OnExistingTabUpdated(s, t, url)
         IN /\ n \in Stores
            /\ SameContexts(s, n) /\ SameHidden(s, n)
            /\ s[t] # Null => /\ n[t].url = url /\ n[t].assessing = FALSE
                              /\ \/ n[t].originChanged
                                 \/ url = s[t].url /\ ~s[t].originChanged
            /\ \A x \in Tab \ {t} : n[x] = s[x]
<1> DEFINE changed == s[t].originChanged \/ url # s[t].url
           r == [s[t] EXCEPT !.originChanged = changed, !.url = url, !.assessing = FALSE,
                             !.scanning = FALSE]
<1>1. OnExistingTabUpdated(s, t, url) = Interpret(s, t, r)
  <2>1. s[t] # Null => s[t] \in TabState
    BY DEF Stores
  <2>2. s[t] # Null => r = [s[t] EXCEPT !.originChanged = @ \/ url # s[t].url,
                                       !.url = url, !.assessing = FALSE, !.scanning = FALSE]
    BY <2>1 DEF TabState
  <2> QED BY <2>2 DEF OnExistingTabUpdated, Interpret
<1>2. ASSUME s[t] # Null
      PROVE  /\ r \in TabState /\ r.url = url /\ r.assessing = FALSE
             /\ r.hidden = s[t].hidden
             /\ r.originChanged \/ (url = s[t].url /\ ~s[t].originChanged)
  <2>1. s[t] \in TabState /\ changed \in BOOLEAN
    BY <1>2 DEF Stores
  <2>2. changed \/ (url = s[t].url /\ ~s[t].originChanged)
    OBVIOUS
  <2> HIDE DEF changed
  <2>3. /\ r \in TabState /\ r.url = url /\ r.assessing = FALSE
        /\ r.hidden = s[t].hidden /\ r.originChanged = changed
    BY <2>1 DEF TabState
  <2>4. r.originChanged \/ (url = s[t].url /\ ~s[t].originChanged)
    BY <2>2, <2>3, Zenon
  <2> QED BY <2>3, <2>4
<1> HIDE DEF r
<1>3. LET n == OnExistingTabUpdated(s, t, url)
      IN /\ n \in Stores
         /\ SameContexts(s, n) /\ SameHidden(s, n)
         /\ s[t] # Null => n[t] = r /\ n[t].url = url /\ n[t].assessing = FALSE
         /\ \A x \in Tab \ {t} : n[x] = s[x]
  <2>1. s[t] # Null =>
          r \in TabState /\ r.url = url /\ r.assessing = FALSE /\ r.hidden = s[t].hidden
    BY <1>2
  <2> QED BY <1>1, <2>1, InterpretFacts DEF SameHidden
<1> QED BY <1>2, <1>3, Zenon

LEMMA EnableFacts ==
  ASSUME NEW s \in Stores, NEW t \in Tab, NEW a \in BOOLEAN, NEW c \in BOOLEAN
  PROVE  LET n == OnEnableTest(s, t, a, c)
         IN /\ n \in Stores
            /\ SameContexts(s, n) /\ SamePages(s, n) /\ SameHidden(s, n)
            /\ s[t] # Null /\ a = FALSE => (n[t].assessing => s[t].assessing)
            /\ \A x \in Tab \ {t} : n[x] = s[x]
<1> DEFINE r == IF s[t].scanning THEN s[t] ELSE [s[t] EXCEPT !.assessing = a, !.scanning = c]
<1>1. ASSUME s[t] # Null
      PROVE  /\ r \in TabState /\ r.url = s[t].url /\ r.hidden = s[t].hidden
             /\ r.originChanged = s[t].originChanged
             /\ r = s[t] \/ r.assessing = a
  <2>1. s[t] \in TabState
    BY <1>1 DEF Stores
  <2> QED BY <2>1 DEF TabState
<1>2. OnEnableTest(s, t, a, c) = Interpret(s, t, r)
  BY DEF OnEnableTest
<1> HIDE DEF r
<1>3. LET n == OnEnableTest(s, t, a, c)
      IN /\ n \in Stores
         /\ SameContexts(s, n) /\ SamePages(s, n) /\ SameHidden(s, n)
         /\ s[t] # Null => n[t] = r
         /\ \A x \in Tab \ {t} : n[x] = s[x]
  <2>1. s[t] # Null => /\ r \in TabState /\ r.url = s[t].url /\ r.hidden = s[t].hidden
                      /\ r.originChanged = s[t].originChanged
    BY <1>1
  <2> QED BY <1>2, <2>1, InterpretFacts DEF SamePages, SameHidden
<1> QED BY <1>1, <1>3, Zenon

LEMMA DisableFacts ==
  ASSUME NEW s \in Stores, NEW t \in Tab
  PROVE  LET n == OnDisableAssessmentVisualizations(s, t)
         IN /\ n \in Stores
            /\ SameContexts(s, n) /\ SamePages(s, n) /\ SameHidden(s, n)
            /\ s[t] # Null => (n[t].assessing => s[t].assessing /\ s[t].scanning)
            /\ \A x \in Tab \ {t} : n[x] = s[x]
<1> DEFINE kept == s[t].assessing /\ s[t].scanning
           r == [s[t] EXCEPT !.assessing = kept]
<1>1. OnDisableAssessmentVisualizations(s, t) = Interpret(s, t, r)
  <2>1. s[t] # Null => s[t] \in TabState
    BY DEF Stores
  <2>2. s[t] # Null => r = [s[t] EXCEPT !.assessing = @ /\ s[t].scanning]
    BY <2>1 DEF TabState
  <2> QED BY <2>2 DEF OnDisableAssessmentVisualizations, Interpret
<1>2. kept \in BOOLEAN /\ (kept => s[t].assessing /\ s[t].scanning)
  OBVIOUS
<1> HIDE DEF kept
<1>3. ASSUME s[t] # Null
      PROVE  /\ r \in TabState /\ r.url = s[t].url /\ r.hidden = s[t].hidden
             /\ r.originChanged = s[t].originChanged /\ r.assessing = kept
  <2>1. s[t] \in TabState
    BY <1>3 DEF Stores
  <2> QED BY <1>2, <2>1 DEF TabState
<1> HIDE DEF r
<1>4. LET n == OnDisableAssessmentVisualizations(s, t)
      IN /\ n \in Stores
         /\ SameContexts(s, n) /\ SamePages(s, n) /\ SameHidden(s, n)
         /\ s[t] # Null => n[t] = r
         /\ \A x \in Tab \ {t} : n[x] = s[x]
  BY <1>1, <1>3, InterpretFacts DEF SamePages, SameHidden
<1>5. s[t] # Null => (r.assessing => s[t].assessing /\ s[t].scanning)
  BY <1>2, <1>3, Zenon
<1> QED BY <1>4, <1>5, Zenon

LEMMA ScanCompletedFacts ==
  ASSUME NEW s \in Stores, NEW t \in Tab
  PROVE  LET n == OnScanCompleted(s, t)
         IN /\ n \in Stores
            /\ SameContexts(s, n) /\ SamePages(s, n) /\ SameHidden(s, n) /\ SameAssessing(s, n)
            /\ \A x \in Tab \ {t} : n[x] = s[x]
<1> DEFINE r == [s[t] EXCEPT !.scanning = FALSE]
<1>1. ASSUME s[t] # Null
      PROVE  /\ r \in TabState /\ r.url = s[t].url /\ r.hidden = s[t].hidden
             /\ r.originChanged = s[t].originChanged /\ r.assessing = s[t].assessing
  <2>1. s[t] \in TabState
    BY <1>1 DEF Stores
  <2> QED BY <2>1 DEF TabState
<1>2. OnScanCompleted(s, t) = Interpret(s, t, r)
  BY DEF OnScanCompleted
<1> HIDE DEF r
<1> QED BY <1>1, <1>2, InterpretFacts DEF SamePages, SameHidden, SameAssessing

LEMMA ClosedFacts ==
  ASSUME NEW s \in Stores, NEW T
  PROVE  LET n == OnDetailsViewsClosed(s, T)
         IN /\ n \in Stores
            /\ SameContexts(s, n) /\ SamePages(s, n) /\ SameHidden(s, n)
            /\ \A x \in Tab : s[x] # Null =>
                 (n[x].assessing => s[x].assessing /\ (x \notin T \/ s[x].scanning))
            /\ \A x \in Tab \ T : n[x] = s[x]
<1> DEFINE n == OnDetailsViewsClosed(s, T)
           d(t) == OnDisableAssessmentVisualizations(s, t)
<1>1. ASSUME NEW t \in Tab
      PROVE  /\ d(t)[t] \in {Null} \cup TabState
             /\ d(t)[t] = Null <=> s[t] = Null
             /\ s[t] # Null => /\ d(t)[t].url = s[t].url /\ d(t)[t].hidden = s[t].hidden
                               /\ d(t)[t].originChanged = s[t].originChanged
  <2> DEFINE m == d(t)
  <2>1. m \in Stores /\ SameContexts(s, m) /\ SamePages(s, m) /\ SameHidden(s, m)
    BY DisableFacts, Zenon
  <2> HIDE DEF m
  <2>2. /\ m[t] \in {Null} \cup TabState
        /\ m[t] = Null <=> s[t] = Null
        /\ s[t] # Null => /\ m[t].url = s[t].url /\ m[t].hidden = s[t].hidden
                          /\ m[t].originChanged = s[t].originChanged
    BY <2>1 DEF Stores, SameContexts, SamePages, SameHidden
  <2> QED BY <2>2 DEF m
<1>2. \A t \in Tab : s[t] # Null => (d(t)[t].assessing => s[t].assessing /\ s[t].scanning)
  BY DisableFacts, Zenon
<1>3. n = [t \in Tab |-> IF t \in T THEN d(t)[t] ELSE s[t]]
  BY DEF OnDetailsViewsClosed
<1> HIDE DEF d, n
<1>4. /\ \A t \in Tab : n[t] = IF t \in T THEN d(t)[t] ELSE s[t]
      /\ n = [t \in Tab |-> n[t]]
  BY <1>3
<1>5. n \in Stores
  <2>1. \A t \in Tab : s[t] \in {Null} \cup TabState
    BY DEF Stores
  <2>2. \A t \in Tab : n[t] \in {Null} \cup TabState
    BY <1>1, <1>4, <2>1
  <2> QED BY <1>4, <2>2 DEF Stores
<1>6. \A x \in Tab : s[x] # Null =>
        (n[x].assessing => s[x].assessing /\ (x \notin T \/ s[x].scanning))
  BY <1>2, <1>4, Zenon
<1>7. SameContexts(s, n) /\ SamePages(s, n) /\ SameHidden(s, n)
  BY <1>1, <1>4 DEF SameContexts, SamePages, SameHidden
<1>8. \A x \in Tab \ T : n[x] = s[x]
  BY <1>4
<1> QED BY <1>5, <1>6, <1>7, <1>8 DEF n

LEMMA UrlUpdatedFacts ==
  ASSUME NEW s \in Stores, NEW t \in Tab
  PROVE  LET n == UrlUpdated(s, t)
         IN /\ n \in Stores /\ n[t] # Null
            /\ s[t] # Null => n = s
            /\ s[t] = Null => n[t].hidden = FALSE /\ n[t].assessing = FALSE
            /\ \A x \in Tab \ {t} : n[x] = s[x]
<1>1. /\ DefaultState \in TabState /\ DefaultState.hidden = FALSE
      /\ DefaultState.assessing = FALSE
  BY DEF DefaultState, TabState
<1> QED BY <1>1, IdAssumption DEF UrlUpdated, Stores

\* Several tabs are told at once that they are hidden.
LEMMA HideFacts ==
  ASSUME NEW s \in Stores, NEW T,
         NEW n, n = [t \in Tab |-> IF t \in T THEN OnVisibilityChange(s, t, TRUE)[t] ELSE s[t]]
  PROVE  /\ n \in Stores
         /\ SameContexts(s, n) /\ SamePages(s, n) /\ SameAssessing(s, n)
         /\ \A x \in Tab \ T : n[x] = s[x]
<1>1. ASSUME NEW x \in Tab
      PROVE  /\ n[x] \in {Null} \cup TabState
             /\ n[x] = Null <=> s[x] = Null
             /\ s[x] # Null => /\ n[x].url = s[x].url /\ n[x].originChanged = s[x].originChanged
                               /\ n[x].assessing = s[x].assessing
             /\ x \notin T => n[x] = s[x]
  <2> DEFINE v == OnVisibilityChange(s, x, TRUE)
  <2>1. n[x] = IF x \in T THEN v[x] ELSE s[x]
    OBVIOUS
  <2>2. /\ v \in Stores
        /\ v[x] = Null <=> s[x] = Null
        /\ s[x] # Null => /\ v[x].url = s[x].url /\ v[x].originChanged = s[x].originChanged
                          /\ v[x].assessing = s[x].assessing
    <3>1. v \in Stores /\ SameContexts(s, v) /\ SamePages(s, v) /\ SameAssessing(s, v)
      BY VisibilityFacts, Zenon
    <3> HIDE DEF v
    <3> QED BY <3>1 DEF SameContexts, SamePages, SameAssessing
  <2> HIDE DEF v
  <2> QED BY <2>1, <2>2 DEF Stores
<1>2. n = [x \in Tab |-> n[x]]
  OBVIOUS
<1> QED BY <1>1, <1>2 DEF Stores, SameContexts, SamePages, SameAssessing

-----------------------------------------------------------------------------
(* What is asked.                                                           *)

LEMMA IsRequest ==
  /\ \A t \in Tab : GetTab(t) \in Request /\ NewWindow(t) \in Request /\ SwitchTo(t) \in Request
  /\ \A w \in Window : TabsOfWindow(w) \in Request /\ FocusWindow(w) \in Request
  /\ \A w \in Window, h \in BOOLEAN : ActiveTabs(w, h) \in Request
  /\ AllWindows \in Request
BY DEF Request, GetTab, NewWindow, SwitchTo, TabsOfWindow, FocusWindow, ActiveTabs, AllWindows

LEMMA RequestFields ==
  /\ AllWindows.ask = "windows"
  /\ \A t : /\ GetTab(t).ask = "tab" /\ GetTab(t).tab = t
            /\ NewWindow(t).ask = "newWindow" /\ NewWindow(t).tab = t
            /\ SwitchTo(t).ask = "switchTo" /\ SwitchTo(t).tab = t
  /\ \A w : /\ TabsOfWindow(w).ask = "tabsOf" /\ TabsOfWindow(w).window = w
            /\ FocusWindow(w).ask = "focus" /\ FocusWindow(w).window = w
  /\ \A w, h : /\ ActiveTabs(w, h).ask = "activeTabs"
               /\ ActiveTabs(w, h).window = w /\ ActiveTabs(w, h).hidden = h
BY DEF GetTab, NewWindow, SwitchTo, TabsOfWindow, FocusWindow, ActiveTabs, AllWindows

LEMMA HeadFacts ==
  ASSUME NEW q \in Request
  PROVE  /\ q.ask = "tabsOf" => q.window \in Window /\ q = TabsOfWindow(q.window)
         /\ q.ask = "windows" => q = AllWindows
         /\ q.ask = "activeTabs" => /\ q.window \in Window /\ q.hidden \in BOOLEAN
                                    /\ q = ActiveTabs(q.window, q.hidden)
         /\ q.ask = "tab" => q.tab \in Tab /\ q = GetTab(q.tab)
         /\ q.ask = "newWindow" => q.tab \in Tab /\ q = NewWindow(q.tab)
         /\ q.ask = "switchTo" => q.tab \in Tab /\ q = SwitchTo(q.tab)
         /\ q.ask = "focus" => q.window \in Window /\ q = FocusWindow(q.window)
BY DEF Request, GetTab, NewWindow, SwitchTo, TabsOfWindow, FocusWindow, ActiveTabs, AllWindows

LEMMA ShortFacts ==
  /\ \A q : ~Has(<<>>, q)
  /\ \A a, q : Has(<<a>>, q) <=> q = a
  /\ \A a, b, q : Has(<<a, b>>, q) <=> q = a \/ q = b
  /\ \A a, b, c, q : Has(<<a, b, c>>, q) <=> q = a \/ q = b \/ q = c
BY DEF Has

LEMMA More ==
  ASSUME NEW s \in Seq(Request), NEW more \in Seq(Request), requests' = s \o more
  PROVE  /\ requests' \in Seq(Request)
         /\ \A q : Has(requests', q) <=> Has(s, q) \/ Has(more, q)
BY ConcatFacts

LEMMA MoreRequests ==
  ASSUME NEW s \in Seq(Request)
  PROVE  /\ requests' = s \o <<>> =>
              /\ requests' \in Seq(Request)
              /\ \A q : Has(requests', q) <=> Has(s, q)
         /\ \A a \in Request : requests' = s \o <<a>> =>
              /\ requests' \in Seq(Request)
              /\ \A q : Has(requests', q) <=> Has(s, q) \/ q = a
         /\ \A a, b \in Request : requests' = s \o <<a, b>> =>
              /\ requests' \in Seq(Request)
              /\ \A q : Has(requests', q) <=> Has(s, q) \/ q = a \/ q = b
         /\ \A a, b, c \in Request : requests' = s \o <<a, b, c>> =>
              /\ requests' \in Seq(Request)
              /\ \A q : Has(requests', q) <=> Has(s, q) \/ q = a \/ q = b \/ q = c
<1>1. ASSUME requests' = s \o <<>>
      PROVE  requests' \in Seq(Request) /\ \A q : Has(requests', q) <=> Has(s, q)
  <2>1. <<>> \in Seq(Request)
    OBVIOUS
  <2> QED BY <1>1, <2>1, More, ShortFacts
<1>2. ASSUME NEW a \in Request, requests' = s \o <<a>>
      PROVE  requests' \in Seq(Request) /\ \A q : Has(requests', q) <=> Has(s, q) \/ q = a
  <2>1. <<a>> \in Seq(Request)
    OBVIOUS
  <2>2. /\ requests' \in Seq(Request)
        /\ \A q : Has(requests', q) <=> Has(s, q) \/ Has(<<a>>, q)
    BY <1>2, <2>1, More
  <2> QED BY <2>2, ShortFacts
<1>3. ASSUME NEW a \in Request, NEW b \in Request, requests' = s \o <<a, b>>
      PROVE  requests' \in Seq(Request) /\ \A q : Has(requests', q) <=> Has(s, q) \/ q = a \/ q = b
  <2>1. <<a, b>> \in Seq(Request)
    OBVIOUS
  <2>2. /\ requests' \in Seq(Request)
        /\ \A q : Has(requests', q) <=> Has(s, q) \/ Has(<<a, b>>, q)
    BY <1>3, <2>1, More
  <2> QED BY <2>2, ShortFacts
<1>4. ASSUME NEW a \in Request, NEW b \in Request, NEW c \in Request,
             requests' = s \o <<a, b, c>>
      PROVE  /\ requests' \in Seq(Request)
             /\ \A q : Has(requests', q) <=> Has(s, q) \/ q = a \/ q = b \/ q = c
  <2>1. <<a, b, c>> \in Seq(Request)
    OBVIOUS
  <2>2. /\ requests' \in Seq(Request)
        /\ \A q : Has(requests', q) <=> Has(s, q) \/ Has(<<a, b, c>>, q)
    BY <1>4, <2>1, More
  <2> QED BY <2>2, ShortFacts
<1> QED BY <1>1, <1>2, <1>3, <1>4

\* Questions that are asked are put last.
LEMMA AskFacts ==
  ASSUME requests \in Seq(Request)
  PROVE  /\ \A a \in Request : Ask(<<a>>) =>
              /\ requests' \in Seq(Request)
              /\ \A q : Has(requests', q) <=> Has(requests, q) \/ q = a
         /\ \A a, b \in Request : Ask(<<a, b>>) =>
              /\ requests' \in Seq(Request)
              /\ \A q : Has(requests', q) <=> Has(requests, q) \/ q = a \/ q = b
BY MoreRequests DEF Ask

\* The oldest question is answered, which may lead to others.
LEMMA AnswerFacts ==
  ASSUME requests \in Seq(Request), requests # <<>>
  PROVE  /\ Head(requests) \in Request /\ Tail(requests) \in Seq(Request)
         /\ \A q : Has(requests, q) <=> Head(requests) = q \/ Has(Tail(requests), q)
         /\ Answered(<<>>) =>
              /\ requests' \in Seq(Request)
              /\ \A q : Has(requests', q) <=> Has(Tail(requests), q)
         /\ \A a \in Request : Answered(<<a>>) =>
              /\ requests' \in Seq(Request)
              /\ \A q : Has(requests', q) <=> Has(Tail(requests), q) \/ q = a
         /\ \A a, b \in Request : Answered(<<a, b>>) =>
              /\ requests' \in Seq(Request)
              /\ \A q : Has(requests', q) <=> Has(Tail(requests), q) \/ q = a \/ q = b
         /\ \A a, b, c \in Request : Answered(<<a, b, c>>) =>
              /\ requests' \in Seq(Request)
              /\ \A q : Has(requests', q) <=> Has(Tail(requests), q) \/ q = a \/ q = b \/ q = c
<1>1. /\ Head(requests) \in Request /\ Tail(requests) \in Seq(Request)
      /\ \A q : Has(requests, q) <=> Head(requests) = q \/ Has(Tail(requests), q)
  BY TailFacts
<1> QED BY <1>1, MoreRequests DEF Answered

-----------------------------------------------------------------------------
(* The invariant.                                                           *)

\* The ids and the shape of what the browser and the contexts hold.
Registers ==
  /\ spare \subseteq Tab /\ strayed \subseteq Tab /\ misled \subseteq Tab /\ held \subseteq Tab
  /\ madeFor \in [Tab -> Tab \cup {Null}]
  /\ place \in [Tab -> Window \cup {Null}]
  /\ page \in [Tab -> Url \cup Tab \cup {Null}]
  /\ popup = Null \/ popup \in [tab : Tab, url : Url]
  /\ detailsView \in [Tab -> Tab \cup {Null}]

Activity ==
  /\ active \in [Window -> Tab \cup {Null}]
  /\ minimized \in [Window -> BOOLEAN]
  /\ \A w \in Window : IF TabsOf(w) = {} THEN active[w] = Null ELSE active[w] \in TabsOf(w)
  /\ IsFiniteSet(OpenWindow)
  /\ spare \cap Open = {}

Contexts ==
  /\ store \in Stores
  /\ \A t \in Tab : store[t] # Null <=> t \in Open
  /\ \A t \in Tab : page[t] = Null <=> t \notin Open

Shape == Registers /\ Activity /\ Contexts /\ requests \in Seq(Request)

LEMMA ShapeIsType == Shape => TabTypeOK
<1> SUFFICES ASSUME Shape PROVE TabTypeOK
  OBVIOUS
<1>1. minimized \in [Window -> BOOLEAN]
  BY DEF Shape, Activity
<1> QED BY <1>1, Zenon DEF Shape, Registers, Activity, Contexts, Stores, TabTypeOK

\* The first requests are in some order.
LEMMA InitRequests ==
  ASSUME TabInit
  PROVE  requests \in Seq(Request) /\ \A q : Has(requests, q) <=> \E t \in FirstTab : q = GetTab(t)
<1> DEFINE S == {GetTab(t) : t \in FirstTab}
           f == [t \in FirstTab |-> GetTab(t)]
<1>1. f \in Surjection(FirstTab, S)
  BY DEF Surjection
<1>2. IsFiniteSet(S)
  BY <1>1, FS_Surjection, FirstAssumption
<1>3. requests \in SetToSeqs(S)
  BY DEF TabInit
<1>4. requests \in Seq(S) /\ \A q \in S : Has(requests, q)
  BY <1>2, <1>3, SetToSeqsFacts
<1>5. S \subseteq Request
  BY IsRequest, FirstAssumption
<1>6. \A i \in DOMAIN requests : requests[i] \in S
  BY <1>4, ElementOfSeq
<1>7. requests \in Seq(Request)
  BY <1>4, <1>5, SeqMonotonic
<1> QED BY <1>4, <1>6, <1>7 DEF Has

LEMMA InitShape ==
  ASSUME TabInit
  PROVE  Shape
<1>1. Registers
  BY FirstAssumption DEF TabInit, Registers
<1>2. active \in [Window -> Tab \cup {Null}] /\ OpenWindow = {FirstWindow}
  BY FirstAssumption, IdAssumption DEF TabInit, OpenWindow
<1>3. \A w \in Window : IF TabsOf(w) = {} THEN active[w] = Null ELSE active[w] \in TabsOf(w)
  BY FirstAssumption, IdAssumption DEF TabInit, TabsOf
<1>4. minimized \in [Window -> BOOLEAN]
  BY DEF TabInit
<1>5. IsFiniteSet(OpenWindow)
  BY <1>2, FS_Singleton
<1>6. Contexts
  <2>1. DefaultState \in TabState
    BY DEF DefaultState, TabState
  <2> QED BY <2>1, FirstAssumption, IdAssumption DEF TabInit, Contexts, Stores, Open
<1>7. spare \cap Open = {}
  BY DEF TabInit, Open
<1> QED BY <1>1, <1>2, <1>3, <1>4, <1>5, <1>6, <1>7, InitRequests DEF Shape, Activity

LEMMA OpenWindowsAsked ==
  ASSUME Activity, NEW more \in SetToSeqs({ActiveTabs(w, minimized[w]) : w \in OpenWindow})
  PROVE  /\ more \in Seq(Request)
         /\ \A q : Has(more, q) <=> \E w \in OpenWindow : q = ActiveTabs(w, minimized[w])
<1> DEFINE S == {ActiveTabs(w, minimized[w]) : w \in OpenWindow}
           f == [w \in OpenWindow |-> ActiveTabs(w, minimized[w])]
<1>1. f \in Surjection(OpenWindow, S)
  BY DEF Surjection
<1>2. IsFiniteSet(S)
  BY <1>1, FS_Surjection DEF Activity
<1>3. more \in Seq(S) /\ \A q \in S : Has(more, q)
  BY <1>2, SetToSeqsFacts
<1>4. S \subseteq Request
  BY IsRequest DEF Activity, OpenWindow
<1>5. \A i \in DOMAIN more : more[i] \in S
  BY <1>3, ElementOfSeq
<1>6. more \in Seq(Request)
  BY <1>3, <1>4, SeqMonotonic
<1> QED BY <1>3, <1>5, <1>6 DEF Has

LEMMA WindowsStayFinite ==
  ASSUME Activity, NEW w, OpenWindow' \subseteq OpenWindow \cup {w}
  PROVE  IsFiniteSet(OpenWindow)'
<1>1. IsFiniteSet(OpenWindow \cup {w})
  BY FS_AddElement DEF Activity
<1> QED BY <1>1, FS_Subset

\* Where neither the tabs of the windows nor the active ones change.
LEMMA ActivityStays ==
  ASSUME Activity, UNCHANGED <<spare, place, active>>, minimized' \in [Window -> BOOLEAN]
  PROVE  Activity'
BY DEF Activity, TabsOf, OpenWindow, Open

\* Where no tab is opened or closed.
LEMMA ContextsStay ==
  ASSUME Contexts, store' \in Stores, SameContexts(store, store'), UNCHANGED <<place, page>>
  PROVE  Contexts'
BY DEF Contexts, SameContexts, Open

LEMMA OpenTabShape ==
  ASSUME Shape, NEW t \in Tab, NEW w \in Window, NEW u \in Url, OpenTab(t, w, u)
  PROVE  Shape'
<1>1. Registers'
  BY DEF Shape, Registers, OpenTab
<1>2. Activity'
  <2>1. t \in spare /\ spare' = spare \ {t} /\ place' = [place EXCEPT ![t] = w] /\ minimized' = minimized
        /\ active[w] # Null /\ (active' = active \/ active' = [active EXCEPT ![w] = t])
    BY DEF OpenTab
  <2>2. /\ \A v \in Window : TabsOf(v)' = IF v = w THEN TabsOf(v) \cup {t} ELSE TabsOf(v)
        /\ Open' = Open \cup {t}
    BY <2>1, IdAssumption DEF Shape, Activity, Registers, TabsOf, Open
  <2>3. OpenWindow' = OpenWindow
    BY <2>1, IdAssumption DEF Shape, Activity, OpenWindow
  <2> QED BY <2>1, <2>2, <2>3, IdAssumption DEF Shape, Activity, Registers
<1>3. Contexts'
  <2>1. /\ t \in spare /\ place' = [place EXCEPT ![t] = w] /\ page' = [page EXCEPT ![t] = u]
        /\ store' = UrlUpdated(store, t)
    BY DEF OpenTab
  <2>2. store' \in Stores /\ store'[t] # Null /\ \A x \in Tab \ {t} : store'[x] = store[x]
    BY <2>1, UrlUpdatedFacts DEF Shape, Contexts
  <2> QED BY <2>1, <2>2, IdAssumption DEF Shape, Contexts, Registers, Open
<1>4. requests' \in Seq(Request)
  <2>1. Ask(<<GetTab(t)>>) \/ Ask(<<TabsOfWindow(w), GetTab(t)>>)
    BY DEF OpenTab
  <2> QED BY <2>1, AskFacts, IsRequest DEF Shape
<1> QED BY <1>1, <1>2, <1>3, <1>4 DEF Shape

LEMMA ActivateTabShape ==
  ASSUME Shape, NEW t \in Tab, ActivateTab(t)
  PROVE  Shape'
<1>1. Registers'
  BY DEF Shape, Registers, ActivateTab
<1>2. t \in Open /\ place[t] \in Window
  BY DEF ActivateTab, Shape, Registers, Open
<1>3. Activity'
  <2>1. active' = [active EXCEPT ![place[t]] = t] /\ UNCHANGED <<spare, place, minimized>>
    BY DEF ActivateTab
  <2>2. /\ \A v \in Window : TabsOf(v)' = TabsOf(v)
        /\ Open' = Open
    BY <2>1 DEF TabsOf, Open
  <2>3. t \in TabsOf(place[t])
    BY DEF TabsOf
  <2>4. OpenWindow' \subseteq OpenWindow \cup {place[t]}
    BY <2>1 DEF Shape, Activity, OpenWindow
  <2> QED BY <1>2, <2>1, <2>2, <2>3, <2>4, WindowsStayFinite DEF Shape, Activity
<1>4. Contexts'
  BY VisibilityFacts, ContextsStay DEF ActivateTab, Activated, Shape, Contexts
<1>5. requests' \in Seq(Request)
  BY <1>2, AskFacts, IsRequest DEF ActivateTab, Shape
<1> QED BY <1>1, <1>3, <1>4, <1>5 DEF Shape

LEMMA ToggleWindowShape ==
  ASSUME Shape, NEW w \in Window, ToggleWindow(w)
  PROVE  Shape'
<1>1. Registers'
  BY DEF Shape, Registers, ToggleWindow
<1>2. minimized' \in [Window -> BOOLEAN]
  BY DEF ToggleWindow, Shape, Activity
<1>3. Activity'
  BY <1>2, ActivityStays DEF ToggleWindow, Shape
<1>4. Contexts'
  BY DEF ToggleWindow, Shape, Contexts, Open
<1>5. requests' \in Seq(Request)
  BY AskFacts, IsRequest DEF ToggleWindow, Shape
<1> QED BY <1>1, <1>3, <1>4, <1>5 DEF Shape

LEMMA NavigateShape ==
  ASSUME Shape, NEW t \in Tab, NEW p \in Url \cup Target, Navigate(t, p)
  PROVE  Shape'
<1>1. p \in Url \cup Tab
  BY FirstAssumption
<1>2. Registers'
  <2>1. held' \subseteq Tab
    BY DEF Navigate, Scanned, TargetOf, Shape, Registers
  <2>2. /\ detailsView' \in [Tab -> Tab \cup {Null}] /\ page' = [page EXCEPT ![t] = p]
        /\ strayed' = strayed \cup ({p} \cap Tab)
        /\ UNCHANGED <<spare, madeFor, place, popup, misled>>
    BY DEF Navigate, Forget, Shape, Registers
  <2> QED BY <1>1, <2>1, <2>2 DEF Shape, Registers
<1>3. Activity'
  BY ActivityStays DEF Navigate, Shape, Activity
<1>4. Contexts'
  <2>1. PICK T : store' = UrlUpdated(OnDetailsViewsClosed(store, T), t)
    BY DEF Navigate
  <2>2. OnDetailsViewsClosed(store, T) \in Stores /\ SameContexts(store, OnDetailsViewsClosed(store, T))
    BY ClosedFacts DEF Shape, Contexts
  <2>3. t \in Open /\ UNCHANGED place /\ page' = [page EXCEPT ![t] = p]
    BY DEF Navigate
  <2>4. store' = OnDetailsViewsClosed(store, T)
    BY <2>1, <2>2, <2>3, UrlUpdatedFacts DEF SameContexts, Shape, Contexts
  <2> QED BY <1>1, <2>2, <2>3, <2>4, IdAssumption DEF Shape, Contexts, SameContexts, Open, Registers
<1>5. requests' \in Seq(Request)
  BY AskFacts, IsRequest DEF Navigate, Shape
<1> QED BY <1>2, <1>3, <1>4, <1>5 DEF Shape

LEMMA LoadTabShape ==
  ASSUME Shape, NEW t \in Tab, LoadTab(t)
  PROVE  Shape' /\ store' = store
<1>1. store' = store
  <2>1. store[t] # Null /\ store \in Stores
    BY DEF LoadTab, Shape, Contexts
  <2> QED BY <2>1, UrlUpdatedFacts DEF LoadTab
<1>2. Registers' /\ Contexts'
  BY <1>1 DEF LoadTab, browserVars, Shape, Registers, Contexts, Open
<1>3. Activity'
  BY ActivityStays DEF LoadTab, browserVars, Shape, Activity
<1>4. requests' \in Seq(Request)
  BY AskFacts, IsRequest DEF LoadTab, Shape
<1> QED BY <1>1, <1>2, <1>3, <1>4 DEF Shape

\* What becomes of the contexts when tab t goes, and n, if any, takes its place.
LEMMA RemoveTabStore ==
  ASSUME Shape, NEW t \in Tab, RemoveTab(t)
  PROVE  /\ store' \in Stores /\ store'[t] = Null
         /\ \A x \in Tab \ {t} :
              /\ store'[x] = Null <=> store[x] = Null
              /\ store[x] # Null =>
                   /\ store'[x].url = store[x].url
                   /\ store'[x].originChanged = store[x].originChanged
                   /\ store'[x].assessing =>
                        store[x].assessing /\ (x \notin ClosedBy(t) \/ store[x].scanning)
                   /\ store'[x].hidden = store[x].hidden
                        \/ (active[place[t]] = t /\ active'[place[t]] = x /\ store'[x].hidden = FALSE)
<1> DEFINE closed == OnDetailsViewsClosed(store, ClosedBy(t))
           told == [closed EXCEPT ![t] = Null]
<1>1. /\ closed \in Stores
      /\ \A x \in Tab : closed[x] = Null <=> store[x] = Null
      /\ \A x \in Tab : store[x] # Null =>
           /\ closed[x].url = store[x].url
           /\ closed[x].originChanged = store[x].originChanged
           /\ closed[x].hidden = store[x].hidden
  <2>1. /\ closed \in Stores /\ SameContexts(store, closed) /\ SamePages(store, closed)
        /\ SameHidden(store, closed)
    BY ClosedFacts DEF Shape, Contexts
  <2> HIDE DEF closed
  <2> QED BY <2>1 DEF SameContexts, SamePages, SameHidden
<1>2. \A x \in Tab : store[x] # Null =>
        (closed[x].assessing => store[x].assessing /\ (x \notin ClosedBy(t) \/ store[x].scanning))
  BY ClosedFacts DEF Shape, Contexts
<1>3. \/ store' = told
      \/ \E n \in TabsOf(place[t]) \ {t} : /\ active[place[t]] = t
                                           /\ active' = [active EXCEPT ![place[t]] = n]
                                           /\ store' = Activated(told, n)
  BY DEF RemoveTab
<1> HIDE DEF closed
<1>4. told \in Stores /\ told[t] = Null /\ \A x \in Tab \ {t} : told[x] = closed[x]
  BY <1>1 DEF Stores
<1> HIDE DEF told
<1>5. CASE store' = told
  BY <1>1, <1>2, <1>4, <1>5
<1>6. ASSUME NEW n \in TabsOf(place[t]) \ {t}, active[place[t]] = t,
             active' = [active EXCEPT ![place[t]] = n], store' = Activated(told, n)
      PROVE  /\ store' \in Stores /\ store'[t] = Null
             /\ \A x \in Tab \ {t} :
                  /\ store'[x] = Null <=> store[x] = Null
                  /\ store[x] # Null =>
                       /\ store'[x].url = store[x].url
                       /\ store'[x].originChanged = store[x].originChanged
                       /\ store'[x].assessing = closed[x].assessing
                       /\ store'[x].hidden = store[x].hidden
                            \/ (active'[place[t]] = x /\ store'[x].hidden = FALSE)
  <2>1. n \in Tab \ {t}
    BY <1>6 DEF TabsOf
  <2>2. /\ store' \in Stores
        /\ SameContexts(told, store') /\ SamePages(told, store') /\ SameAssessing(told, store')
        /\ told[n] # Null => store'[n].hidden = FALSE
        /\ \A x \in Tab \ {n} : store'[x] = told[x]
    BY <1>4, <1>6, <2>1, ActivatedFacts
  <2>3. place[t] \in Window
    BY DEF RemoveTab, Open, Shape, Registers
  <2>4. active'[place[t]] = n
    BY <1>6, <2>3 DEF Shape, Activity
  <2> QED BY <1>1, <1>4, <2>1, <2>2, <2>4 DEF SameContexts, SamePages, SameAssessing
<1> QED BY <1>2, <1>3, <1>5, <1>6

LEMMA RemoveTabShape ==
  ASSUME Shape, NEW t \in Tab, RemoveTab(t)
  PROVE  Shape'
<1>1. PICK w \in Window : w = place[t]
  BY DEF RemoveTab, Open, Shape, Registers
<1>2. /\ place' = [place EXCEPT ![t] = Null] /\ page' = [page EXCEPT ![t] = Null]
      /\ t \in Open /\ spare' = spare
  BY DEF RemoveTab
<1>3. Registers'
  <2>1. /\ detailsView' \in [Tab -> Tab \cup {Null}]
        /\ popup' = Null \/ popup' = popup
    BY DEF RemoveTab, Forget, Shape, Registers
  <2>2. held' \subseteq Tab
    BY DEF RemoveTab, Scanned, ClosedBy, TargetOf, Shape, Registers
  <2>3. misled' \subseteq Tab /\ UNCHANGED <<madeFor, strayed>>
    BY DEF RemoveTab, Shape, Registers
  <2> QED BY <1>2, <2>1, <2>2, <2>3 DEF Shape, Registers
<1>4. /\ \A v \in Window : TabsOf(v)' = TabsOf(v) \ {t}
      /\ \A v \in Window \ {w} : TabsOf(v)' = TabsOf(v)
      /\ Open' = Open \ {t}
  BY <1>1, <1>2, IdAssumption DEF Shape, Registers, TabsOf, Open
<1>5. Activity'
  <2>1. \/ active[w] # t /\ UNCHANGED <<active, minimized>>
        \/ /\ active[w] = t /\ TabsOf(w) = {t}
           /\ active' = [active EXCEPT ![w] = Null]
           /\ minimized' = [minimized EXCEPT ![w] = FALSE]
        \/ /\ active[w] = t /\ minimized' = minimized
           /\ \E n \in TabsOf(w) \ {t} : active' = [active EXCEPT ![w] = n]
    BY <1>1 DEF RemoveTab
  <2>2. minimized' \in [Window -> BOOLEAN]
    BY <2>1 DEF Shape, Activity
  <2>3. active' \in [Window -> Tab \cup {Null}]
    BY <2>1 DEF Shape, Activity, TabsOf
  <2>4. \A v \in Window \ {w} : active'[v] = active[v]
    BY <2>1 DEF Shape, Activity
  <2>5. t \in TabsOf(w)
    BY <1>1 DEF TabsOf
  <2>6. IF TabsOf(w)' = {} THEN active'[w] = Null ELSE active'[w] \in TabsOf(w)'
    <3>1. CASE active[w] # t /\ UNCHANGED <<active, minimized>>
      BY <1>2, <1>4, <2>5, <3>1 DEF Shape, Activity
    <3>2. CASE active[w] = t /\ TabsOf(w) = {t} /\ active' = [active EXCEPT ![w] = Null]
      BY <1>2, <1>4, <3>2 DEF Shape, Activity
    <3>3. CASE \E n \in TabsOf(w) \ {t} : active' = [active EXCEPT ![w] = n]
      BY <1>2, <1>4, <3>3 DEF Shape, Activity
    <3> QED BY <2>1, <3>1, <3>2, <3>3
  <2>7. IsFiniteSet(OpenWindow)'
    <3>1. OpenWindow' \subseteq OpenWindow \cup {w}
      BY <2>4 DEF OpenWindow
    <3> QED BY <3>1, WindowsStayFinite DEF Shape
  <2>8. spare' \cap Open' = {}
    BY <1>2, <1>4 DEF Shape, Activity
  <2>9. \A v \in Window : IF TabsOf(v)' = {} THEN active'[v] = Null ELSE active'[v] \in TabsOf(v)'
    BY <1>4, <2>4, <2>6 DEF Shape, Activity
  <2> QED BY <2>2, <2>3, <2>7, <2>8, <2>9 DEF Activity
<1>6. Contexts'
  <2>1. /\ store' \in Stores /\ store'[t] = Null
        /\ \A x \in Tab \ {t} : store'[x] = Null <=> store[x] = Null
    BY RemoveTabStore, Zenon
  <2> QED BY <1>2, <1>4, <2>1 DEF Shape, Contexts, Registers
<1>7. requests' \in Seq(Request)
  <2>1. Ask(<<AllWindows>>) \/ Ask(<<TabsOfWindow(w)>>) \/ requests' = requests
    BY <1>1 DEF RemoveTab
  <2> QED BY <1>2, <2>1, AskFacts, IsRequest DEF Shape
<1> QED BY <1>3, <1>5, <1>6, <1>7 DEF Shape

LEMMA OpenPopupShape ==
  ASSUME Shape, NEW t \in Tab, OpenPopup(t)
  PROVE  Shape'
<1>1. Registers'
  <2>1. popup' \in [tab : Tab, url : Url]
    BY DEF OpenPopup
  <2>2. UNCHANGED <<spare, strayed, misled, held, madeFor, place, page, detailsView>>
    BY DEF OpenPopup, contextVars
  <2> QED BY <2>1, <2>2 DEF Shape, Registers
<1>2. Activity'
  BY ActivityStays DEF Shape, Activity, OpenPopup
<1> QED BY <1>1, <1>2 DEF OpenPopup, contextVars, Shape, Contexts, Open

LEMMA PopupInitializedShape ==
  ASSUME Shape, PopupInitialized
  PROVE  Shape'
<1>1. popup.tab \in Tab /\ popup.url \in Url
  BY DEF PopupInitialized, Shape, Registers
<1>2. Registers'
  BY <1>1 DEF Shape, Registers, PopupInitialized
<1>3. Activity'
  BY ActivityStays DEF Shape, Activity, PopupInitialized
<1>4. Contexts'
  BY <1>1, NewTabFacts, ContextsStay DEF PopupInitialized, Shape, Contexts
<1> QED BY <1>2, <1>3, <1>4 DEF PopupInitialized, Shape

\* Steps that change no more than the tests of tab t.
TestStep(t) ==
  EnableAssessment(t) \/ EnableAdhocTest(t) \/ DisableAssessments(t) \/ CompleteScan(t)

\* No assessment is turned on, and what was held by a scan is as long as it is on.
NoMoreAssessed ==
  /\ \A x \in Tab : store[x] # Null => (store'[x].assessing => store[x].assessing)
  /\ held' = {x \in held : store'[x].assessing} \/ held' = held

LEMMA TestStepFacts ==
  ASSUME Shape, NEW t \in Tab, TestStep(t)
  PROVE  /\ UNCHANGED <<browserVars, detailsView, strayed, misled>>
         /\ UNCHANGED requests \/ Ask(<<SwitchTo(t)>>)
         /\ store' \in Stores
         /\ SameContexts(store, store') /\ SamePages(store, store') /\ SameHidden(store, store')
         /\ \A x \in Tab \ {t} : store'[x] = store[x]
         /\ ~EnableAssessment(t) => NoMoreAssessed
         /\ EnableAssessment(t) => held' = held
<1>1. store \in Stores /\ \A x \in Tab : store[x] # Null <=> x \in Open
  BY DEF Shape, Contexts
<1>2. /\ UNCHANGED <<browserVars, detailsView, strayed, misled>>
      /\ UNCHANGED requests \/ Ask(<<SwitchTo(t)>>)
  BY DEF TestStep, EnableAssessment, EnableAdhocTest, DisableAssessments, CompleteScan
<1>3. CASE EnableAssessment(t)
  <2>1. PICK c \in BOOLEAN : store' = OnEnableTest(store, t, TRUE, c)
    BY <1>3 DEF EnableAssessment
  <2>2. PICK a \in BOOLEAN : a = TRUE
    OBVIOUS
  <2>3. store' = OnEnableTest(store, t, a, c)
    BY <2>1, <2>2
  <2>4. /\ store' \in Stores
        /\ SameContexts(store, store') /\ SamePages(store, store') /\ SameHidden(store, store')
        /\ \A x \in Tab \ {t} : store'[x] = store[x]
    <3>1. LET n == OnEnableTest(store, t, a, c)
          IN /\ n \in Stores
             /\ SameContexts(store, n) /\ SamePages(store, n) /\ SameHidden(store, n)
             /\ \A x \in Tab \ {t} : n[x] = store[x]
      BY <1>1, EnableFacts
    <3> QED BY <2>3, <3>1, Zenon
  <2>5. held' = held
    BY <1>3 DEF EnableAssessment
  <2> QED BY <1>2, <1>3, <2>4, <2>5
<1>4. CASE EnableAdhocTest(t)
  <2>1. store' = OnEnableTest(store, t, FALSE, TRUE) /\ held' = {x \in held : store'[x].assessing}
    BY <1>4 DEF EnableAdhocTest
  <2>2. PICK a \in BOOLEAN, c \in BOOLEAN : a = FALSE /\ c = TRUE
    OBVIOUS
  <2>3. store' = OnEnableTest(store, t, a, c)
    BY <2>1, <2>2
  <2>4. /\ store' \in Stores
        /\ SameContexts(store, store') /\ SamePages(store, store') /\ SameHidden(store, store')
        /\ \A x \in Tab \ {t} : store'[x] = store[x]
        /\ store[t] # Null => (store'[t].assessing => store[t].assessing)
    BY <1>1, <2>2, <2>3, EnableFacts
  <2>5. NoMoreAssessed
    BY <2>1, <2>4, Zenon DEF NoMoreAssessed
  <2>6. ~EnableAssessment(t) \/ held' = held
    BY DEF EnableAssessment
  <2> QED BY <1>2, <2>4, <2>5, <2>6
<1>5. CASE DisableAssessments(t)
  <2>1. store' = OnDisableAssessmentVisualizations(store, t) /\ held' = {x \in held : store'[x].assessing}
    BY <1>5 DEF DisableAssessments
  <2>2. /\ store' \in Stores
        /\ SameContexts(store, store') /\ SamePages(store, store') /\ SameHidden(store, store')
        /\ \A x \in Tab \ {t} : store'[x] = store[x]
        /\ store[t] # Null => (store'[t].assessing => store[t].assessing /\ store[t].scanning)
    BY <1>1, <2>1, DisableFacts, Zenon
  <2>3. NoMoreAssessed
    BY <2>1, <2>2, Zenon DEF NoMoreAssessed
  <2>4. ~EnableAssessment(t) \/ held' = held
    BY DEF EnableAssessment
  <2> QED BY <1>2, <2>2, <2>3, <2>4
<1>6. CASE CompleteScan(t)
  <2>1. store' = OnScanCompleted(store, t) /\ held' = held
    BY <1>6 DEF CompleteScan
  <2>2. /\ store' \in Stores
        /\ SameContexts(store, store') /\ SamePages(store, store') /\ SameHidden(store, store')
        /\ SameAssessing(store, store')
        /\ \A x \in Tab \ {t} : store'[x] = store[x]
    BY <1>1, <2>1, ScanCompletedFacts, Zenon
  <2>3. NoMoreAssessed
    BY <2>1, <2>2, Zenon DEF NoMoreAssessed, SameAssessing
  <2> QED BY <1>2, <2>1, <2>2, <2>3
<1> QED BY <1>3, <1>4, <1>5, <1>6 DEF TestStep

LEMMA TestStepShape ==
  ASSUME Shape, NEW t \in Tab, TestStep(t)
  PROVE  Shape'
<1>1. /\ UNCHANGED <<browserVars, detailsView, strayed, misled>>
      /\ UNCHANGED requests \/ Ask(<<SwitchTo(t)>>)
      /\ store' \in Stores /\ SameContexts(store, store')
  BY TestStepFacts
<1>2. held' \subseteq held
  BY TestStepFacts DEF NoMoreAssessed
<1>3. requests' \in Seq(Request)
  BY <1>1, AskFacts, IsRequest DEF Shape
<1>4. Registers'
  BY <1>1, <1>2 DEF Shape, Registers, browserVars
<1>5. Activity'
  BY <1>1, ActivityStays DEF Shape, Activity, browserVars
<1>6. Contexts'
  BY <1>1, ContextsStay DEF browserVars, Shape
<1> QED BY <1>1, <1>3, <1>4, <1>5, <1>6 DEF Shape

\* To show a details view may change the tests too.
LEMMA ShowDetailsViewStore ==
  ASSUME Shape, NEW t \in Tab, ShowDetailsView(t)
  PROVE  /\ store' \in Stores /\ NoMoreAssessed
         /\ SameContexts(store, store') /\ SamePages(store, store') /\ SameHidden(store, store')
<1>1. store \in Stores
  BY DEF Shape, Contexts
<1>2. held' = {x \in held : store'[x].assessing}
  BY DEF ShowDetailsView
<1>3. PICK n : n = store'
  OBVIOUS
<1>4. SUFFICES /\ n \in Stores
               /\ SameContexts(store, n) /\ SamePages(store, n) /\ SameHidden(store, n)
               /\ \A x \in Tab : store[x] # Null => (n[x].assessing => store[x].assessing)
  BY <1>2, <1>3 DEF NoMoreAssessed
<1>5. n \in {store, OnDisableAssessmentVisualizations(store, t), OnEnableTest(store, t, FALSE, TRUE)}
  BY <1>3 DEF ShowDetailsView
<1>6. CASE n = store
  BY <1>1, <1>6 DEF SameContexts, SamePages, SameHidden
<1>7. CASE n = OnDisableAssessmentVisualizations(store, t)
  BY <1>1, <1>7, DisableFacts, Zenon
<1>8. CASE n = OnEnableTest(store, t, FALSE, TRUE)
  <2>1. PICK a \in BOOLEAN, c \in BOOLEAN : a = FALSE /\ c = TRUE
    OBVIOUS
  <2>2. n = OnEnableTest(store, t, a, c)
    BY <1>8, <2>1
  <2>3. /\ n \in Stores
        /\ SameContexts(store, n) /\ SamePages(store, n) /\ SameHidden(store, n)
        /\ \A x \in Tab \ {t} : n[x] = store[x]
        /\ store[t] # Null => (n[t].assessing => store[t].assessing)
    BY <1>1, <2>1, <2>2, EnableFacts
  <2> QED BY <2>3, Zenon
<1> QED BY <1>5, <1>6, <1>7, <1>8

LEMMA ShowDetailsViewShape ==
  ASSUME Shape, NEW t \in Tab, ShowDetailsView(t)
  PROVE  Shape'
<1>1. UNCHANGED <<browserVars, detailsView, strayed, misled>> /\ held' \subseteq held
  BY DEF ShowDetailsView
<1>2. Registers'
  BY <1>1 DEF Shape, Registers, browserVars
<1>3. Contexts'
  BY <1>1, ShowDetailsViewStore, ContextsStay DEF Shape, browserVars
<1>4. Activity'
  BY <1>1, ActivityStays DEF Shape, Activity, browserVars
<1>5. requests' \in Seq(Request)
  <2>1. PICK q \in Request : Ask(<<q>>)
    BY IsRequest DEF ShowDetailsView, Shape, Registers
  <2> QED BY <2>1, AskFacts DEF Shape
<1> QED BY <1>2, <1>3, <1>4, <1>5 DEF Shape

\* What is answered was asked.
LEMMA AskedFacts ==
  ASSUME Shape, NEW ask, Asked(ask)
  PROVE  /\ requests \in Seq(Request) /\ requests # <<>>
         /\ Head(requests) \in Request /\ Head(requests).ask = ask
         /\ \A q : Has(requests, q) <=> Head(requests) = q \/ Has(Tail(requests), q)
BY AnswerFacts DEF Asked, Shape

LEMMA AnswerTabsOfStore ==
  ASSUME Shape, AnswerTabsOf
  PROVE  LET w == Head(requests).window
         IN /\ w \in Window
            /\ store' \in Stores
            /\ SameContexts(store, store') /\ SamePages(store, store') /\ SameAssessing(store, store')
            /\ \A x \in Tab : x \notin TabsOf(w) \/ x = active[w] => store'[x] = store[x]
<1> DEFINE w == Head(requests).window
           T == {t \in TabsOf(w) : t # active[w]}
<1>1. Asked("tabsOf") /\ store \in Stores
  BY DEF AnswerTabsOf, Shape, Contexts
<1>2. w \in Window
  BY <1>1, AskedFacts, HeadFacts
<1>3. store' = [t \in Tab |-> IF t \in TabsOf(w) /\ t # active[w]
                               THEN OnVisibilityChange(store, t, TRUE)[t] ELSE store[t]]
  BY DEF AnswerTabsOf
<1>4. store' = [t \in Tab |-> IF t \in T THEN OnVisibilityChange(store, t, TRUE)[t] ELSE store[t]]
  BY <1>3
<1> HIDE DEF T
<1>5. /\ store' \in Stores
      /\ SameContexts(store, store') /\ SamePages(store, store') /\ SameAssessing(store, store')
      /\ \A x \in Tab \ T : store'[x] = store[x]
  BY <1>1, <1>4, HideFacts
<1> QED BY <1>2, <1>5 DEF T

LEMMA AnswerTabsOfShape ==
  ASSUME Shape, AnswerTabsOf
  PROVE  Shape'
<1>1. Registers'
  BY DEF Shape, Registers, AnswerTabsOf, browserVars
<1>2. Activity'
  BY ActivityStays DEF Shape, Activity, AnswerTabsOf, browserVars
<1>3. Contexts'
  BY AnswerTabsOfStore, ContextsStay DEF AnswerTabsOf, browserVars, Shape
<1>4. requests' \in Seq(Request)
  BY AskedFacts, AnswerFacts DEF AnswerTabsOf
<1> QED BY <1>1, <1>2, <1>3, <1>4 DEF Shape

LEMMA AnswerWindowsRequests ==
  ASSUME Shape, AnswerWindows
  PROVE  /\ requests' \in Seq(Request)
         /\ \E more \in Seq(Request) :
              /\ requests' = Tail(requests) \o more
              /\ \A q : Has(more, q) <=> \E w \in OpenWindow : q = ActiveTabs(w, minimized[w])
         /\ \A q : Has(requests', q) <=>
                     Has(Tail(requests), q) \/ \E w \in OpenWindow : q = ActiveTabs(w, minimized[w])
<1>1. PICK more \in SetToSeqs({ActiveTabs(w, minimized[w]) : w \in OpenWindow}) : Answered(more)
  BY DEF AnswerWindows
<1>2. /\ more \in Seq(Request)
      /\ \A q : Has(more, q) <=> \E w \in OpenWindow : q = ActiveTabs(w, minimized[w])
  BY OpenWindowsAsked DEF Shape
<1>3. Asked("windows")
  BY DEF AnswerWindows
<1>4. Tail(requests) \in Seq(Request)
  BY <1>3, AskedFacts, AnswerFacts
<1>5. requests' = Tail(requests) \o more
  BY <1>1 DEF Answered
<1>6. /\ requests' \in Seq(Request)
      /\ \A q : Has(requests', q) <=> Has(Tail(requests), q) \/ Has(more, q)
  BY <1>2, <1>4, <1>5, More
<1> QED BY <1>2, <1>5, <1>6

LEMMA AnswerWindowsShape ==
  ASSUME Shape, AnswerWindows
  PROVE  Shape'
<1>1. Registers' /\ Contexts'
  BY DEF Shape, Registers, Contexts, Open, AnswerWindows, browserVars
<1>2. Activity'
  BY ActivityStays DEF Shape, Activity, AnswerWindows, browserVars
<1> QED BY <1>1, <1>2, AnswerWindowsRequests DEF Shape

LEMMA AnswerActiveTabsStore ==
  ASSUME Shape, AnswerActiveTabs
  PROVE  LET w == Head(requests).window
         IN /\ w \in Window /\ Head(requests).hidden \in BOOLEAN
            /\ store' \in Stores
            /\ SameContexts(store, store') /\ SamePages(store, store') /\ SameAssessing(store, store')
            /\ \A x \in Tab : x # active[w] => store'[x] = store[x]
            /\ active[w] # Null /\ store[active[w]] # Null =>
                 store'[active[w]].hidden = Head(requests).hidden
<1> DEFINE w == Head(requests).window
           h == Head(requests).hidden
<1>1. Asked("activeTabs") /\ store \in Stores
  BY DEF AnswerActiveTabs, Shape, Contexts
<1>2. w \in Window /\ h \in BOOLEAN
  BY <1>1, AskedFacts, HeadFacts
<1>3. store' = IF active[w] = Null THEN store ELSE OnVisibilityChange(store, active[w], h)
  BY DEF AnswerActiveTabs
<1> HIDE DEF w, h
<1>4. CASE active[w] = Null
  BY <1>1, <1>2, <1>3, <1>4 DEF SameContexts, SamePages, SameAssessing, w, h
<1>5. CASE active[w] # Null
  <2>1. active[w] \in Tab
    BY <1>2, <1>5 DEF Shape, Activity
  <2>2. /\ store' \in Stores
        /\ SameContexts(store, store') /\ SamePages(store, store') /\ SameAssessing(store, store')
        /\ store[active[w]] # Null => store'[active[w]].hidden = h
        /\ \A x \in Tab \ {active[w]} : store'[x] = store[x]
    BY <1>1, <1>2, <1>3, <1>5, <2>1, VisibilityFacts
  <2> QED BY <1>2, <2>1, <2>2, Zenon DEF w, h
<1> QED BY <1>4, <1>5

LEMMA AnswerActiveTabsShape ==
  ASSUME Shape, AnswerActiveTabs
  PROVE  Shape'
<1>1. Registers'
  BY DEF Shape, Registers, AnswerActiveTabs, browserVars
<1>2. Activity'
  BY ActivityStays DEF Shape, Activity, AnswerActiveTabs, browserVars
<1>3. Contexts'
  <2>1. store' \in Stores /\ SameContexts(store, store')
    BY AnswerActiveTabsStore
  <2> QED BY <2>1, ContextsStay DEF AnswerActiveTabs, browserVars, Shape
<1>4. requests' \in Seq(Request)
  BY AskedFacts, AnswerFacts DEF AnswerActiveTabs
<1> QED BY <1>1, <1>2, <1>3, <1>4 DEF Shape

\* The answer about tab t, which may be gone.
LEMMA AnswerTabStore ==
  ASSUME Shape, AnswerTab
  PROVE  LET t == Head(requests).tab
         IN /\ t \in Tab /\ Head(requests) = GetTab(t)
            /\ store' \in Stores /\ SameContexts(store, store') /\ SameHidden(store, store')
            /\ \A x \in Tab \ {t} : store'[x] = store[x]
            /\ t \notin Open => store'[t] = store[t]
            /\ t \in Open => /\ store'[t].url = page[t] /\ store'[t].assessing = FALSE
                             /\ \/ store'[t].originChanged
                                \/ store'[t].url = store[t].url /\ ~store[t].originChanged
<1> DEFINE t == Head(requests).tab
<1>1. Asked("tab") /\ store \in Stores
  BY DEF AnswerTab, Shape, Contexts
<1>2. t \in Tab /\ Head(requests) = GetTab(t)
  BY <1>1, AskedFacts, HeadFacts
<1>3. store' = IF t \in Open THEN OnExistingTabUpdated(store, t, page[t]) ELSE store
  BY DEF AnswerTab
<1> HIDE DEF t
<1>4. CASE t \notin Open
  BY <1>1, <1>2, <1>3, <1>4 DEF SameContexts, SameHidden, t
<1>5. CASE t \in Open
  <2>1. page[t] \in Url \cup Tab /\ store[t] # Null
    BY <1>2, <1>5 DEF Shape, Registers, Contexts
  <2>2. /\ store' \in Stores
        /\ SameContexts(store, store') /\ SameHidden(store, store')
        /\ /\ store'[t].url = page[t] /\ store'[t].assessing = FALSE
           /\ \/ store'[t].originChanged
              \/ page[t] = store[t].url /\ ~store[t].originChanged
        /\ \A x \in Tab \ {t} : store'[x] = store[x]
    <3>1. store' = OnExistingTabUpdated(store, t, page[t])
      BY <1>3, <1>5
    <3>2. \A url \in Url \cup Tab : LET n == OnExistingTabUpdated(store, t, url)
            IN /\ n \in Stores
               /\ SameContexts(store, n) /\ SameHidden(store, n)
               /\ store[t] # Null => /\ n[t].url = url /\ n[t].assessing = FALSE
                                     /\ \/ n[t].originChanged
                                        \/ url = store[t].url /\ ~store[t].originChanged
               /\ \A x \in Tab \ {t} : n[x] = store[x]
      BY <1>1, <1>2, TabUpdatedFacts, Zenon
    <3> QED BY <2>1, <3>1, <3>2, Zenon
  <2> QED BY <1>2, <1>5, <2>2, Zenon DEF t
<1> QED BY <1>4, <1>5

LEMMA AnswerTabShape ==
  ASSUME Shape, AnswerTab
  PROVE  Shape'
<1>1. store' \in Stores /\ SameContexts(store, store')
  BY AnswerTabStore, Zenon
<1>2. Registers'
  BY DEF Shape, Registers, AnswerTab, browserVars
<1>3. Activity'
  BY ActivityStays DEF Shape, Activity, AnswerTab, browserVars
<1>4. Contexts'
  BY <1>1, ContextsStay DEF AnswerTab, browserVars, Shape
<1>5. requests' \in Seq(Request)
  BY AskedFacts, AnswerFacts DEF AnswerTab
<1> QED BY <1>2, <1>3, <1>4, <1>5 DEF Shape

\* A details view of tab t is opened, as tab d in window w.
Opened(t, d, w) ==
  /\ Head(requests) = NewWindow(t)
  /\ spare' = spare \ {d}
  /\ place' = [place EXCEPT ![d] = w]
  /\ page' = [page EXCEPT ![d] = t]
  /\ active' = [active EXCEPT ![w] = d]
  /\ popup' = Null
  /\ strayed' = IF detailsView[t] = Null THEN strayed ELSE strayed \cup {t}
  /\ madeFor' = [madeFor EXCEPT ![d] = t]
  /\ detailsView' = [detailsView EXCEPT ![t] = d]
  /\ UNCHANGED <<minimized, misled>> /\ held' = held \ {t}
  /\ store' \in Stores /\ store'[d] # Null
  /\ store[d] = Null => store'[d].hidden = FALSE /\ store'[d].assessing = FALSE
  /\ \A x \in Tab \ {d} : store'[x] = store[x]
  /\ requests' \in Seq(Request)
  /\ \A q : Has(requests', q) <=>
              Has(Tail(requests), q) \/ q \in {TabsOfWindow(w), AllWindows, GetTab(d)}

LEMMA AnswerNewWindowOpens ==
  ASSUME Shape, AnswerNewWindow
  PROVE  \E t \in Tab, d \in spare, w \in Window \ OpenWindow :
           Opened(t, d, w) /\ requests' = Tail(requests) \o <<TabsOfWindow(w), AllWindows, GetTab(d)>>
<1>1. Asked("newWindow")
  BY DEF AnswerNewWindow
<1>2. PICK t \in Tab : t = Head(requests).tab /\ Head(requests) = NewWindow(t)
  BY <1>1, AskedFacts, HeadFacts
<1>3. PICK d \in spare, w \in Window \ OpenWindow :
        /\ spare' = spare \ {d}
        /\ place' = [place EXCEPT ![d] = w]
        /\ page' = [page EXCEPT ![d] = t]
        /\ active' = [active EXCEPT ![w] = d]
        /\ popup' = Null
        /\ strayed' = IF detailsView[t] = Null THEN strayed ELSE strayed \cup {t}
        /\ madeFor' = [madeFor EXCEPT ![d] = t]
        /\ detailsView' = [detailsView EXCEPT ![t] = d]
        /\ held' = held \ {t}
        /\ store' = UrlUpdated(store, d)
        /\ Answered(<<TabsOfWindow(w), AllWindows, GetTab(d)>>)
  BY <1>2 DEF AnswerNewWindow
<1>4. d \in Tab /\ store \in Stores
  BY DEF Shape, Registers, Contexts
<1>5. /\ store' \in Stores /\ store'[d] # Null
      /\ store[d] = Null => store'[d].hidden = FALSE /\ store'[d].assessing = FALSE
      /\ \A x \in Tab \ {d} : store'[x] = store[x]
  BY <1>3, <1>4, UrlUpdatedFacts
<1>6. /\ requests' \in Seq(Request)
      /\ \A q : Has(requests', q) <=>
                  Has(Tail(requests), q) \/ q = TabsOfWindow(w) \/ q = AllWindows \/ q = GetTab(d)
  BY <1>1, <1>3, <1>4, AskedFacts, AnswerFacts, IsRequest
<1>7. UNCHANGED <<minimized, misled>>
  BY DEF AnswerNewWindow
<1>8. requests' = Tail(requests) \o <<TabsOfWindow(w), AllWindows, GetTab(d)>>
  BY <1>3 DEF Answered
<1>9. Opened(t, d, w)
  BY <1>2, <1>3, <1>5, <1>6, <1>7 DEF Opened
<1> QED BY <1>8, <1>9

LEMMA OpenedShape ==
  ASSUME Shape, NEW t \in Tab, NEW d \in spare, NEW w \in Window \ OpenWindow, Opened(t, d, w)
  PROVE  Shape'
<1>1. d \in Tab /\ d \notin Open
  BY DEF Shape, Registers, Activity
<1>2. Registers'
  BY <1>1 DEF Opened, Shape, Registers
<1>3. place' = [place EXCEPT ![d] = w] /\ active' = [active EXCEPT ![w] = d] /\ spare' = spare \ {d}
  BY DEF Opened
<1>4. /\ \A v \in Window \ {w} : TabsOf(v)' = TabsOf(v)
      /\ d \in TabsOf(w)' /\ Open' = Open \cup {d}
  BY <1>1, <1>3, IdAssumption DEF Shape, Registers, TabsOf, Open
<1>5. Activity'
  <2>1. OpenWindow' \subseteq OpenWindow \cup {w}
    BY <1>3 DEF OpenWindow, Shape, Activity
  <2>2. IsFiniteSet(OpenWindow)'
    BY <2>1, WindowsStayFinite DEF Shape
  <2>3. minimized' \in [Window -> BOOLEAN]
    BY DEF Opened, Shape, Activity
  <2>4. active' \in [Window -> Tab \cup {Null}]
    BY <1>1, <1>3 DEF Shape, Activity
  <2>5. \A v \in Window : IF TabsOf(v)' = {} THEN active'[v] = Null ELSE active'[v] \in TabsOf(v)'
    <3>1. ASSUME NEW v \in Window \ {w}
          PROVE  IF TabsOf(v)' = {} THEN active'[v] = Null ELSE active'[v] \in TabsOf(v)'
      BY <1>3, <1>4 DEF Shape, Activity
    <3>2. IF TabsOf(w)' = {} THEN active'[w] = Null ELSE active'[w] \in TabsOf(w)'
      BY <1>3, <1>4 DEF Shape, Activity
    <3> QED BY <3>1, <3>2
  <2>6. spare' \cap Open' = {}
    BY <1>3, <1>4 DEF Shape, Activity
  <2> QED BY <2>2, <2>3, <2>4, <2>5, <2>6 DEF Activity
<1>6. Contexts'
  <2>1. /\ store' \in Stores /\ store'[d] # Null /\ \A x \in Tab \ {d} : store'[x] = store[x]
        /\ page' = [page EXCEPT ![d] = t]
    BY DEF Opened
  <2> QED BY <1>1, <1>4, <2>1, IdAssumption DEF Shape, Contexts, Registers
<1> QED BY <1>2, <1>5, <1>6 DEF Shape, Opened

LEMMA FailNewWindowShape ==
  ASSUME Shape, FailNewWindow
  PROVE  Shape'
<1>1. Registers' /\ Contexts'
  BY DEF Shape, Registers, Contexts, Open, FailNewWindow, browserVars
<1>2. Activity'
  BY ActivityStays DEF Shape, Activity, FailNewWindow, browserVars
<1>3. requests' \in Seq(Request)
  BY AskedFacts, AnswerFacts DEF FailNewWindow
<1> QED BY <1>1, <1>2, <1>3 DEF Shape

\* The browser may change to tab t, and then there is more to ask.
LEMMA AnswerSwitchToFacts ==
  ASSUME Shape, AnswerSwitchTo
  PROVE  /\ UNCHANGED <<spare, madeFor, place, page, minimized, detailsView, strayed, misled, held>>
         /\ popup' \in {popup, Null}
         /\ requests' \in Seq(Request)
         /\ \E more \in Seq(Request) :
              /\ requests' = Tail(requests) \o more
              /\ \A q : Has(more, q) => \E w : q = TabsOfWindow(w) \/ q = FocusWindow(w)
         /\ \/ UNCHANGED <<active, store>>
            \/ \E t \in Open : /\ active' = [active EXCEPT ![place[t]] = t]
                               /\ store' = Activated(store, t)
<1>1. Asked("switchTo")
  BY DEF AnswerSwitchTo
<1>2. PICK t \in Tab : t = Head(requests).tab
  BY <1>1, AskedFacts, HeadFacts
<1>3. PICK w : w = place[t]
  OBVIOUS
<1>4. t \in Open => w \in Window
  BY <1>3 DEF Open, Shape, Registers
<1>5. /\ popup' \in {popup, Null}
      /\ \/ UNCHANGED <<active, store>>
         \/ \E s \in Open : /\ active' = [active EXCEPT ![place[s]] = s]
                            /\ store' = Activated(store, s)
  BY <1>2 DEF AnswerSwitchTo
<1>6. \/ Answered(<<>>)
      \/ t \in Open /\ Answered(<<FocusWindow(w)>>)
      \/ t \in Open /\ Answered(<<TabsOfWindow(w), FocusWindow(w)>>)
  BY <1>2, <1>3 DEF AnswerSwitchTo
<1>7. requests' \in Seq(Request)
  BY <1>1, <1>4, <1>6, AskedFacts, AnswerFacts, IsRequest
<1>8. \E more \in Seq(Request) :
        /\ requests' = Tail(requests) \o more
        /\ \A q : Has(more, q) => \E v : q = TabsOfWindow(v) \/ q = FocusWindow(v)
  <2>1. PICK more \in {<<>>, <<FocusWindow(w)>>, <<TabsOfWindow(w), FocusWindow(w)>>} :
          requests' = Tail(requests) \o more /\ (more # <<>> => t \in Open)
    BY <1>6 DEF Answered
  <2>2. \A q : Has(more, q) => q = TabsOfWindow(w) \/ q = FocusWindow(w)
    BY ShortFacts
  <2>3. more \in Seq(Request)
    <3>1. t \in Open => FocusWindow(w) \in Request /\ TabsOfWindow(w) \in Request
      BY <1>4, IsRequest
    <3>2. t \in Open => {<<FocusWindow(w)>>, <<TabsOfWindow(w), FocusWindow(w)>>} \subseteq Seq(Request)
      BY <3>1
    <3>3. <<>> \in Seq(Request)
      OBVIOUS
    <3> QED BY <2>1, <3>2, <3>3
  <2> QED BY <2>1, <2>2, <2>3
<1>9. UNCHANGED <<spare, madeFor, place, page, minimized, detailsView, strayed, misled, held>>
  BY DEF AnswerSwitchTo
<1> QED BY <1>5, <1>7, <1>8, <1>9

LEMMA AnswerSwitchToShape ==
  ASSUME Shape, AnswerSwitchTo
  PROVE  Shape'
<1>1. /\ UNCHANGED <<spare, madeFor, place, page, minimized, detailsView, strayed, misled, held>>
      /\ popup' \in {popup, Null} /\ requests' \in Seq(Request)
  BY AnswerSwitchToFacts
<1>2. Registers'
  BY <1>1 DEF Shape, Registers
<1>3. CASE UNCHANGED <<active, store>>
  BY <1>1, <1>2, <1>3, ActivityStays DEF Shape, Activity, Contexts, Open
<1>4. ASSUME NEW t \in Open, active' = [active EXCEPT ![place[t]] = t], store' = Activated(store, t)
      PROVE  Shape'
  <2>1. PICK w \in Window : w = place[t]
    BY DEF Open, Shape, Registers
  <2>2. /\ \A v \in Window : TabsOf(v)' = TabsOf(v)
        /\ Open' = Open /\ t \in TabsOf(w)
    BY <1>1, <2>1 DEF TabsOf, Open
  <2>3. OpenWindow' \subseteq OpenWindow \cup {w}
    BY <1>4, <2>1 DEF Shape, Activity, OpenWindow
  <2>4. Activity'
    BY <1>1, <1>4, <2>1, <2>2, <2>3, WindowsStayFinite DEF Shape, Activity, Open
  <2>5. Contexts'
    BY <1>1, <1>4, ActivatedFacts, ContextsStay DEF Shape, Contexts, Open
  <2> QED BY <1>1, <1>2, <2>4, <2>5 DEF Shape
<1> QED BY <1>3, <1>4, AnswerSwitchToFacts

LEMMA AnswerFocusShape ==
  ASSUME Shape, AnswerFocus
  PROVE  Shape'
<1>1. UNCHANGED <<spare, madeFor, place, page, active, store, detailsView, strayed, misled, held>>
  BY DEF AnswerFocus
<1>2. popup' \in {popup, Null} /\ minimized' \in [Window -> BOOLEAN]
  BY DEF AnswerFocus, Shape, Activity
<1>3. Registers' /\ Contexts'
  BY <1>1, <1>2 DEF Shape, Registers, Contexts, Open
<1>4. Activity'
  BY <1>1, <1>2, ActivityStays DEF Shape
<1>5. requests' \in Seq(Request)
  BY AskedFacts, AnswerFacts, IsRequest DEF AnswerFocus
<1> QED BY <1>3, <1>4, <1>5 DEF Shape

LEMMA ShapeStep ==
  ASSUME Shape, [TabNext]_tabVars
  PROVE  Shape'
<1>1. CASE UNCHANGED tabVars
  BY <1>1 DEF tabVars, browserVars, contextVars, Shape, Registers, Activity, Contexts, TabsOf,
              Open, OpenWindow
<1>2. CASE Answer
  BY <1>2, AnswerTabsOfShape, AnswerWindowsShape, AnswerActiveTabsShape, AnswerTabShape,
     AnswerNewWindowOpens, OpenedShape, FailNewWindowShape, AnswerSwitchToShape, AnswerFocusShape
     DEF Answer
<1>3. Target \subseteq Tab
  BY FirstAssumption
<1> QED BY <1>1, <1>2, <1>3, OpenTabShape, ActivateTabShape, RemoveTabShape, NavigateShape,
           ToggleWindowShape, LoadTabShape, OpenPopupShape, TestStepShape,
           ShowDetailsViewShape, PopupInitializedShape
    DEF TabNext, TestStep

-----------------------------------------------------------------------------
(* What is asked, step by step.                                             *)

\* Only showDetailsView asks for a window of a details view, and the browser is asked
\* about a tab until it answers.
Questions ==
  /\ \A x : Has(requests', NewWindow(x)) =>
              Has(requests, NewWindow(x)) \/ (x \in Tab /\ ShowDetailsView(x))
  /\ \A x : Has(requests, GetTab(x)) =>
              Has(requests', GetTab(x)) \/ (AnswerTab /\ Head(requests) = GetTab(x))

LEMMA AskedQuestions ==
  ASSUME Shape, NEW a \in Request, a.ask # "newWindow",
         Ask(<<a>>) \/ \E b \in Request : b.ask # "newWindow" /\ Ask(<<a, b>>)
  PROVE  Questions
<1>1. CASE Ask(<<a>>)
  <2>1. \A q : Has(requests', q) <=> Has(requests, q) \/ q = a
    BY <1>1, AskFacts DEF Shape
  <2> QED BY <2>1, RequestFields DEF Questions
<1>2. CASE \E b \in Request : b.ask # "newWindow" /\ Ask(<<a, b>>)
  <2>1. PICK b \in Request : b.ask # "newWindow" /\ Ask(<<a, b>>)
    BY <1>2
  <2>2. \A q : Has(requests', q) <=> Has(requests, q) \/ q = a \/ q = b
    BY <2>1, AskFacts DEF Shape
  <2> QED BY <2>1, <2>2, RequestFields DEF Questions
<1> QED BY <1>1, <1>2

LEMMA AnsweredQuestions ==
  ASSUME Shape, NEW ask, Asked(ask), ask = "tab" => AnswerTab,
         NEW more, \A q : Has(requests', q) <=> Has(Tail(requests), q) \/ Has(more, q),
         \A x : ~Has(more, NewWindow(x))
  PROVE  Questions
<1>1. /\ Head(requests).ask = ask
      /\ \A q : Has(requests, q) <=> Head(requests) = q \/ Has(Tail(requests), q)
  BY AskedFacts
<1> QED BY <1>1, RequestFields DEF Questions

LEMMA ShowDetailsViewAsks ==
  ASSUME Shape, NEW t \in Tab, ShowDetailsView(t)
  PROVE  \E q \in Request : Ask(<<q>>) /\ (q = NewWindow(t) \/ q.ask = "switchTo")
<1>1. CASE detailsView[t] # Null
  <2>1. SwitchTo(detailsView[t]) \in Request
    BY <1>1, IsRequest DEF Shape, Registers
  <2>2. Ask(<<SwitchTo(detailsView[t])>>)
    BY <1>1 DEF ShowDetailsView
  <2> QED BY <2>1, <2>2, RequestFields
<1>2. CASE detailsView[t] = Null
  BY <1>2, IsRequest DEF ShowDetailsView
<1> QED BY <1>1, <1>2

LEMMA QuestionsStep ==
  ASSUME Shape, TabNext
  PROVE  Questions
<1>1. ASSUME NEW t \in Tab, NEW w \in Window, NEW u \in Url, OpenTab(t, w, u) PROVE Questions
  <2>1. Ask(<<GetTab(t)>>) \/ Ask(<<TabsOfWindow(w), GetTab(t)>>)
    BY <1>1 DEF OpenTab
  <2> QED BY <2>1, AskedQuestions, IsRequest, RequestFields
<1>2. ASSUME NEW t \in Tab, ActivateTab(t) PROVE Questions
  <2>1. PICK w \in Window : Ask(<<TabsOfWindow(w)>>)
    BY <1>2 DEF ActivateTab, Open, Shape, Registers
  <2> QED BY <2>1, AskedQuestions, IsRequest, RequestFields
<1>3. ASSUME NEW w \in Window, ToggleWindow(w) PROVE Questions
  BY <1>3, AskedQuestions, IsRequest, RequestFields DEF ToggleWindow
<1>4. ASSUME NEW t \in Tab, NEW p, Navigate(t, p) PROVE Questions
  BY <1>4, AskedQuestions, IsRequest, RequestFields DEF Navigate
<1>5. ASSUME NEW t \in Tab, LoadTab(t) PROVE Questions
  BY <1>5, AskedQuestions, IsRequest, RequestFields DEF LoadTab
<1>6. ASSUME NEW t \in Tab, RemoveTab(t) PROVE Questions
  <2>1. PICK w \in Window : w = place[t]
    BY <1>6 DEF RemoveTab, Open, Shape, Registers
  <2>2. Ask(<<AllWindows>>) \/ Ask(<<TabsOfWindow(w)>>) \/ requests' = requests
    BY <1>6, <2>1 DEF RemoveTab
  <2>3. CASE requests' = requests
    BY <2>3 DEF Questions
  <2> QED BY <2>2, <2>3, AskedQuestions, IsRequest, RequestFields
<1>7. ASSUME NEW t \in Tab, OpenPopup(t) \/ TestStep(t) PROVE Questions
  <2>1. requests' = requests \/ Ask(<<SwitchTo(t)>>)
    BY <1>7, TestStepFacts DEF OpenPopup, contextVars
  <2>2. CASE requests' = requests
    BY <2>2 DEF Questions
  <2> QED BY <2>1, <2>2, AskedQuestions, IsRequest, RequestFields
<1>8. ASSUME PopupInitialized PROVE Questions
  BY <1>8 DEF PopupInitialized, Questions
<1>9. ASSUME NEW t \in Tab, ShowDetailsView(t) PROVE Questions
  <2>1. PICK q \in Request : Ask(<<q>>) /\ (q = NewWindow(t) \/ q.ask = "switchTo")
    BY <1>9, ShowDetailsViewAsks
  <2>2. \A r : Has(requests', r) <=> Has(requests, r) \/ r = q
    BY <2>1, AskFacts DEF Shape
  <2> QED BY <1>9, <2>1, <2>2, RequestFields DEF Questions
<1>10. ASSUME AnswerTabsOf \/ AnswerActiveTabs \/ AnswerTab \/ FailNewWindow PROVE Questions
  <2>1. PICK ask : Asked(ask) /\ (ask = "tab" => AnswerTab)
    <3>1. AnswerTabsOf => Asked("tabsOf")
      BY DEF AnswerTabsOf
    <3>2. AnswerActiveTabs => Asked("activeTabs")
      BY DEF AnswerActiveTabs
    <3>3. AnswerTab => Asked("tab")
      BY DEF AnswerTab
    <3>4. FailNewWindow => Asked("newWindow")
      BY DEF FailNewWindow
    <3> QED BY <1>10, <3>1, <3>2, <3>3, <3>4
  <2>2. Answered(<<>>)
    BY <1>10 DEF AnswerTabsOf, AnswerActiveTabs, AnswerTab, FailNewWindow
  <2>3. \A q : Has(requests', q) <=> Has(Tail(requests), q) \/ Has(<<>>, q)
    BY <2>1, <2>2, AskedFacts, AnswerFacts, ShortFacts
  <2> QED BY <2>1, <2>3, ShortFacts, AnsweredQuestions
<1>11. ASSUME AnswerWindows PROVE Questions
  <2>1. \A q : Has(requests', q) <=>
                 Has(Tail(requests), q) \/ \E w \in OpenWindow : q = ActiveTabs(w, minimized[w])
    BY <1>11, AnswerWindowsRequests
  <2>2. PICK more :
          \A q : Has(more, q) <=> \E w \in OpenWindow : q = ActiveTabs(w, minimized[w])
    BY <1>11, AnswerWindowsRequests
  <2>3. Asked("windows")
    BY <1>11 DEF AnswerWindows
  <2>4. \A x : ~Has(more, NewWindow(x))
    BY <2>2, RequestFields
  <2>5. \A q : Has(requests', q) <=> Has(Tail(requests), q) \/ Has(more, q)
    BY <2>1, <2>2
  <2> QED BY <2>3, <2>4, <2>5, AnsweredQuestions
<1>12. ASSUME AnswerNewWindow PROVE Questions
  <2>1. PICK t \in Tab, d \in spare, w \in Window : Opened(t, d, w)
    BY <1>12, AnswerNewWindowOpens
  <2>2. \A q : Has(requests', q) <=>
                 Has(Tail(requests), q) \/ Has(<<TabsOfWindow(w), AllWindows, GetTab(d)>>, q)
    BY <2>1, ShortFacts DEF Opened
  <2>3. \A x : ~Has(<<TabsOfWindow(w), AllWindows, GetTab(d)>>, NewWindow(x))
    BY ShortFacts, RequestFields
  <2>4. Asked("newWindow")
    BY <1>12 DEF AnswerNewWindow
  <2> QED BY <2>2, <2>3, <2>4, AnsweredQuestions
<1>13. ASSUME AnswerSwitchTo PROVE Questions
  <2>1. PICK more : /\ requests' = Tail(requests) \o more
                    /\ \A q : Has(more, q) => \E w : q = TabsOfWindow(w) \/ q = FocusWindow(w)
                    /\ more \in Seq(Request)
    BY <1>13, AnswerSwitchToFacts
  <2>2. Asked("switchTo")
    BY <1>13 DEF AnswerSwitchTo
  <2>3. Tail(requests) \in Seq(Request)
    BY <2>2, AskedFacts, AnswerFacts
  <2>4. \A q : Has(requests', q) <=> Has(Tail(requests), q) \/ Has(more, q)
    BY <2>1, <2>3, More
  <2>5. \A x : ~Has(more, NewWindow(x))
    BY <2>1, RequestFields
  <2> QED BY <2>2, <2>4, <2>5, AnsweredQuestions
<1>14. ASSUME AnswerFocus PROVE Questions
  <2>1. Asked("focus")
    BY <1>14 DEF AnswerFocus
  <2>2. PICK more \in {<<>>, <<AllWindows>>} : Answered(more)
    BY <1>14 DEF AnswerFocus
  <2>3. \A q : Has(requests', q) <=> Has(Tail(requests), q) \/ Has(more, q)
    BY <2>1, <2>2, AskedFacts, AnswerFacts, IsRequest, ShortFacts
  <2>4. \A x : ~Has(more, NewWindow(x))
    BY ShortFacts, RequestFields
  <2> QED BY <2>1, <2>3, <2>4, AnsweredQuestions
<1>15. Target \subseteq Tab
  BY FirstAssumption
<1> QED
  BY <1>1, <1>2, <1>3, <1>4, <1>5, <1>6, <1>7, <1>8, <1>9, <1>10, <1>11, <1>12, <1>13, <1>14, <1>15
     DEF TabNext, TestStep, Answer

-----------------------------------------------------------------------------
(* Details views and their targets.                                         *)

\* Tab t has never had a details view.
Untested(t) == ~Has(requests, NewWindow(t)) /\ \A d \in Tab : madeFor[d] # t

\* A tab shows no details view but the one it was opened for, and as long as it is the
\* one the map has, its own page has never been tested.
Views ==
  /\ \A t \in spare : Untested(t)
  /\ \A d \in Tab : page[d] \in Tab => madeFor[d] = page[d]
  /\ \A t \in Tab : detailsView[t] # Null => Untested(detailsView[t])
  /\ OneDetailsView

LEMMA InitViews ==
  ASSUME TabInit
  PROVE  Views
<1>1. /\ \A t \in Tab : madeFor[t] = Null /\ detailsView[t] = Null
      /\ page \in [Tab -> Url \cup {Null}] /\ spare \subseteq Tab
  BY DEF TabInit
<1>2. \A x : ~Has(requests, NewWindow(x))
  BY InitRequests, RequestFields
<1>3. \A t \in Tab : Untested(t)
  BY <1>1, <1>2, IdAssumption DEF Untested
<1>4. OneDetailsView
  BY <1>1, IdAssumption DEF OneDetailsView, DetailsViewsOf, Open
<1> QED BY <1>1, <1>3, <1>4, IdAssumption DEF Views

LEMMA UntestedStays ==
  ASSUME Questions, NEW t, Untested(t), ~ShowDetailsView(t), madeFor' = madeFor
  PROVE  Untested(t)'
BY DEF Questions, Untested

\* Where neither a page nor the map changes.
LEMMA QuietViews ==
  ASSUME Views, Questions, \A t \in Tab : ~ShowDetailsView(t),
         UNCHANGED <<spare, madeFor, place, page, detailsView, strayed>>
  PROVE  Views'
<1>1. OneDetailsView'
  BY DEF Views, OneDetailsView, DetailsViewsOf, Open
<1>2. \A t : Untested(t) => Untested(t)'
  BY DEF Questions, Untested
<1> QED BY <1>1, <1>2 DEF Views

LEMMA OpenTabViews ==
  ASSUME Shape, Views, Questions, NEW t \in Tab, NEW w \in Window, NEW u \in Url, OpenTab(t, w, u)
  PROVE  Views'
<1>1. /\ t \in spare /\ spare' = spare \ {t} /\ page' = [page EXCEPT ![t] = u]
      /\ place' = [place EXCEPT ![t] = w] /\ t \notin Open
      /\ UNCHANGED <<madeFor, detailsView, strayed>>
  BY DEF OpenTab, Shape, Activity
<1>2. \A x : Untested(x) => Untested(x)'
  <2>1. \A x : Has(requests', NewWindow(x)) => Has(requests, NewWindow(x))
    <3>1. Ask(<<GetTab(t)>>) \/ Ask(<<TabsOfWindow(w), GetTab(t)>>)
      BY DEF OpenTab
    <3>2. \A q : Has(requests', q) => Has(requests, q) \/ q = GetTab(t) \/ q = TabsOfWindow(w)
      BY <3>1, AskFacts, IsRequest DEF Shape
    <3> QED BY <3>2, RequestFields
  <2> QED BY <1>1, <2>1 DEF Untested
<1>3. \A d \in Tab : page'[d] \in Tab => madeFor'[d] = page'[d]
  BY <1>1, IdAssumption DEF Shape, Registers, Views
<1>4. Open' = Open \cup {t} /\ \A x \in Tab : DetailsViewsOf(x)' = DetailsViewsOf(x)
  BY <1>1, IdAssumption DEF Open, DetailsViewsOf, Shape, Registers
<1>5. DetailsViewsOf(t) = {}
  BY <1>1 DEF Views, Untested, DetailsViewsOf, Open
<1>6. OneDetailsView'
  <2>1. \A x \in Tab : detailsView'[x] = detailsView[x]
    BY <1>1
  <2>2. Open' \subseteq Tab
    BY DEF Open
  <2> QED BY <1>1, <1>4, <1>5, <2>1, <2>2 DEF Views, OneDetailsView
<1> QED BY <1>1, <1>2, <1>3, <1>6 DEF Views

LEMMA NavigateViews ==
  ASSUME Shape, Views, Questions, NEW t \in Tab, NEW p \in Url \cup Target, Navigate(t, p)
  PROVE  Views'
<1> DEFINE closed == {s \in TargetOf(t) : p # s}
<1>1. /\ t \in Open /\ page[t] # p /\ p \in Url \cup {madeFor[t]}
      /\ page' = [page EXCEPT ![t] = p]
      /\ detailsView' = [s \in Tab |-> IF s \in closed THEN Null ELSE detailsView[s]]
      /\ strayed' = strayed \cup ({p} \cap Tab)
      /\ UNCHANGED <<spare, madeFor, place>>
  BY DEF Navigate, Forget
<1>2. \A x : Untested(x) => Untested(x)'
  <2>1. \A x : Has(requests', NewWindow(x)) => Has(requests, NewWindow(x))
    <3>1. \A q : Has(requests', q) => Has(requests, q) \/ q = GetTab(t)
      BY AskFacts, IsRequest DEF Navigate, Shape
    <3> QED BY <3>1, RequestFields
  <2> QED BY <1>1, <2>1 DEF Untested
<1>3. \A d \in Tab : page'[d] \in Tab => madeFor'[d] = page'[d]
  BY <1>1, IdAssumption DEF Shape, Registers, Views
<1>4. \A s \in Tab : s \in closed <=> detailsView[s] = t /\ p # s
  BY DEF TargetOf
<1> HIDE DEF closed
<1>5. \A s \in Tab : detailsView'[s] # Null => detailsView'[s] = detailsView[s]
  BY <1>1
<1>6. OneDetailsView'
  <2>1. ASSUME NEW s \in Tab, detailsView'[s] # Null PROVE detailsView'[s] \in DetailsViewsOf(s)'
    <3>1. detailsView[s] = detailsView'[s] /\ detailsView[s] \in DetailsViewsOf(s)
      BY <1>5, <2>1 DEF Views, OneDetailsView
    <3>2. detailsView[s] = t => p = s
      BY <1>1, <1>4, <2>1
    <3> QED BY <1>1, <3>1, <3>2 DEF DetailsViewsOf, Open, Shape, Registers
  <2>2. ASSUME NEW s \in Open', s \notin strayed' PROVE DetailsViewsOf(s)' \subseteq {detailsView'[s]}
    <3>1. s \in Open /\ s \notin strayed /\ s # p /\ s \in Tab
      BY <1>1, <2>2 DEF Open
    <3>2. DetailsViewsOf(s) \subseteq {detailsView[s]}
      BY <3>1 DEF Views, OneDetailsView
    <3>3. DetailsViewsOf(s)' \subseteq DetailsViewsOf(s) \ {t}
      BY <1>1, <3>1 DEF DetailsViewsOf, Open, Shape, Registers
    <3>4. detailsView[s] # t => detailsView'[s] = detailsView[s]
      BY <1>1, <1>4, <3>1
    <3> QED BY <3>2, <3>3, <3>4
  <2> QED BY <2>1, <2>2 DEF OneDetailsView
<1> QED BY <1>1, <1>2, <1>3, <1>5, <1>6 DEF Views

LEMMA RemoveTabViews ==
  ASSUME Shape, Views, Questions, NEW t \in Tab, RemoveTab(t)
  PROVE  Views'
<1>1. /\ t \in Open
      /\ place' = [place EXCEPT ![t] = Null] /\ page' = [page EXCEPT ![t] = Null]
      /\ detailsView' = [s \in Tab |-> IF s \in (IF detailsView[t] # Null THEN {t} ELSE TargetOf(t))
                                       THEN Null ELSE detailsView[s]]
      /\ UNCHANGED <<spare, madeFor, strayed>>
  BY DEF RemoveTab, Forget, ClosedBy
<1>2. \A x : Untested(x) => Untested(x)'
  <2>1. ~\E x : ShowDetailsView(x) /\ place' # place
    BY DEF ShowDetailsView, browserVars
  <2>2. place' # place
    BY <1>1, IdAssumption DEF Open, Shape, Registers
  <2> QED BY <1>1, <2>1, <2>2, UntestedStays
<1>3. \A d \in Tab : page'[d] \in Tab => madeFor'[d] = page'[d]
  BY <1>1, IdAssumption DEF Shape, Registers, Views
\* A tab that has a details view is no details view the map has.
<1>4. ASSUME detailsView[t] # Null, NEW s \in Tab, detailsView[s] = t PROVE FALSE
  <2>1. Untested(t)
    BY <1>4, IdAssumption DEF Views
  <2>2. detailsView[t] \in Tab /\ page[detailsView[t]] = t
    BY <1>4 DEF Views, OneDetailsView, DetailsViewsOf, Open
  <2> QED BY <2>1, <2>2 DEF Views, Untested
<1>5. \A s \in Tab : /\ detailsView[s] = t => detailsView'[s] = Null
                     /\ s # t /\ detailsView[s] # t => detailsView'[s] = detailsView[s]
                     /\ detailsView'[s] # Null => detailsView'[s] = detailsView[s]
  BY <1>1, <1>4 DEF TargetOf
<1>6. Open' = Open \ {t} /\ \A s \in Tab : DetailsViewsOf(s)' = DetailsViewsOf(s) \ {t}
  BY <1>1, IdAssumption DEF Open, DetailsViewsOf, Shape, Registers
<1>7. OneDetailsView'
  BY <1>1, <1>5, <1>6 DEF Views, OneDetailsView, Open
<1> QED BY <1>1, <1>2, <1>3, <1>5, <1>7 DEF Views

LEMMA ShowDetailsViewViews ==
  ASSUME Shape, Views, NEW t \in Tab, ShowDetailsView(t)
  PROVE  Views'
<1>1. UNCHANGED <<spare, madeFor, place, page, detailsView, strayed>>
  BY DEF ShowDetailsView, browserVars
<1>2. t \in Open /\ (page[t] \in Url \/ DetailsViewsOf(t) # {})
  BY DEF ShowDetailsView, CanAsk, Shape, Contexts
<1>3. \A x : Has(requests', NewWindow(x)) => Has(requests, NewWindow(x)) \/ x = t
  <2>1. PICK q \in Request : Ask(<<q>>) /\ (q = NewWindow(t) \/ q.ask = "switchTo")
    BY ShowDetailsViewAsks
  <2>2. \A r : Has(requests', r) <=> Has(requests, r) \/ r = q
    BY <2>1, AskFacts DEF Shape
  <2> QED BY <2>1, <2>2, RequestFields
<1>4. \A x : Untested(x) /\ x # t => Untested(x)'
  BY <1>1, <1>3 DEF Untested
<1>5. t \notin spare
  BY <1>2 DEF Shape, Activity
<1>6. ASSUME NEW s \in Tab, detailsView[s] = t PROVE FALSE
  <2>1. Untested(t) /\ page[t] = s
    BY <1>6, IdAssumption DEF Views, OneDetailsView, DetailsViewsOf
  <2>2. DetailsViewsOf(t) = {}
    BY <2>1 DEF Views, Untested, DetailsViewsOf, Open
  <2> QED BY <1>2, <2>1, <2>2, IdAssumption
<1>7. OneDetailsView'
  BY <1>1 DEF Views, OneDetailsView, DetailsViewsOf, Open
<1> QED BY <1>1, <1>4, <1>5, <1>6, <1>7 DEF Views

LEMMA OpenedViews ==
  ASSUME Shape, Views, NEW t \in Tab, NEW d \in spare, NEW w \in Window \ OpenWindow, Opened(t, d, w),
         Has(requests, NewWindow(t)), Questions
  PROVE  Views'
<1>1. /\ spare' = spare \ {d} /\ page' = [page EXCEPT ![d] = t]
      /\ place' = [place EXCEPT ![d] = w]
      /\ madeFor' = [madeFor EXCEPT ![d] = t] /\ detailsView' = [detailsView EXCEPT ![t] = d]
      /\ strayed' = IF detailsView[t] = Null THEN strayed ELSE strayed \cup {t}
  BY DEF Opened
<1>2. d \in Tab /\ d \notin Open /\ Untested(d) /\ d # t
  BY DEF Shape, Registers, Activity, Views, Untested
<1>3. ASSUME NEW x \in Tab, Untested(x) PROVE Untested(x)'
  <2>1. x # t
    BY <1>3 DEF Untested
  <2>2. ~Has(requests', NewWindow(x))
    <3>1. ~ShowDetailsView(x)
      BY <1>1, <1>2, IdAssumption DEF ShowDetailsView, browserVars, Shape, Activity, Registers
    <3> QED BY <1>3, <3>1 DEF Questions, Untested
  <2> QED BY <1>1, <1>2, <1>3, <2>1, <2>2 DEF Untested, Shape, Registers
<1>4. \A x \in Tab : page'[x] \in Tab => madeFor'[x] = page'[x]
  BY <1>1, <1>2 DEF Shape, Registers, Views
<1>5. /\ Open' = Open \cup {d}
      /\ \A s \in Tab : DetailsViewsOf(s)' = IF s = t THEN DetailsViewsOf(s) \cup {d} ELSE DetailsViewsOf(s)
  BY <1>1, <1>2, IdAssumption DEF Open, DetailsViewsOf, Shape, Registers
<1>6. DetailsViewsOf(d) = {}
  BY <1>2 DEF Views, Untested, DetailsViewsOf, Open
<1>7. OneDetailsView'
  <2>1. ASSUME NEW s \in Tab, detailsView'[s] # Null PROVE detailsView'[s] \in DetailsViewsOf(s)'
    BY <1>1, <1>5, <2>1 DEF Views, OneDetailsView, Shape, Registers
  <2>2. ASSUME NEW s \in Open', s \notin strayed' PROVE DetailsViewsOf(s)' \subseteq {detailsView'[s]}
    <3>1. CASE s = t
      <4>1. detailsView[t] = Null /\ t \in Open /\ t \notin strayed
        BY <1>1, <1>2, <1>5, <2>2, <3>1
      <4>2. DetailsViewsOf(t) = {}
        <5>1. DetailsViewsOf(t) \subseteq {Null} /\ DetailsViewsOf(t) \subseteq Tab
          BY <4>1 DEF Views, OneDetailsView, DetailsViewsOf, Open
        <5> QED BY <5>1, IdAssumption
      <4> QED BY <1>1, <1>5, <3>1, <4>2 DEF Shape, Registers
    <3>2. CASE s # t
      <4>1. s \in Tab /\ detailsView'[s] = detailsView[s] /\ s \notin strayed
        BY <1>1, <2>2, <3>2 DEF Shape, Registers, Open
      <4> QED BY <1>5, <1>6, <2>2, <3>2, <4>1 DEF Views, OneDetailsView
    <3> QED BY <3>1, <3>2
  <2> QED BY <2>1, <2>2 DEF OneDetailsView
<1>8. \A s \in Tab : detailsView'[s] # Null => Untested(detailsView[s])'
  <2>1. ASSUME NEW s \in Tab, detailsView'[s] # Null PROVE Untested(detailsView[s])'
    <3>1. PICK x \in Tab : x = detailsView'[s] /\ Untested(x)
      BY <1>1, <1>2, <2>1 DEF Views, Shape, Registers
    <3>2. Untested(x)'
      BY <1>3, <3>1
    <3> QED BY <3>1, <3>2 DEF Untested
  <2> QED BY <2>1
<1>9. \A x \in spare' : Untested(x)'
  BY <1>1, <1>3 DEF Views, Shape, Registers
<1> QED BY <1>4, <1>7, <1>8, <1>9 DEF Views

-----------------------------------------------------------------------------
(* Steps that leave the pages and the map alone.                            *)

Quiet ==
  /\ UNCHANGED <<spare, madeFor, place, page, detailsView, strayed, misled>>
  /\ SameContexts(store, store') /\ SamePages(store, store')

LEMMA QuietSteps ==
  ASSUME Shape,
         \/ \E t \in Tab : ActivateTab(t) \/ LoadTab(t) \/ OpenPopup(t) \/ ShowDetailsView(t)
         \/ \E w \in Window : ToggleWindow(w)
         \/ AnswerTabsOf \/ AnswerWindows \/ AnswerActiveTabs \/ FailNewWindow
         \/ AnswerSwitchTo \/ AnswerFocus
  PROVE  Quiet /\ NoMoreAssessed
<1>1. store \in Stores
  BY DEF Shape, Contexts
<1>2. ASSUME UNCHANGED <<spare, madeFor, place, page, detailsView, strayed, misled, held>>,
             \/ store' = store
             \/ /\ SameContexts(store, store') /\ SamePages(store, store')
                /\ SameAssessing(store, store')
      PROVE  Quiet /\ NoMoreAssessed
  <2>1. SameContexts(store, store') /\ SamePages(store, store') /\ SameAssessing(store, store')
    BY <1>2 DEF SameContexts, SamePages, SameAssessing
  <2>2. NoMoreAssessed
    BY <1>2, <2>1, Zenon DEF NoMoreAssessed, SameAssessing
  <2> QED BY <1>2, <2>1, <2>2 DEF Quiet
<1>3. ASSUME NEW t \in Tab, ActivateTab(t) PROVE Quiet /\ NoMoreAssessed
  <2>1. UNCHANGED <<spare, madeFor, place, page, detailsView, strayed, misled, held>>
    BY <1>3 DEF ActivateTab
  <2>2. SameContexts(store, store') /\ SamePages(store, store') /\ SameAssessing(store, store')
    BY <1>1, <1>3, ActivatedFacts, Zenon DEF ActivateTab
  <2> QED BY <1>2, <2>1, <2>2
<1>4. ASSUME NEW t \in Tab, LoadTab(t) PROVE Quiet /\ NoMoreAssessed
  BY <1>2, <1>4, LoadTabShape DEF LoadTab, browserVars
<1>5. ASSUME NEW t \in Tab, OpenPopup(t) PROVE Quiet /\ NoMoreAssessed
  BY <1>2, <1>5 DEF OpenPopup, contextVars
<1>6. ASSUME NEW t \in Tab, ShowDetailsView(t) PROVE Quiet /\ NoMoreAssessed
  <2>1. UNCHANGED <<spare, madeFor, place, page, detailsView, strayed, misled>>
    BY <1>6 DEF ShowDetailsView, browserVars
  <2>2. SameContexts(store, store') /\ SamePages(store, store') /\ NoMoreAssessed
    BY <1>6, ShowDetailsViewStore, Zenon
  <2> QED BY <2>1, <2>2 DEF Quiet
<1>7. ASSUME NEW w \in Window, ToggleWindow(w) PROVE Quiet /\ NoMoreAssessed
  BY <1>2, <1>7 DEF ToggleWindow
<1>8. ASSUME AnswerTabsOf PROVE Quiet /\ NoMoreAssessed
  <2>1. SameContexts(store, store') /\ SamePages(store, store') /\ SameAssessing(store, store')
    BY <1>8, AnswerTabsOfStore, Zenon
  <2> QED BY <1>2, <1>8, <2>1 DEF AnswerTabsOf, browserVars
<1>9. ASSUME AnswerActiveTabs PROVE Quiet /\ NoMoreAssessed
  <2>1. SameContexts(store, store') /\ SamePages(store, store') /\ SameAssessing(store, store')
    BY <1>9, AnswerActiveTabsStore, Zenon
  <2> QED BY <1>2, <1>9, <2>1 DEF AnswerActiveTabs, browserVars
<1>10. ASSUME AnswerWindows \/ FailNewWindow \/ AnswerFocus PROVE Quiet /\ NoMoreAssessed
  BY <1>2, <1>10 DEF AnswerWindows, FailNewWindow, AnswerFocus, browserVars
<1>11. ASSUME AnswerSwitchTo PROVE Quiet /\ NoMoreAssessed
  <2>1. /\ UNCHANGED <<spare, madeFor, place, page, detailsView, strayed, misled, held>>
        /\ UNCHANGED store \/ \E t \in Open : store' = Activated(store, t)
    BY <1>11, AnswerSwitchToFacts
  <2>2. CASE UNCHANGED store
    BY <1>2, <2>1, <2>2
  <2>3. ASSUME NEW t \in Open, store' = Activated(store, t) PROVE Quiet /\ NoMoreAssessed
    <3>1. t \in Tab
      BY DEF Open
    <3>2. SameContexts(store, store') /\ SamePages(store, store') /\ SameAssessing(store, store')
      BY <1>1, <2>3, <3>1, ActivatedFacts, Zenon
    <3> QED BY <1>2, <2>1, <3>2
  <2> QED BY <2>1, <2>2, <2>3
<1> QED BY <1>3, <1>4, <1>5, <1>6, <1>7, <1>8, <1>9, <1>10, <1>11

LEMMA ViewsStep ==
  ASSUME Shape, Views, [TabNext]_tabVars
  PROVE  Views'
<1>1. CASE UNCHANGED tabVars
  BY <1>1 DEF tabVars, browserVars, contextVars, Views, Untested, OneDetailsView, DetailsViewsOf, Open
<1>2. CASE TabNext /\ \E t \in Tab : ShowDetailsView(t)
  BY <1>2, ShowDetailsViewViews
<1>3. CASE TabNext /\ \A t \in Tab : ~ShowDetailsView(t)
  <2>1. Questions /\ Target \subseteq Tab
    BY <1>3, QuestionsStep, FirstAssumption
  <2>2. ASSUME UNCHANGED <<spare, madeFor, place, page, detailsView, strayed>> PROVE Views'
    BY <1>3, <2>1, <2>2, QuietViews
  <2>3. ASSUME \/ \E t \in Tab : ActivateTab(t) \/ LoadTab(t) \/ OpenPopup(t)
               \/ \E w \in Window : ToggleWindow(w)
               \/ AnswerTabsOf \/ AnswerWindows \/ AnswerActiveTabs \/ FailNewWindow
               \/ AnswerSwitchTo \/ AnswerFocus
        PROVE  Views'
    BY <2>2, <2>3, QuietSteps DEF Quiet
  <2>4. ASSUME (\E t \in Tab : TestStep(t)) \/ PopupInitialized \/ AnswerTab PROVE Views'
    BY <2>2, <2>4, TestStepFacts DEF PopupInitialized, AnswerTab, browserVars
  <2>5. ASSUME AnswerNewWindow PROVE Views'
    <3>1. PICK t \in Tab, d \in spare, w \in Window \ OpenWindow : Opened(t, d, w)
      BY <2>5, AnswerNewWindowOpens
    <3>2. Has(requests, NewWindow(t))
      BY <2>5, <3>1, AskedFacts DEF AnswerNewWindow, Opened
    <3> QED BY <2>1, <3>1, <3>2, OpenedViews
  <2> QED BY <1>3, <2>1, <2>3, <2>4, <2>5, OpenTabViews, NavigateViews, RemoveTabViews
          DEF TabNext, TestStep, Answer
<1> QED BY <1>1, <1>2, <1>3

-----------------------------------------------------------------------------
(* Contexts and pages.                                                      *)

\* A store that has not the URL of the page will hear of it.
Follows ==
  \A t \in Open \ misled : store[t].url # page[t] => Has(requests, GetTab(t))

LEMMA InitFollows ==
  ASSUME TabInit
  PROVE  Follows
BY InitRequests, IdAssumption DEF TabInit, Follows, Open

LEMMA FollowsStep ==
  ASSUME Shape, Follows, [TabNext]_tabVars
  PROVE  Follows'
<1>1. CASE UNCHANGED tabVars
  BY <1>1 DEF tabVars, browserVars, contextVars, Follows, Open
<1>2. \A t \in Open : store[t] # Null
  BY DEF Shape, Contexts, Open
<1> SUFFICES ASSUME TabNext PROVE Follows'
  BY <1>1
<1>3. Questions
  BY QuestionsStep
<1>4. CASE AnswerTab
  <2>1. PICK t \in Tab :
          /\ Head(requests) = GetTab(t)
          /\ \A x \in Tab \ {t} : store'[x] = store[x]
          /\ t \in Open => store'[t].url = page[t]
          /\ misled' = IF t \in Open THEN misled \ {t} ELSE misled
    <3>1. LET t == Head(requests).tab
          IN /\ t \in Tab /\ Head(requests) = GetTab(t)
             /\ \A x \in Tab \ {t} : store'[x] = store[x]
             /\ t \in Open => store'[t].url = page[t]
      BY <1>4, AnswerTabStore, Zenon
    <3>2. LET t == Head(requests).tab IN misled' = IF t \in Open THEN misled \ {t} ELSE misled
      BY <1>4 DEF AnswerTab
    <3> QED BY <3>1, <3>2
  <2>2. UNCHANGED <<place, page>>
    BY <1>4 DEF AnswerTab, browserVars
  <2>3. \A x : Has(requests, GetTab(x)) => Has(requests', GetTab(x)) \/ x = t
    BY <1>3, <2>1, RequestFields DEF Questions
  <2> QED BY <2>1, <2>2, <2>3 DEF Follows, Open
<1> SUFFICES ASSUME ~AnswerTab PROVE Follows'
  BY <1>4
<1>5. \A x : Has(requests, GetTab(x)) => Has(requests', GetTab(x))
  BY <1>3 DEF Questions
<1>6. ASSUME Quiet PROVE Follows'
  BY <1>2, <1>5, <1>6 DEF Quiet, Follows, Open, SamePages
<1>7. ASSUME NEW t \in Tab, TestStep(t) PROVE Follows'
  <2>1. Quiet
    BY <1>7, TestStepFacts DEF browserVars, Quiet
  <2> QED BY <1>6, <2>1
<1>8. ASSUME NEW t \in Tab, NEW w \in Window, NEW u \in Url, OpenTab(t, w, u) PROVE Follows'
  <2>1. /\ place' = [place EXCEPT ![t] = w] /\ page' = [page EXCEPT ![t] = u]
        /\ store' = UrlUpdated(store, t) /\ misled' = misled
    BY <1>8 DEF OpenTab
  <2>2. Has(requests', GetTab(t))
    <3>1. Ask(<<GetTab(t)>>) \/ Ask(<<TabsOfWindow(w), GetTab(t)>>)
      BY <1>8 DEF OpenTab
    <3> QED BY <3>1, AskFacts, IsRequest DEF Shape
  <2>3. \A x \in Tab \ {t} : store'[x] = store[x]
    BY <2>1, UrlUpdatedFacts DEF Shape, Contexts
  <2> QED BY <1>5, <2>1, <2>2, <2>3 DEF Follows, Open, Shape, Registers
<1>9. ASSUME NEW t \in Tab, NEW p \in Url \cup Target, Navigate(t, p) PROVE Follows'
  <2>1. PICK T : /\ store' = UrlUpdated(OnDetailsViewsClosed(store, T), t)
                 /\ page' = [page EXCEPT ![t] = p] /\ UNCHANGED <<place, misled>>
    BY <1>9 DEF Navigate
  <2>2. Has(requests', GetTab(t))
    BY <1>9, AskFacts, IsRequest DEF Navigate, Shape
  <2>3. \A x \in Tab \ {t} : store[x] # Null => store'[x].url = store[x].url
    <3>1. /\ OnDetailsViewsClosed(store, T) \in Stores
          /\ SamePages(store, OnDetailsViewsClosed(store, T))
      BY ClosedFacts DEF Shape, Contexts
    <3>2. \A x \in Tab \ {t} : store'[x] = OnDetailsViewsClosed(store, T)[x]
      BY <2>1, <3>1, UrlUpdatedFacts
    <3> QED BY <3>1, <3>2 DEF SamePages
  <2> QED BY <1>2, <1>5, <2>1, <2>2, <2>3 DEF Follows, Open, Shape, Registers
<1>10. ASSUME NEW t \in Tab, RemoveTab(t) PROVE Follows'
  <2>1. /\ place' = [place EXCEPT ![t] = Null] /\ page' = [page EXCEPT ![t] = Null]
        /\ misled' = misled \ {t}
    BY <1>10 DEF RemoveTab
  <2>2. \A x \in Tab \ {t} : store[x] # Null => store'[x].url = store[x].url
    BY <1>10, RemoveTabStore, Zenon
  <2> QED BY <1>2, <1>5, <2>1, <2>2 DEF Follows, Open, Shape, Registers
<1>11. ASSUME PopupInitialized PROVE Follows'
  <2>1. PICK t \in Tab, url \in Url : t = popup.tab /\ url = popup.url
    BY <1>11 DEF PopupInitialized, Shape, Registers
  <2>2. /\ store' = OnNewTabCreated(store, t, url)
        /\ misled' = IF url = page[t] THEN misled \ {t} ELSE misled \cup {t}
        /\ UNCHANGED <<place, page>>
    BY <1>11, <2>1 DEF PopupInitialized
  <2>3. /\ \A x \in Tab \ {t} : store'[x] = store[x]
        /\ store[t] # Null => store'[t].url = url
    BY <2>2, NewTabFacts DEF Shape, Contexts
  <2> QED BY <1>2, <1>5, <2>2, <2>3 DEF Follows, Open
<1>12. ASSUME AnswerNewWindow PROVE Follows'
  <2>1. PICK t \in Tab, d \in spare, w \in Window \ OpenWindow : Opened(t, d, w)
    BY <1>12, AnswerNewWindowOpens
  <2>2. /\ place' = [place EXCEPT ![d] = w] /\ page' = [page EXCEPT ![d] = t]
        /\ \A x \in Tab \ {d} : store'[x] = store[x]
        /\ Has(requests', GetTab(d)) /\ misled' = misled
    BY <2>1 DEF Opened
  <2> QED BY <1>5, <2>2 DEF Follows, Open, Shape, Registers
<1>13. Target \subseteq Tab
  BY FirstAssumption
<1> QED BY <1>6, <1>7, <1>8, <1>9, <1>10, <1>11, <1>12, <1>13, QuietSteps
       DEF TabNext, TestStep, Answer

-----------------------------------------------------------------------------
(* Assessments and details views.                                           *)

LEMMA InitAssessed ==
  ASSUME TabInit
  PROVE  AssessedWithDetailsView
BY DEF TabInit, AssessedWithDetailsView, Open, DefaultState

LEMMA AssessedStep ==
  ASSUME Shape, Views, AssessedWithDetailsView, [TabNext]_tabVars
  PROVE  AssessedWithDetailsView'
<1>1. CASE UNCHANGED tabVars
  BY <1>1 DEF tabVars, browserVars, contextVars, AssessedWithDetailsView, Open
<1>2. \A t \in Open : store[t] # Null
  BY DEF Shape, Contexts, Open
<1>3. ASSUME UNCHANGED <<place, detailsView, strayed>>, NoMoreAssessed
      PROVE  AssessedWithDetailsView'
  <2>1. /\ \A x \in Open : store'[x].assessing => store[x].assessing
        /\ \A x \in held : x \in held' \/ ~store'[x].assessing
    BY <1>2, <1>3, Zenon DEF NoMoreAssessed, Open
  <2> QED BY <1>3, <2>1 DEF AssessedWithDetailsView, Open
<1>4. ASSUME Quiet, NoMoreAssessed PROVE AssessedWithDetailsView'
  BY <1>3, <1>4 DEF Quiet
<1>5. ASSUME NEW t \in Tab, TestStep(t) PROVE AssessedWithDetailsView'
  <2>1. CASE EnableAssessment(t)
    <3>1. /\ UNCHANGED <<place, detailsView, strayed, held>>
          /\ \A x \in Tab \ {t} : store'[x] = store[x]
      BY <1>5, <2>1, TestStepFacts DEF browserVars
    <3>2. t \in Open /\ DetailsViewsOf(t) # {}
      BY <2>1 DEF EnableAssessment, Shape, Contexts
    <3>3. t \notin strayed => detailsView[t] # Null
      <4>1. t \notin strayed => DetailsViewsOf(t) \subseteq {detailsView[t]}
        BY <3>2 DEF Views, OneDetailsView
      <4>2. DetailsViewsOf(t) \subseteq Tab
        BY DEF DetailsViewsOf, Open
      <4> QED BY <3>2, <4>1, <4>2, IdAssumption
    <3> QED BY <3>1, <3>3 DEF AssessedWithDetailsView, Open
  <2>2. CASE ~EnableAssessment(t)
    BY <1>3, <1>5, <2>2, TestStepFacts DEF browserVars
  <2> QED BY <2>1, <2>2
<1>6. ASSUME NEW t \in Tab, NEW w \in Window, NEW u \in Url, OpenTab(t, w, u)
      PROVE  AssessedWithDetailsView'
  <2>1. /\ place' = [place EXCEPT ![t] = w] /\ UNCHANGED <<detailsView, strayed, held>>
        /\ store' = UrlUpdated(store, t) /\ store[t] = Null
    BY <1>6 DEF OpenTab, Shape, Activity, Contexts
  <2>2. store'[t].assessing = FALSE /\ \A x \in Tab \ {t} : store'[x] = store[x]
    BY <2>1, UrlUpdatedFacts DEF Shape, Contexts
  <2> QED BY <2>1, <2>2 DEF AssessedWithDetailsView, Open, Shape, Registers
<1>7. ASSUME NEW t \in Tab, NEW p \in Url \cup Target, Navigate(t, p) PROVE AssessedWithDetailsView'
  <2> DEFINE T == {s \in TargetOf(t) : p # s}
             closed == OnDetailsViewsClosed(store, T)
  <2>1. /\ store' = UrlUpdated(closed, t) /\ t \in Open
        /\ detailsView' = [x \in Tab |-> IF x \in T THEN Null ELSE detailsView[x]]
        /\ strayed' = strayed \cup ({p} \cap Tab) /\ place' = place
        /\ held' = held \cup Scanned(T)
    BY <1>7 DEF Navigate, Forget
  <2> HIDE DEF T
  <2>2. /\ closed \in Stores /\ SameContexts(store, closed)
        /\ \A x \in Tab : store[x] # Null =>
             (closed[x].assessing => store[x].assessing /\ (x \notin T \/ store[x].scanning))
    BY ClosedFacts DEF Shape, Contexts
  <2> HIDE DEF closed
  <2>3. store' = closed
    BY <1>2, <2>1, <2>2, UrlUpdatedFacts DEF SameContexts, Open
  <2>4. \A x \in Open : store'[x].assessing => store[x].assessing /\ (x \notin T \/ x \in Scanned(T))
    BY <1>2, <2>2, <2>3 DEF Open, Scanned
  <2> QED BY <2>1, <2>4 DEF AssessedWithDetailsView, Open
<1>8. ASSUME NEW t \in Tab, RemoveTab(t) PROVE AssessedWithDetailsView'
  <2>1. /\ place' = [place EXCEPT ![t] = Null] /\ strayed' = strayed
        /\ detailsView' = [x \in Tab |-> IF x \in (IF detailsView[t] # Null THEN {t} ELSE ClosedBy(t))
                                         THEN Null ELSE detailsView[x]]
        /\ held' = (held \cup Scanned(ClosedBy(t))) \ {t}
    BY <1>8 DEF RemoveTab, Forget
  <2>2. \A x \in Tab \ {t} : store[x] # Null =>
          (store'[x].assessing =>
             store[x].assessing /\ (x \notin ClosedBy(t) \/ store[x].scanning))
    BY <1>8, RemoveTabStore, Zenon
  <2>3. \A x \in Open \ {t} : store'[x].assessing =>
          store[x].assessing /\ (x \notin ClosedBy(t) \/ x \in Scanned(ClosedBy(t)))
    BY <1>2, <2>2 DEF Open, Scanned
  <2>4. Open' = Open \ {t}
    BY <2>1, IdAssumption DEF Open, Shape, Registers
  <2> QED BY <2>1, <2>3, <2>4 DEF AssessedWithDetailsView, Open
<1>9. ASSUME PopupInitialized PROVE AssessedWithDetailsView'
  <2>1. popup.tab \in Tab /\ popup.url \in Url
    BY <1>9 DEF PopupInitialized, Shape, Registers
  <2>2. SameAssessing(store, store') /\ UNCHANGED <<place, detailsView, strayed, held>>
    BY <1>9, <2>1, NewTabFacts DEF PopupInitialized, Shape, Contexts
  <2>3. NoMoreAssessed
    BY <2>2, Zenon DEF NoMoreAssessed, SameAssessing
  <2> QED BY <1>3, <2>2, <2>3
<1>10. ASSUME AnswerTab PROVE AssessedWithDetailsView'
  <2>1. PICK t \in Tab :
          /\ \A x \in Tab \ {t} : store'[x] = store[x]
          /\ t \in Open => store'[t].assessing = FALSE
          /\ held' = IF t \in Open THEN held \ {t} ELSE held
    <3>1. LET t == Head(requests).tab
          IN /\ t \in Tab
             /\ \A x \in Tab \ {t} : store'[x] = store[x]
             /\ t \in Open => store'[t].assessing = FALSE
      BY <1>10, AnswerTabStore, Zenon
    <3>2. LET t == Head(requests).tab IN held' = IF t \in Open THEN held \ {t} ELSE held
      BY <1>10 DEF AnswerTab
    <3> QED BY <3>1, <3>2
  <2>2. UNCHANGED <<place, detailsView, strayed>>
    BY <1>10 DEF AnswerTab, browserVars
  <2> QED BY <2>1, <2>2 DEF AssessedWithDetailsView, Open
<1>11. ASSUME AnswerNewWindow PROVE AssessedWithDetailsView'
  <2>1. PICK t \in Tab, d \in spare, w \in Window \ OpenWindow : Opened(t, d, w)
    BY <1>11, AnswerNewWindowOpens
  <2>2. /\ d \in Tab /\ store[d] = Null
    BY DEF Shape, Registers, Activity, Contexts
  <2>3. /\ place' = [place EXCEPT ![d] = w] /\ detailsView' = [detailsView EXCEPT ![t] = d]
        /\ \A x \in Tab \ {d} : store'[x] = store[x]
        /\ strayed \subseteq strayed' /\ held' = held \ {t}
    BY <2>1 DEF Opened
  <2>4. store'[d].assessing = FALSE
    BY <2>1, <2>2 DEF Opened
  <2> QED BY <2>2, <2>3, <2>4, IdAssumption DEF AssessedWithDetailsView, Open, Shape, Registers
<1>12. Target \subseteq Tab
  BY FirstAssumption
<1> QED BY <1>1, <1>4, <1>5, <1>6, <1>7, <1>8, <1>9, <1>10, <1>11, <1>12, QuietSteps
       DEF TabNext, TestStep, Answer

-----------------------------------------------------------------------------
(* Origins.                                                                 *)

\* The step of OriginChangeIsKept.
OriginStep ==
  \A t \in Tab : store[t] # Null /\ store'[t] # Null =>
    \/ store'[t].originChanged
    \/ store'[t].url = store[t].url /\ ~store[t].originChanged
    \/ popup # Null /\ popup' = Null /\ popup.tab = t /\ store'[t].url = popup.url

LEMMA OriginKept ==
  ASSUME Shape, [TabNext]_tabVars
  PROVE  OriginStep
<1>1. ASSUME NEW n, n = store', SamePages(store, n) PROVE OriginStep
  <2>1. \A t \in Tab : store[t] # Null =>
          store'[t].url = store[t].url /\ store'[t].originChanged = store[t].originChanged
    BY <1>1 DEF SamePages
  <2> QED BY <2>1, Zenon DEF OriginStep
<1>2. CASE UNCHANGED tabVars
  BY <1>1, <1>2 DEF tabVars, contextVars, SamePages
<1>3. ASSUME Quiet PROVE OriginStep
  BY <1>1, <1>3 DEF Quiet
<1>4. ASSUME NEW t \in Tab, TestStep(t) PROVE OriginStep
  BY <1>1, <1>4, TestStepFacts
<1>5. ASSUME NEW t \in Tab, NEW w \in Window, NEW u \in Url, OpenTab(t, w, u) PROVE OriginStep
  <2>1. store[t] = Null /\ \A x \in Tab \ {t} : store'[x] = store[x]
    <3>1. t \notin Open /\ store' = UrlUpdated(store, t)
      BY <1>5 DEF OpenTab, Shape, Activity
    <3> QED BY <3>1, UrlUpdatedFacts DEF Shape, Contexts
  <2> QED BY <1>1, <2>1 DEF SamePages
<1>6. ASSUME NEW t \in Tab, NEW p \in Url \cup Target, Navigate(t, p) PROVE OriginStep
  <2>1. PICK T : store' = UrlUpdated(OnDetailsViewsClosed(store, T), t) /\ t \in Open
    BY <1>6 DEF Navigate
  <2>2. PICK n : n = OnDetailsViewsClosed(store, T)
    OBVIOUS
  <2>3. n \in Stores /\ SameContexts(store, n) /\ SamePages(store, n)
    BY <2>2, ClosedFacts DEF Shape, Contexts
  <2>4. store' = n
    BY <2>1, <2>2, <2>3, UrlUpdatedFacts DEF SameContexts, Shape, Contexts
  <2> QED BY <1>1, <2>3, <2>4
<1>7. ASSUME NEW t \in Tab, RemoveTab(t) PROVE OriginStep
  <2>1. store'[t] = Null /\ \A x \in Tab \ {t} : store[x] # Null =>
          store'[x].url = store[x].url /\ store'[x].originChanged = store[x].originChanged
    BY <1>7, RemoveTabStore, Zenon
  <2> QED BY <2>1, Zenon DEF OriginStep
<1>8. ASSUME PopupInitialized PROVE OriginStep
  <2>1. PICK t \in Tab, url \in Url :
          t = popup.tab /\ url = popup.url /\ store' = OnNewTabCreated(store, t, url)
    BY <1>8 DEF PopupInitialized, Shape, Registers
  <2>2. /\ \A x \in Tab \ {t} : store'[x] = store[x]
        /\ store[t] # Null => store'[t].url = popup.url
    BY <2>1, NewTabFacts DEF Shape, Contexts
  <2>3. popup # Null /\ popup' = Null
    BY <1>8 DEF PopupInitialized
  <2> QED BY <2>1, <2>2, <2>3, Zenon DEF OriginStep
<1>9. ASSUME AnswerTab PROVE OriginStep
  <2>1. PICK t \in Tab :
          /\ \A x \in Tab \ {t} : store'[x] = store[x]
          /\ t \notin Open => store'[t] = store[t]
          /\ t \in Open => \/ store'[t].originChanged
                           \/ store'[t].url = store[t].url /\ ~store[t].originChanged
    BY <1>9, AnswerTabStore, Zenon
  <2> QED BY <2>1, Zenon DEF OriginStep
<1>10. ASSUME AnswerNewWindow PROVE OriginStep
  <2>1. PICK t \in Tab, d \in spare, w \in Window \ OpenWindow : Opened(t, d, w)
    BY <1>10, AnswerNewWindowOpens
  <2>2. store[d] = Null /\ \A x \in Tab \ {d} : store'[x] = store[x]
    BY <2>1 DEF Opened, Shape, Registers, Activity, Contexts
  <2> QED BY <1>1, <2>2 DEF SamePages
<1>11. Target \subseteq Tab
  BY FirstAssumption
<1> QED BY <1>2, <1>3, <1>4, <1>5, <1>6, <1>7, <1>8, <1>9, <1>10, <1>11, QuietSteps
       DEF TabNext, TestStep, Answer

-----------------------------------------------------------------------------
(* Visibility.                                                              *)

\* Wherever a is in s, one of B comes later.
Followed(s, a, B) == \A i \in DOMAIN s : s[i] = a => \E j \in DOMAIN s : j > i /\ s[j] \in B

LEMMA FollowedTail ==
  ASSUME NEW S, NEW s \in Seq(S), s # <<>>, NEW a, NEW B, Followed(s, a, B)
  PROVE  /\ Followed(Tail(s), a, B)
         /\ Head(s) = a => \E q \in B : Has(Tail(s), q)
<1>1. /\ Len(s) \in Nat \ {0} /\ Len(Tail(s)) = Len(s) - 1 /\ s[1] = Head(s)
      /\ \A i \in 1..Len(Tail(s)) : Tail(s)[i] = s[i + 1]
      /\ DOMAIN s = 1..Len(s)
  BY HeadTailProperties, LenProperties, EmptySeq
<1>2. DOMAIN Tail(s) = 1..(Len(s) - 1)
  BY <1>1, HeadTailProperties, LenProperties
<1>3. ASSUME NEW i \in 1..Len(s), s[i] = a
      PROVE  \E j \in 1..(Len(s) - 1) : j > i - 1 /\ Tail(s)[j] \in B
  <2>1. PICK k \in 1..Len(s) : k > i /\ s[k] \in B
    BY <1>1, <1>3 DEF Followed
  <2>2. k - 1 \in 1..(Len(s) - 1) /\ k - 1 > i - 1 /\ (k - 1) + 1 = k
    BY <1>1, <2>1
  <2>3. Tail(s)[k - 1] = s[k]
    BY <1>1, <2>2
  <2> QED BY <2>1, <2>2, <2>3
<1>4. Followed(Tail(s), a, B)
  <2>1. ASSUME NEW i \in 1..(Len(s) - 1), Tail(s)[i] = a
        PROVE  \E j \in 1..(Len(s) - 1) : j > i /\ Tail(s)[j] \in B
    <3>1. i + 1 \in 1..Len(s) /\ s[i + 1] = a /\ (i + 1) - 1 = i
      BY <1>1, <2>1
    <3> QED BY <1>3, <3>1
  <2> QED BY <1>2, <2>1 DEF Followed
<1>5. ASSUME Head(s) = a PROVE \E q \in B : Has(Tail(s), q)
  <2>1. PICK j \in 1..(Len(s) - 1) : Tail(s)[j] \in B
    BY <1>1, <1>3, <1>5
  <2> QED BY <1>2, <2>1 DEF Has
<1> QED BY <1>4, <1>5

\* What follows in s still follows in what s is put before, and so does what is put last.
LEMMA FollowedConcat ==
  ASSUME NEW S, NEW s \in Seq(S), NEW m \in Seq(S), NEW a, NEW B, ~Has(m, a),
         Followed(s, a, B) \/ \E q \in B : Has(m, q)
  PROVE  Followed(s \o m, a, B)
<1>1. /\ Len(s) \in Nat /\ Len(m) \in Nat
      /\ \A i \in 1..Len(s) : (s \o m)[i] = s[i]
      /\ \A j \in 1..Len(m) : (s \o m)[Len(s) + j] = m[j]
      /\ DOMAIN s = 1..Len(s) /\ DOMAIN m = 1..Len(m)
      /\ DOMAIN (s \o m) = 1..(Len(s) + Len(m))
  <2>1. s \o m \in Seq(S) /\ Len(s \o m) = Len(s) + Len(m)
    BY ConcatProperties
  <2>2. \A j \in 1..Len(m) : (s \o m)[Len(s) + j] = m[j]
    OBVIOUS
  <2> QED BY <2>1, <2>2, ConcatProperties, LenProperties
<1>2. ASSUME NEW i \in 1..(Len(s) + Len(m)), (s \o m)[i] = a
      PROVE  \E j \in 1..(Len(s) + Len(m)) : j > i /\ (s \o m)[j] \in B
  <2>1. i \in 1..Len(s)
    <3>1. CASE i > Len(s)
      <4>1. i - Len(s) \in 1..Len(m) /\ Len(s) + (i - Len(s)) = i
        BY <1>1, <3>1
      <4>2. m[i - Len(s)] = a
        BY <1>1, <1>2, <4>1
      <4> QED BY <1>1, <4>1, <4>2 DEF Has
    <3> QED BY <1>1, <3>1
  <2>2. s[i] = a
    BY <1>1, <1>2, <2>1
  <2>3. CASE Followed(s, a, B)
    <3>1. PICK j \in 1..Len(s) : j > i /\ s[j] \in B
      BY <1>1, <2>1, <2>2, <2>3 DEF Followed
    <3> QED BY <1>1, <3>1
  <2>4. CASE \E q \in B : Has(m, q)
    <3>1. PICK j \in 1..Len(m) : m[j] \in B
      BY <1>1, <2>4 DEF Has
    <3>2. Len(s) + j \in 1..(Len(s) + Len(m)) /\ Len(s) + j > i
      BY <1>1, <2>1
    <3> QED BY <1>1, <3>1, <3>2
  <2> QED BY <2>3, <2>4
<1> QED BY <1>1, <1>2 DEF Followed

\* The questions whose answers will show what is active in window w, and the one whose
\* answer will hide it.
Shows(w) == {AllWindows, ActiveTabs(w, FALSE)}
Hides(w) == ActiveTabs(w, TRUE)

\* A late answer that hides what is seen again is followed by one that shows it.
Visibility ==
  /\ SeenIsNotHidden
  /\ \A w \in OpenWindow : ~minimized[w] => Followed(requests, Hides(w), Shows(w))

LEMMA HidesAsk ==
  /\ \A w : Hides(w).ask = "activeTabs" /\ Hides(w).window = w
  /\ \A w : Hides(w) # ActiveTabs(w, FALSE)
BY DEF Hides, ActiveTabs

LEMMA ShowsAsk == \A w : \A q \in Shows(w) : q.ask \in {"windows", "activeTabs"}
BY DEF Shows, AllWindows, ActiveTabs

LEMMA InitVisibility ==
  ASSUME TabInit
  PROVE  Visibility
<1>1. SeenIsNotHidden
  BY FirstAssumption, IdAssumption DEF TabInit, SeenIsNotHidden, OpenWindow, DefaultState
<1>2. \A w \in Window : Followed(requests, Hides(w), Shows(w))
  <2>1. \A w \in Window : ~Has(requests, Hides(w))
    <3>1. \A t : GetTab(t).ask = "tab"
      BY RequestFields
    <3> QED BY <3>1, HidesAsk, InitRequests
  <2> QED BY <2>1 DEF Followed, Has
<1> QED BY <1>1, <1>2 DEF Visibility, OpenWindow

LEMMA ActiveFacts ==
  ASSUME Shape, NEW w \in OpenWindow
  PROVE  /\ w \in Window /\ active[w] \in Tab /\ place[active[w]] = w
         /\ active[w] \in Open /\ store[active[w]] # Null
<1>1. active[w] # Null /\ w \in Window
  BY DEF OpenWindow
<1>2. active[w] \in TabsOf(w)
  BY <1>1 DEF Shape, Activity
<1> QED BY <1>1, <1>2, IdAssumption DEF TabsOf, Open, Shape, Contexts

\* What is seen and hidden waits for an answer.
LEMMA SeenWaits ==
  ASSUME Visibility, NEW w \in OpenWindow, ~minimized[w], store[active[w]].hidden
  PROVE  \E q \in Shows(w) : Has(requests, q)
BY DEF Visibility, SeenIsNotHidden, Shows, Has

\* The browser answers, or is asked more: every window that is seen afterwards will be
\* shown by what is asked now, or was seen before, and what is active there is not
\* hidden or an answer that shows it is still awaited.
LEMMA VisibilityKept ==
  ASSUME NEW s \in Seq(Request), NEW more \in Seq(Request), requests' = s \o more,
         \A w \in Window : Followed(requests, Hides(w), Shows(w)) => Followed(s, Hides(w), Shows(w)),
         Visibility,
         \A w \in OpenWindow' : minimized'[w] \/
           /\ ~Has(more, Hides(w))
           /\ \/ \E q \in Shows(w) : Has(more, q)
              \/ /\ w \in OpenWindow /\ ~minimized[w]
                 /\ store'[active'[w]].hidden => \E q \in Shows(w) : Has(s, q)
  PROVE  Visibility'
<1>1. \A q : Has(requests', q) <=> Has(s, q) \/ Has(more, q)
  BY More
<1>2. ASSUME NEW w \in OpenWindow', ~minimized'[w]
      PROVE  /\ store'[active'[w]].hidden => \E q \in Shows(w) : Has(requests', q)
             /\ Followed(requests', Hides(w), Shows(w))
  <2>1. w \in Window
    BY <1>2 DEF OpenWindow
  <2>2. CASE \E q \in Shows(w) : Has(more, q)
    BY <1>1, <1>2, <2>2, FollowedConcat
  <2>3. CASE /\ w \in OpenWindow /\ ~minimized[w]
             /\ store'[active'[w]].hidden => \E q \in Shows(w) : Has(s, q)
    <3>1. Followed(s, Hides(w), Shows(w))
      BY <2>1, <2>3 DEF Visibility
    <3> QED BY <1>1, <1>2, <2>3, <3>1, FollowedConcat
  <2> QED BY <1>2, <2>2, <2>3
<1> QED BY <1>2 DEF Visibility, SeenIsNotHidden, Shows, Hides, Has

\* Window w was seen before, and what is active there is hidden only if it was.
StillSeen(w) ==
  /\ w \in OpenWindow /\ ~minimized[w]
  /\ store'[active'[w]].hidden => store[active[w]].hidden

LEMMA AskedVisibility ==
  ASSUME Shape, Visibility, NEW more \in Seq(Request), requests' = requests \o more,
         \A q : Has(more, q) => q.ask # "activeTabs",
         \A w \in OpenWindow' : minimized'[w] \/ Has(more, AllWindows) \/ StillSeen(w)
  PROVE  Visibility'
<1>1. \A w : ~Has(more, Hides(w))
  BY HidesAsk
<1>2. requests \in Seq(Request)
  BY DEF Shape
<1>3. \A w \in OpenWindow' : minimized'[w] \/
        /\ ~Has(more, Hides(w))
        /\ \/ \E q \in Shows(w) : Has(more, q)
           \/ /\ w \in OpenWindow /\ ~minimized[w]
              /\ store'[active'[w]].hidden => \E q \in Shows(w) : Has(requests, q)
  <2> SUFFICES ASSUME NEW w \in OpenWindow', ~minimized'[w]
               PROVE  /\ ~Has(more, Hides(w))
                      /\ \/ \E q \in Shows(w) : Has(more, q)
                         \/ /\ w \in OpenWindow /\ ~minimized[w]
                            /\ store'[active'[w]].hidden => \E q \in Shows(w) : Has(requests, q)
    OBVIOUS
  <2>1. CASE Has(more, AllWindows)
    <3>1. AllWindows \in Shows(w)
      BY DEF Shows
    <3> QED BY <1>1, <2>1, <3>1
  <2>2. CASE StillSeen(w)
    <3>1. CASE store[active[w]].hidden
      <4>1. \E q \in Shows(w) : Has(requests, q)
        BY <2>2, <3>1, SeenWaits DEF StillSeen
      <4> QED BY <1>1, <2>2, <4>1 DEF StillSeen
    <3>2. CASE ~store[active[w]].hidden
      BY <1>1, <2>2, <3>2 DEF StillSeen
    <3> QED BY <3>1, <3>2
  <2> QED BY <2>1, <2>2
<1> QED BY <1>2, <1>3, VisibilityKept

LEMMA AnsweredVisibility ==
  ASSUME Shape, Visibility, requests # <<>>,
         NEW more \in Seq(Request), requests' = Tail(requests) \o more,
         \A w : ~Has(more, Hides(w)),
         \A w \in OpenWindow' :
            \/ minimized'[w] \/ Has(more, AllWindows)
            \/ StillSeen(w) /\ Head(requests) \notin Shows(w)
            \/ /\ w \in OpenWindow /\ ~minimized[w]
               /\ Head(requests) = Hides(w) \/ ~store'[active'[w]].hidden
  PROVE  Visibility'
<1>1. /\ requests \in Seq(Request) /\ Tail(requests) \in Seq(Request)
      /\ \A q : Has(requests, q) <=> Head(requests) = q \/ Has(Tail(requests), q)
  BY AnswerFacts DEF Shape
<1>2. \A w : Followed(requests, Hides(w), Shows(w)) =>
        /\ Followed(Tail(requests), Hides(w), Shows(w))
        /\ Head(requests) = Hides(w) => \E q \in Shows(w) : Has(Tail(requests), q)
  BY <1>1, FollowedTail
<1>3. \A w \in OpenWindow' : minimized'[w] \/
        /\ ~Has(more, Hides(w))
        /\ \/ \E q \in Shows(w) : Has(more, q)
           \/ /\ w \in OpenWindow /\ ~minimized[w]
              /\ store'[active'[w]].hidden => \E q \in Shows(w) : Has(Tail(requests), q)
  <2> SUFFICES ASSUME NEW w \in OpenWindow', ~minimized'[w]
               PROVE  \/ \E q \in Shows(w) : Has(more, q)
                      \/ /\ w \in OpenWindow /\ ~minimized[w]
                         /\ store'[active'[w]].hidden => \E q \in Shows(w) : Has(Tail(requests), q)
    OBVIOUS
  <2>1. CASE Has(more, AllWindows)
    <3>1. AllWindows \in Shows(w)
      BY DEF Shows
    <3> QED BY <2>1, <3>1
  <2>2. CASE StillSeen(w) /\ Head(requests) \notin Shows(w)
    <3>1. CASE store[active[w]].hidden
      <4>1. \E q \in Shows(w) : Has(requests, q)
        BY <2>2, <3>1, SeenWaits DEF StillSeen
      <4>2. \E q \in Shows(w) : Has(Tail(requests), q)
        BY <1>1, <2>2, <4>1
      <4> QED BY <2>2, <4>2 DEF StillSeen
    <3>2. CASE ~store[active[w]].hidden
      BY <2>2, <3>2 DEF StillSeen
    <3> QED BY <3>1, <3>2
  <2>3. CASE w \in OpenWindow /\ ~minimized[w] /\ Head(requests) = Hides(w)
    <3>1. Followed(requests, Hides(w), Shows(w))
      BY <2>3 DEF Visibility
    <3> QED BY <1>2, <2>3, <3>1
  <2>4. CASE w \in OpenWindow /\ ~minimized[w] /\ ~store'[active'[w]].hidden
    BY <2>4
  <2> QED BY <2>1, <2>2, <2>3, <2>4
<1> QED BY <1>1, <1>2, <1>3, VisibilityKept

LEMMA WindowsStill ==
  ASSUME Shape, UNCHANGED <<active, minimized>>, SameHidden(store, store')
  PROVE  \A w \in OpenWindow' : minimized'[w] \/ StillSeen(w)
<1> SUFFICES ASSUME NEW w \in OpenWindow', ~minimized'[w] PROVE StillSeen(w)
  OBVIOUS
<1>1. w \in OpenWindow /\ active'[w] = active[w] /\ ~minimized[w]
  BY DEF OpenWindow
<1>2. store'[active[w]].hidden = store[active[w]].hidden
  BY <1>1, ActiveFacts DEF SameHidden
<1> QED BY <1>1, <1>2 DEF StillSeen

LEMMA ActivatedStill ==
  ASSUME Shape, NEW t \in Open, active' = [active EXCEPT ![place[t]] = t],
         store' = Activated(store, t), minimized' = minimized
  PROVE  \A w \in OpenWindow' : minimized'[w] \/ StillSeen(w)
<1> SUFFICES ASSUME NEW w \in OpenWindow', ~minimized'[w] PROVE StillSeen(w)
  OBVIOUS
<1>1. t \in Tab /\ place[t] \in Window /\ store \in Stores /\ store[t] # Null
  BY DEF Open, Shape, Registers, Contexts
<1>2. ~minimized[w] /\ w \in Window
  BY DEF OpenWindow
<1>3. /\ store'[t].hidden = FALSE
      /\ \A x \in Tab \ {t} : store'[x] = store[x]
  BY <1>1, ActivatedFacts
<1>4. CASE w = place[t]
  <2>1. w \in OpenWindow
    <3>1. t \in TabsOf(w)
      BY <1>1, <1>4 DEF TabsOf
    <3> QED BY <1>2, <3>1, IdAssumption DEF Shape, Activity, OpenWindow, TabsOf
  <2>2. active'[w] = t
    BY <1>1, <1>4 DEF Shape, Activity
  <2> QED BY <1>2, <1>3, <2>1, <2>2 DEF StillSeen
<1>5. CASE w # place[t]
  <2>1. active'[w] = active[w] /\ w \in OpenWindow
    BY <1>1, <1>2, <1>5 DEF Shape, Activity, OpenWindow
  <2>2. active[w] \in Tab \ {t}
    BY <1>5, <2>1, ActiveFacts
  <2>3. store'[active'[w]] = store[active[w]]
    BY <1>3, <2>1, <2>2
  <2> QED BY <1>2, <2>1, <2>3 DEF StillSeen
<1> QED BY <1>4, <1>5

\* Only the answer to AllWindows asks for what is active in a window.
LEMMA OtherQuestions ==
  /\ \A q : Has(<<AllWindows>>, q) => q.ask # "activeTabs"
  /\ \A t, q : Has(<<GetTab(t)>>, q) => q.ask # "activeTabs"
  /\ \A w, q : Has(<<TabsOfWindow(w)>>, q) => q.ask # "activeTabs"
  /\ \A w, t, q : Has(<<TabsOfWindow(w), GetTab(t)>>, q) => q.ask # "activeTabs"
  /\ Has(<<AllWindows>>, AllWindows)
BY ShortFacts, RequestFields

LEMMA QuestionSequences ==
  /\ <<>> \in Seq(Request) /\ <<AllWindows>> \in Seq(Request)
  /\ \A t \in Tab : <<GetTab(t)>> \in Seq(Request)
  /\ \A w \in Window : <<TabsOfWindow(w)>> \in Seq(Request)
  /\ \A w \in Window, t \in Tab : <<TabsOfWindow(w), GetTab(t)>> \in Seq(Request)
BY IsRequest

LEMMA OpenTabVisibility ==
  ASSUME Shape, Visibility, NEW t \in Tab, NEW w \in Window, NEW u \in Url, OpenTab(t, w, u)
  PROVE  Visibility'
<1>1. PICK more \in {<<GetTab(t)>>, <<TabsOfWindow(w), GetTab(t)>>} : requests' = requests \o more
  BY DEF OpenTab, Ask
<1>2. more \in Seq(Request) /\ \A q : Has(more, q) => q.ask # "activeTabs"
  BY <1>1, OtherQuestions, QuestionSequences
<1>3. /\ t \in spare /\ store' = UrlUpdated(store, t) /\ minimized' = minimized
      /\ active[w] # Null /\ (active' = active \/ active' = [active EXCEPT ![w] = t])
  BY DEF OpenTab
<1>4. t \notin Open /\ store \in Stores /\ store[t] = Null
  BY <1>3 DEF Shape, Activity, Contexts
<1>5. store'[t].hidden = FALSE /\ \A x \in Tab \ {t} : store'[x] = store[x]
  BY <1>3, <1>4, UrlUpdatedFacts
<1>6. ASSUME NEW v \in OpenWindow', ~minimized'[v] PROVE StillSeen(v)
  <2>1. v \in Window /\ ~minimized[v]
    BY <1>3, <1>6 DEF OpenWindow
  <2>2. v \in OpenWindow
    BY <1>3, <1>6, <2>1 DEF OpenWindow, Shape, Activity
  <2>3. active'[v] = t \/ active'[v] = active[v]
    BY <1>3, <2>1 DEF Shape, Activity
  <2>4. CASE active'[v] = t
    BY <1>5, <2>1, <2>2, <2>4 DEF StillSeen
  <2>5. CASE active'[v] = active[v]
    <3>1. active[v] \in Tab \ {t}
      BY <1>4, <2>2, ActiveFacts
    <3>2. store'[active'[v]] = store[active[v]]
      BY <1>5, <2>5, <3>1
    <3> QED BY <2>1, <2>2, <3>2 DEF StillSeen
  <2> QED BY <2>3, <2>4, <2>5
<1> QED BY <1>1, <1>2, <1>6, AskedVisibility

LEMMA ActivateTabVisibility ==
  ASSUME Shape, Visibility, NEW t \in Tab, ActivateTab(t)
  PROVE  Visibility'
<1>1. PICK w \in Window : w = place[t]
  BY DEF ActivateTab, Open, Shape, Registers
<1>2. requests' = requests \o <<TabsOfWindow(w)>>
  BY <1>1 DEF ActivateTab, Ask
<1>3. \A v \in OpenWindow' : minimized'[v] \/ StillSeen(v)
  BY ActivatedStill DEF ActivateTab
<1>4. <<TabsOfWindow(w)>> \in Seq(Request)
  BY QuestionSequences
<1>5. \A q : Has(<<TabsOfWindow(w)>>, q) => q.ask # "activeTabs"
  BY OtherQuestions
<1> QED BY <1>2, <1>3, <1>4, <1>5, AskedVisibility

LEMMA ToggleWindowVisibility ==
  ASSUME Shape, Visibility, NEW w \in Window, ToggleWindow(w)
  PROVE  Visibility'
<1>1. requests' = requests \o <<AllWindows>>
  BY DEF ToggleWindow, Ask
<1> QED BY <1>1, QuestionSequences, OtherQuestions, AskedVisibility

LEMMA NavigateVisibility ==
  ASSUME Shape, Visibility, NEW t \in Tab, NEW p \in Url \cup Target, Navigate(t, p)
  PROVE  Visibility'
<1>1. requests' = requests \o <<GetTab(t)>>
  BY DEF Navigate, Ask
<1>2. PICK T : store' = UrlUpdated(OnDetailsViewsClosed(store, T), t)
  BY DEF Navigate
<1>3. /\ OnDetailsViewsClosed(store, T) \in Stores
      /\ SameContexts(store, OnDetailsViewsClosed(store, T))
      /\ SameHidden(store, OnDetailsViewsClosed(store, T))
  BY ClosedFacts DEF Shape, Contexts
<1>4. store[t] # Null
  BY DEF Navigate, Shape, Contexts
<1>5. SameHidden(store, store')
  BY <1>2, <1>3, <1>4, UrlUpdatedFacts DEF SameContexts
<1>6. UNCHANGED <<active, minimized>>
  BY DEF Navigate
<1>7. <<GetTab(t)>> \in Seq(Request) /\ \A q : Has(<<GetTab(t)>>, q) => q.ask # "activeTabs"
  BY QuestionSequences, OtherQuestions
<1> QED BY <1>1, <1>5, <1>6, <1>7, WindowsStill, AskedVisibility

LEMMA LoadTabVisibility ==
  ASSUME Shape, Visibility, NEW t \in Tab, LoadTab(t)
  PROVE  Visibility'
<1>1. requests' = requests \o <<GetTab(t)>>
  BY DEF LoadTab, Ask
<1>2. SameHidden(store, store')
  BY LoadTabShape DEF SameHidden
<1>3. UNCHANGED <<active, minimized>>
  BY DEF LoadTab, browserVars
<1>4. <<GetTab(t)>> \in Seq(Request) /\ \A q : Has(<<GetTab(t)>>, q) => q.ask # "activeTabs"
  BY QuestionSequences, OtherQuestions
<1> QED BY <1>1, <1>2, <1>3, <1>4, WindowsStill, AskedVisibility

LEMMA RemoveTabVisibility ==
  ASSUME Shape, Visibility, NEW t \in Tab, RemoveTab(t)
  PROVE  Visibility'
<1>1. PICK w \in Window : w = place[t]
  BY DEF RemoveTab, Open, Shape, Registers
<1>2. \A x \in Tab \ {t} : store[x] # Null =>
        store'[x].hidden = store[x].hidden \/ (active'[w] = x /\ store'[x].hidden = FALSE)
  BY <1>1, RemoveTabStore, Zenon
<1>3. PICK more \in {<<>>, <<AllWindows>>, <<TabsOfWindow(w)>>} :
        /\ requests' = requests \o more
        /\ \/ active[w] # t /\ UNCHANGED <<active, minimized>>
           \/ active' = [active EXCEPT ![w] = Null] /\ minimized' = [minimized EXCEPT ![w] = FALSE]
           \/ /\ minimized' = minimized
              /\ \E n \in TabsOf(w) \ {t} : /\ active' = [active EXCEPT ![w] = n]
                                           /\ store'[n].hidden = FALSE
  <2>1. \/ active[w] # t /\ UNCHANGED <<active, minimized, requests>>
        \/ /\ active' = [active EXCEPT ![w] = Null]
           /\ minimized' = [minimized EXCEPT ![w] = FALSE]
           /\ Ask(<<AllWindows>>)
        \/ /\ minimized' = minimized
           /\ \E n \in TabsOf(w) \ {t} :
                /\ active' = [active EXCEPT ![w] = n]
                /\ store' = Activated([OnDetailsViewsClosed(store, ClosedBy(t)) EXCEPT ![t] = Null], n)
           /\ Ask(<<TabsOfWindow(w)>>)
    BY <1>1 DEF RemoveTab
  <2>2. requests \o <<>> = requests
    BY DEF Shape
  <2>3. ASSUME NEW n \in TabsOf(w) \ {t},
               store' = Activated([OnDetailsViewsClosed(store, ClosedBy(t)) EXCEPT ![t] = Null], n)
        PROVE  store'[n].hidden = FALSE
    <3>1. OnDetailsViewsClosed(store, ClosedBy(t)) \in Stores
          /\ SameContexts(store, OnDetailsViewsClosed(store, ClosedBy(t)))
      BY ClosedFacts DEF Shape, Contexts
    <3>2. n \in Tab /\ n # t /\ store[n] # Null
      BY IdAssumption DEF TabsOf, Open, Shape, Contexts
    <3>3. /\ [OnDetailsViewsClosed(store, ClosedBy(t)) EXCEPT ![t] = Null] \in Stores
          /\ [OnDetailsViewsClosed(store, ClosedBy(t)) EXCEPT ![t] = Null][n] # Null
      BY <3>1, <3>2 DEF Stores, SameContexts
    <3> QED BY <2>3, <3>2, <3>3, ActivatedFacts
  <2> QED BY <2>1, <2>2, <2>3 DEF Ask
<1>4. more \in Seq(Request) /\ \A q : Has(more, q) => q.ask # "activeTabs"
  <2>1. more \in {<<>>, <<AllWindows>>, <<TabsOfWindow(w)>>}
    BY <1>3
  <2>2. more \in Seq(Request)
    BY <2>1, QuestionSequences
  <2>3. \A q : ~Has(<<>>, q)
    BY ShortFacts
  <2> QED BY <2>1, <2>2, <2>3, OtherQuestions, Zenon
<1>5. ASSUME NEW v \in OpenWindow', ~minimized'[v] PROVE StillSeen(v)
  <2>1. v \in Window /\ active'[v] # Null
    BY <1>5 DEF OpenWindow
  <2>2. active[w] # Null
    <3>1. t \in TabsOf(w)
      BY <1>1 DEF TabsOf
    <3> QED BY <3>1, IdAssumption DEF Shape, Activity, TabsOf
  <2>3. v \in OpenWindow /\ ~minimized[v]
    BY <1>3, <1>5, <2>1, <2>2 DEF OpenWindow, Shape, Activity
  <2>4. CASE v # w \/ (active[w] # t /\ UNCHANGED active)
    <3>1. active'[v] = active[v]
      BY <1>3, <2>1, <2>4 DEF Shape, Activity
    <3>2. active[v] \in Tab /\ active[v] # t /\ store[active[v]] # Null
      BY <1>1, <2>3, <2>4, ActiveFacts
    <3>3. store'[active'[v]].hidden = store[active[v]].hidden \/ store'[active'[v]].hidden = FALSE
      BY <1>2, <3>1, <3>2, Zenon
    <3> QED BY <2>3, <3>3 DEF StillSeen
  <2>5. CASE v = w /\ \E n \in TabsOf(w) \ {t} : /\ active' = [active EXCEPT ![w] = n]
                                                /\ store'[n].hidden = FALSE
    <3>1. store'[active'[v]].hidden = FALSE
      BY <2>5 DEF Shape, Activity
    <3> QED BY <2>3, <3>1 DEF StillSeen
  <2>6. CASE v = w /\ active' = [active EXCEPT ![w] = Null]
    BY <2>1, <2>6 DEF Shape, Activity
  <2> QED BY <1>3, <2>4, <2>5, <2>6
<1> QED BY <1>3, <1>4, <1>5, AskedVisibility

LEMMA UnaskedVisibility ==
  ASSUME Shape, Visibility, UNCHANGED <<active, minimized, requests>>, SameHidden(store, store')
  PROVE  Visibility'
<1>1. requests' = requests \o <<>>
  BY DEF Shape
<1>2. <<>> \in Seq(Request) /\ \A q : Has(<<>>, q) => q.ask # "activeTabs"
  BY ShortFacts
<1> QED BY <1>1, <1>2, WindowsStill, AskedVisibility

LEMMA UnaskedSteps ==
  ASSUME Shape, Visibility,
         PopupInitialized \/ \E t \in Tab : OpenPopup(t) \/ TestStep(t)
  PROVE  Visibility'
<1>1. store \in Stores
  BY DEF Shape, Contexts
<1>2. CASE PopupInitialized
  <2>1. popup.tab \in Tab /\ popup.url \in Url
    BY <1>2 DEF PopupInitialized, Shape, Registers
  <2> QED BY <1>1, <1>2, <2>1, NewTabFacts, UnaskedVisibility DEF PopupInitialized
<1>3. CASE \E t \in Tab : OpenPopup(t)
  <2>1. UNCHANGED <<active, minimized, requests, store>>
    BY <1>3 DEF OpenPopup, contextVars
  <2>2. SameHidden(store, store')
    BY <2>1 DEF SameHidden
  <2> QED BY <2>1, <2>2, UnaskedVisibility
<1>4. ASSUME NEW t \in Tab, TestStep(t) PROVE Visibility'
  <2>1. /\ UNCHANGED <<active, minimized>> /\ SameHidden(store, store')
        /\ UNCHANGED requests \/ Ask(<<SwitchTo(t)>>)
    BY <1>4, TestStepFacts DEF browserVars
  <2>2. CASE UNCHANGED requests
    BY <2>1, <2>2, UnaskedVisibility
  <2>3. CASE Ask(<<SwitchTo(t)>>)
    <3>1. <<SwitchTo(t)>> \in Seq(Request) /\ requests' = requests \o <<SwitchTo(t)>>
      BY <2>3, IsRequest DEF Ask
    <3>2. \A r : Has(<<SwitchTo(t)>>, r) => r.ask # "activeTabs"
      BY ShortFacts, RequestFields
    <3> QED BY <2>1, <3>1, <3>2, WindowsStill, AskedVisibility
  <2> QED BY <2>1, <2>2, <2>3
<1> QED BY <1>2, <1>3, <1>4

LEMMA ShowDetailsViewVisibility ==
  ASSUME Shape, Visibility, NEW t \in Tab, ShowDetailsView(t)
  PROVE  Visibility'
<1>1. PICK q \in Request : Ask(<<q>>) /\ (q = NewWindow(t) \/ q.ask = "switchTo")
  BY ShowDetailsViewAsks
<1>2. UNCHANGED <<active, minimized>>
  BY DEF ShowDetailsView, browserVars
<1>3. SameHidden(store, store')
  BY ShowDetailsViewStore
<1>4. <<q>> \in Seq(Request) /\ requests' = requests \o <<q>>
  BY <1>1 DEF Ask
<1>5. \A r : Has(<<q>>, r) => r.ask # "activeTabs"
  BY <1>1, ShortFacts, RequestFields
<1> QED BY <1>2, <1>3, <1>4, <1>5, WindowsStill, AskedVisibility

\* The answer shows and hides nothing that the user sees.
LEMMA IdleAnswer ==
  ASSUME Shape, Visibility, requests # <<>>, Head(requests).ask \notin {"windows", "activeTabs"},
         NEW more \in Seq(Request), requests' = Tail(requests) \o more,
         \A q : Has(more, q) => q.ask # "activeTabs",
         \A w \in OpenWindow' : minimized'[w] \/ Has(more, AllWindows) \/ StillSeen(w)
  PROVE  Visibility'
<1>1. \A w : ~Has(more, Hides(w))
  BY HidesAsk
<1>2. \A w : Head(requests) \notin Shows(w)
  BY ShowsAsk
<1> QED BY <1>1, <1>2, AnsweredVisibility

LEMMA NothingMore ==
  ASSUME Answered(<<>>)
  PROVE  /\ <<>> \in Seq(Request) /\ requests' = Tail(requests) \o <<>>
         /\ \A q : ~Has(<<>>, q)
BY ShortFacts DEF Answered

LEMMA AnswerTabsOfVisibility ==
  ASSUME Shape, Visibility, AnswerTabsOf
  PROVE  Visibility'
<1>1. Asked("tabsOf") /\ Answered(<<>>) /\ UNCHANGED <<active, minimized>>
  BY DEF AnswerTabsOf, browserVars
<1>2. PICK v \in Window : \A x \in Tab : x \notin TabsOf(v) \/ x = active[v] => store'[x] = store[x]
  BY AnswerTabsOfStore, Zenon
<1>3. ASSUME NEW w \in OpenWindow', ~minimized'[w] PROVE StillSeen(w)
  <2>1. w \in OpenWindow /\ ~minimized[w] /\ active'[w] = active[w]
    BY <1>1, <1>3 DEF OpenWindow
  <2>2. active[w] \in Tab /\ place[active[w]] = w
    BY <2>1, ActiveFacts
  <2>3. store'[active[w]] = store[active[w]]
    BY <1>2, <2>2 DEF TabsOf
  <2> QED BY <2>1, <2>3 DEF StillSeen
<1>4. requests # <<>> /\ Head(requests).ask \notin {"windows", "activeTabs"}
  BY <1>1 DEF Asked
<1> QED BY <1>1, <1>3, <1>4, NothingMore, IdleAnswer

LEMMA AnswerTabVisibility ==
  ASSUME Shape, Visibility, AnswerTab
  PROVE  Visibility'
<1>1. Asked("tab") /\ Answered(<<>>) /\ UNCHANGED <<active, minimized>>
  BY DEF AnswerTab, browserVars
<1>2. SameHidden(store, store')
  BY AnswerTabStore, Zenon
<1>3. requests # <<>> /\ Head(requests).ask \notin {"windows", "activeTabs"}
  BY <1>1 DEF Asked
<1> QED BY <1>1, <1>2, <1>3, WindowsStill, NothingMore, IdleAnswer

LEMMA FailNewWindowVisibility ==
  ASSUME Shape, Visibility, FailNewWindow
  PROVE  Visibility'
<1>1. Asked("newWindow") /\ Answered(<<>>) /\ UNCHANGED <<active, minimized, store>>
  BY DEF FailNewWindow, browserVars
<1>2. SameHidden(store, store')
  BY <1>1 DEF SameHidden
<1>3. requests # <<>> /\ Head(requests).ask \notin {"windows", "activeTabs"}
  BY <1>1 DEF Asked
<1> QED BY <1>1, <1>2, <1>3, WindowsStill, NothingMore, IdleAnswer

LEMMA AnswerNewWindowVisibility ==
  ASSUME Shape, Visibility, AnswerNewWindow
  PROVE  Visibility'
<1>1. PICK d \in spare, w \in Window :
        requests' = Tail(requests) \o <<TabsOfWindow(w), AllWindows, GetTab(d)>>
  BY AnswerNewWindowOpens
<1>2. d \in Tab
  BY DEF Shape, Registers
<1>3. <<TabsOfWindow(w), AllWindows, GetTab(d)>> \in Seq(Request)
  BY <1>2, IsRequest
<1>4. /\ Has(<<TabsOfWindow(w), AllWindows, GetTab(d)>>, AllWindows)
      /\ \A q : Has(<<TabsOfWindow(w), AllWindows, GetTab(d)>>, q) => q.ask # "activeTabs"
  BY ShortFacts, RequestFields
<1>5. requests # <<>> /\ Head(requests).ask \notin {"windows", "activeTabs"}
  BY DEF AnswerNewWindow, Asked
<1> QED BY <1>1, <1>3, <1>4, <1>5, IdleAnswer

LEMMA AnswerSwitchToVisibility ==
  ASSUME Shape, Visibility, AnswerSwitchTo
  PROVE  Visibility'
<1>1. PICK more \in Seq(Request) :
        /\ requests' = Tail(requests) \o more
        /\ \A q : Has(more, q) => \E w : q = TabsOfWindow(w) \/ q = FocusWindow(w)
  BY AnswerSwitchToFacts
<1>2. \A q : Has(more, q) => q.ask # "activeTabs"
  BY <1>1, RequestFields
<1>3. minimized' = minimized
  BY AnswerSwitchToFacts
<1>4. \A w \in OpenWindow' : minimized'[w] \/ StillSeen(w)
  <2>1. CASE UNCHANGED <<active, store>>
    BY <1>3, <2>1, WindowsStill DEF SameHidden
  <2>2. CASE \E t \in Open : /\ active' = [active EXCEPT ![place[t]] = t]
                            /\ store' = Activated(store, t)
    BY <1>3, <2>2, ActivatedStill
  <2> QED BY <2>1, <2>2, AnswerSwitchToFacts
<1>5. requests # <<>> /\ Head(requests).ask \notin {"windows", "activeTabs"}
  BY DEF AnswerSwitchTo, Asked
<1> QED BY <1>1, <1>2, <1>4, <1>5, IdleAnswer

LEMMA AnswerFocusVisibility ==
  ASSUME Shape, Visibility, AnswerFocus
  PROVE  Visibility'
<1>1. Asked("focus") /\ UNCHANGED <<active, store>>
  BY DEF AnswerFocus
<1>2. requests # <<>> /\ Head(requests).ask \notin {"windows", "activeTabs"}
  BY <1>1 DEF Asked
<1>3. CASE Answered(<<>>) /\ minimized' = minimized
  <2>1. SameHidden(store, store')
    BY <1>1 DEF SameHidden
  <2> QED BY <1>1, <1>2, <1>3, <2>1, WindowsStill, NothingMore, IdleAnswer
<1>4. CASE Answered(<<AllWindows>>)
  <2>1. requests' = Tail(requests) \o <<AllWindows>>
    BY <1>4 DEF Answered
  <2> QED BY <1>2, <2>1, QuestionSequences, OtherQuestions, IdleAnswer
<1> QED BY <1>3, <1>4 DEF AnswerFocus

\* Every window is asked about, and none that the user sees is to be hidden.
LEMMA AnswerWindowsVisibility ==
  ASSUME Shape, Visibility, AnswerWindows
  PROVE  Visibility'
<1>1. PICK more \in Seq(Request) :
        /\ requests' = Tail(requests) \o more
        /\ \A q : Has(more, q) <=> \E w \in OpenWindow : q = ActiveTabs(w, minimized[w])
  BY AnswerWindowsRequests
<1>2. UNCHANGED <<active, minimized, store>>
  BY DEF AnswerWindows, browserVars
<1>3. Tail(requests) \in Seq(Request)
  BY AskedFacts, AnswerFacts DEF AnswerWindows
<1>4. requests \in Seq(Request) /\ requests # <<>>
  BY DEF AnswerWindows, Asked, Shape
<1>5. \A w : Followed(requests, Hides(w), Shows(w)) => Followed(Tail(requests), Hides(w), Shows(w))
  BY <1>4, FollowedTail
<1>6. ASSUME NEW w \in OpenWindow', ~minimized'[w]
      PROVE  ~Has(more, Hides(w)) /\ \E q \in Shows(w) : Has(more, q)
  <2>1. w \in OpenWindow /\ minimized[w] = FALSE
    <3>1. w \in OpenWindow /\ ~minimized[w]
      BY <1>2, <1>6 DEF OpenWindow
    <3>2. minimized[w] \in BOOLEAN
      BY <3>1 DEF OpenWindow, Shape, Activity
    <3> QED BY <3>1, <3>2
  <2>2. ActiveTabs(w, minimized[w]) = ActiveTabs(w, FALSE)
    BY <2>1, Zenon
  <2>3. Has(more, ActiveTabs(w, FALSE))
    BY <1>1, <2>1, <2>2, Zenon
  <2>4. ActiveTabs(w, FALSE) \in Shows(w)
    BY Zenon DEF Shows
  <2>5. ASSUME NEW v, Hides(w) = ActiveTabs(v, minimized[v]) PROVE v = w
    <3>1. ActiveTabs(v, minimized[v]).window = v
      BY DEF ActiveTabs
    <3>2. Hides(w).window = w
      BY HidesAsk, Zenon
    <3> QED BY <2>5, <3>1, <3>2, Zenon
  <2>6. Hides(w) # ActiveTabs(w, minimized[w])
    BY <2>2, HidesAsk, Zenon
  <2> QED BY <1>1, <2>3, <2>4, <2>5, <2>6, Zenon
<1> QED BY <1>1, <1>3, <1>5, <1>6, VisibilityKept

\* An answer for a window shows or hides what is active there now.
LEMMA AnswerActiveTabsVisibility ==
  ASSUME Shape, Visibility, AnswerActiveTabs
  PROVE  Visibility'
<1>1. Asked("activeTabs") /\ Answered(<<>>) /\ UNCHANGED <<active, minimized>>
  BY DEF AnswerActiveTabs, browserVars
<1>2. PICK v : v = Head(requests).window
  OBVIOUS
<1>3. /\ v \in Window /\ Head(requests).hidden \in BOOLEAN
      /\ Head(requests) = ActiveTabs(v, Head(requests).hidden)
  BY <1>1, <1>2, AskedFacts, HeadFacts
<1>4. /\ \A x \in Tab : x # active[v] => store'[x] = store[x]
      /\ active[v] # Null /\ store[active[v]] # Null =>
           store'[active[v]].hidden = Head(requests).hidden
  BY <1>2, AnswerActiveTabsStore, Zenon
<1>5. ASSUME NEW w \in OpenWindow', ~minimized'[w]
      PROVE  \/ StillSeen(w) /\ Head(requests) \notin Shows(w)
             \/ /\ w \in OpenWindow /\ ~minimized[w]
                /\ Head(requests) = Hides(w) \/ ~store'[active'[w]].hidden
  <2>1. w \in OpenWindow /\ ~minimized[w] /\ active'[w] = active[w]
    BY <1>1, <1>5 DEF OpenWindow
  <2>2. /\ active[w] \in Tab /\ place[active[w]] = w /\ active[w] # Null
        /\ store[active[w]] # Null
    BY <2>1, ActiveFacts DEF OpenWindow
  <2>3. CASE w = v /\ Head(requests).hidden = TRUE
    <3>1. Head(requests) = Hides(w)
      BY <1>3, <2>3, Zenon DEF Hides
    <3> QED BY <2>1, <3>1
  <2>4. CASE w = v /\ Head(requests).hidden = FALSE
    <3>1. store'[active[w]].hidden = FALSE
      BY <1>4, <2>2, <2>4, Zenon
    <3> QED BY <2>1, <3>1
  <2>5. CASE w # v
    <3>1. active[v] # active[w]
      BY <2>1, <2>2, <2>5, <1>3, ActiveFacts DEF OpenWindow
    <3>2. store'[active'[w]] = store[active[w]]
      BY <1>4, <2>1, <2>2, <3>1
    <3>3. Head(requests) # AllWindows /\ Head(requests) # ActiveTabs(w, FALSE)
      <4>1. Head(requests).ask = "activeTabs" /\ Head(requests).window # w
        BY <1>1, <1>2, <2>5 DEF Asked
      <4>2. ActiveTabs(w, FALSE).window = w
        BY DEF ActiveTabs
      <4> QED BY <4>1, <4>2, RequestFields
    <3> QED BY <2>1, <3>2, <3>3 DEF StillSeen, Shows
  <2> QED BY <1>3, <2>3, <2>4, <2>5
<1>6. requests # <<>>
  BY <1>1 DEF Asked
<1> QED BY <1>1, <1>5, <1>6, NothingMore, AnsweredVisibility

LEMMA VisibilityStep ==
  ASSUME Shape, Visibility, [TabNext]_tabVars
  PROVE  Visibility'
<1>1. CASE UNCHANGED tabVars
  BY <1>1, UnaskedVisibility DEF tabVars, browserVars, contextVars, SameHidden
<1>2. CASE Answer
  BY <1>2, AnswerTabsOfVisibility, AnswerWindowsVisibility, AnswerActiveTabsVisibility,
     AnswerTabVisibility, AnswerNewWindowVisibility, FailNewWindowVisibility,
     AnswerSwitchToVisibility, AnswerFocusVisibility
     DEF Answer
<1>3. Target \subseteq Tab
  BY FirstAssumption
<1> QED BY <1>1, <1>2, <1>3, OpenTabVisibility, ActivateTabVisibility, RemoveTabVisibility,
           NavigateVisibility, ToggleWindowVisibility, LoadTabVisibility, UnaskedSteps,
           ShowDetailsViewVisibility
    DEF TabNext, TestStep

-----------------------------------------------------------------------------
(* The theorems.                                                            *)

TabInv == Shape /\ Views /\ Follows /\ AssessedWithDetailsView /\ Visibility

\* A browser with only web pages open, of which each has been asked for.
THEOREM TabInitEstablishesInv == TabInit => TabInv
BY InitShape, InitViews, InitFollows, InitAssessed, InitVisibility DEF TabInv

\* No act of the user, event of the browser or answer, however late, disturbs it.
THEOREM TabStepKeepsInv == TabInv /\ [TabNext]_tabVars => TabInv'
BY ShapeStep, ViewsStep, FollowsStep, AssessedStep, VisibilityStep DEF TabInv

THEOREM TabInvariance == TabSpec => []TabInv
<1>1. TabInit => TabInv
  BY TabInitEstablishesInv
<1>2. TabInv /\ [TabNext]_tabVars => TabInv'
  BY TabStepKeepsInv
<1> QED BY <1>1, <1>2, PTL DEF TabSpec

\* The shape of what the browser and the contexts hold: the active tab of an open
\* window is one of its own.
THEOREM TabTypes == TabSpec => []TabTypeOK
<1>1. TabInv => TabTypeOK
  BY ShapeIsType DEF TabInv
<1> QED BY <1>1, TabInvariance, PTL

\* Exactly the open tabs have a context, and what it says of the page is right or will
\* be corrected by an answer that has been asked for.
THEOREM ContextsFollowPages == TabSpec => []ContextFollowsPage
<1>1. TabInv => ContextFollowsPage
  BY DEF TabInv, Shape, Contexts, Follows, Has, ContextFollowsPage
<1> QED BY <1>1, TabInvariance, PTL

\* What the user sees is not taken for hidden once every answer is in.
THEOREM SeenAreNotHidden == TabSpec => []SeenIsNotHidden
<1>1. TabInv => SeenIsNotHidden
  BY DEF TabInv, Visibility
<1> QED BY <1>1, TabInvariance, PTL

\* A tab under test has the one details view that the map leads to.
THEOREM DetailsViewsAreFound == TabSpec => []OneDetailsView
<1>1. TabInv => OneDetailsView
  BY DEF TabInv, Views
<1> QED BY <1>1, TabInvariance, PTL

\* No assessment is left on a page whose details view is gone, unless a scan of it ran
\* when the details view was closed.
THEOREM AssessmentsHaveDetailsViews == TabSpec => []AssessedWithDetailsView
<1>1. TabInv => AssessedWithDetailsView
  BY DEF TabInv
<1> QED BY <1>1, TabInvariance, PTL

\* Only a popup makes a context forget that its page has come to another origin.
THEOREM OriginChangesAreKept == TabSpec => OriginChangeIsKept
<1>1. TabInv /\ [TabNext]_tabVars => [OriginStep]_tabVars
  BY OriginKept DEF TabInv
<1>2. TabSpec => [][OriginStep]_tabVars
  BY <1>1, TabInvariance, PTL DEF TabSpec
<1> QED BY <1>2 DEF OriginStep, OriginChangeIsKept
=============================================================================
