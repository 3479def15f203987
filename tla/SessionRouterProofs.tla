------------------------ MODULE SessionRouterProofs -----------------------
(* The routing of requests to workflows, for any number of sessions,        *)
(* workflows, handlers and restarts.                                        *)
EXTENDS SessionRouter, TLAPS

(* What a request in flight knows of the workflow it is about; answers are  *)
(* only held by workflows that have a session.                              *)
RequestsKnowTheirSession ==
  /\ \A h \in Handlers :
       hnd[h] # Idle => /\ home[hnd[h].wf] = hnd[h].session
                        /\ hnd[h].at = "signal" => home[hnd[h].about] = hnd[h].session
                        /\ hnd[h].at = "start" => stage[hnd[h].wf] = "named"
  /\ \A g, h \in Handlers :
       hnd[g].at = "start" /\ hnd[h].at = "start" /\ hnd[g].wf = hnd[h].wf => g = h
  /\ \A w \in Workflows : stage[w] = "unused" <=> home[w] = None
  /\ \A w \in Workflows : home[w] = None => inbox[w] = <<>>

RouteInv == TypeOK /\ EntriesStarted /\ AnswersStayInSession /\ RequestsKnowTheirSession

LEMMA RouteInit == Init => RouteInv
<1> SUFFICES ASSUME Init PROVE RouteInv
  OBVIOUS
<1>1. TypeOK
  BY RouterAssumption DEF Init, TypeOK, Place
<1>2. EntriesStarted /\ AnswersStayInSession
  BY DEF Init, EntriesStarted, AnswersStayInSession
<1>3. RequestsKnowTheirSession
  BY DEF Init, RequestsKnowTheirSession, Idle
<1> QED
  BY <1>1, <1>2, <1>3 DEF RouteInv

(* The fields of a handler that is serving.                                 *)
LEMMA PlaceFields ==
  ASSUME TypeOK, NEW h \in Handlers
  PROVE  \/ hnd[h] = Idle
         \/ /\ hnd[h].at \in {"start", "forget", "cancel"}
            /\ hnd[h].session \in Sessions /\ hnd[h].wf \in Workflows /\ hnd[h].about = None
            /\ hnd[h] = Serving(hnd[h].at, hnd[h].session, hnd[h].wf, None)
         \/ /\ hnd[h].at = "signal"
            /\ hnd[h].session \in Sessions /\ hnd[h].wf \in Workflows
            /\ hnd[h].about \in Workflows
            /\ hnd[h] = Serving("signal", hnd[h].session, hnd[h].wf, hnd[h].about)
BY DEF TypeOK, Place, Serving, Idle

LEMMA PlaceOf ==
  /\ Idle \in Place
  /\ \A at \in {"start", "forget", "cancel"}, s \in Sessions, w \in Workflows :
       Serving(at, s, w, None) \in Place
  /\ \A s \in Sessions, w, a \in Workflows : Serving("signal", s, w, a) \in Place
BY DEF Place

(* A handler that goes on to forget.                                        *)
LEMMA OnToForget ==
  ASSUME TypeOK, NEW h \in Handlers, hnd[h].at \in {"start", "cancel"}
  PROVE  [hnd[h] EXCEPT !.at = "forget"] \in Place
<1>1. hnd[h] # Idle /\ hnd[h].at # "signal"
  BY DEF Idle
<1>2. PICK at \in {"start", "forget", "cancel"}, s \in Sessions, w \in Workflows :
        hnd[h] = Serving(at, s, w, None)
  BY <1>1, PlaceFields
<1>3. [hnd[h] EXCEPT !.at = "forget"] = Serving("forget", s, w, None)
  BY <1>2 DEF Serving
<1> QED
  BY <1>3, PlaceOf

(* One request is given up or goes on to forget, while no workflow changes  *)
(* its session or its name.                                                 *)
LEMMA RequestSettled ==
  ASSUME TypeOK, RequestsKnowTheirSession, NEW h \in Handlers, UNCHANGED <<home, inbox>>,
         \A g \in Handlers \ {h} : hnd'[g] = hnd[g],
         hnd'[h] = Idle \/ (hnd[h] # Idle /\ hnd'[h] = [hnd[h] EXCEPT !.at = "forget"]),
         \A w \in Workflows : stage'[w] = "unused" <=> stage[w] = "unused",
         \A g \in Handlers \ {h} :
           hnd[g].at = "start" => stage'[hnd[g].wf] = stage[hnd[g].wf]
  PROVE  RequestsKnowTheirSession'
<1>1. hnd'[h] = Idle \/ (/\ hnd'[h].at = "forget" /\ hnd'[h].wf = hnd[h].wf
                        /\ hnd'[h].session = hnd[h].session /\ hnd[h] # Idle)
  BY PlaceFields DEF Serving
<1>2. Idle.at = "idle"
  BY DEF Idle
<1>3. \A g \in Handlers :
        hnd'[g] # Idle => /\ home[hnd'[g].wf] = hnd'[g].session
                          /\ hnd'[g].at = "signal" => home[hnd'[g].about] = hnd'[g].session
                          /\ hnd'[g].at = "start" => stage'[hnd'[g].wf] = "named"
  BY <1>1, <1>2 DEF RequestsKnowTheirSession, Idle
<1>4. \A f, g \in Handlers :
        hnd'[f].at = "start" /\ hnd'[g].at = "start" /\ hnd'[f].wf = hnd'[g].wf => f = g
  BY <1>1, <1>2 DEF RequestsKnowTheirSession
<1> QED
  BY <1>3, <1>4 DEF RequestsKnowTheirSession

(* One request loads the entry of its session.                              *)
LEMMA RequestLoaded ==
  ASSUME RouteInv, NEW h \in Handlers, NEW s \in Sessions, NEW at \in {"signal", "cancel"},
         NEW a \in Workflows \cup {None}, LoadEntry(h, s, at, a),
         at = "signal" => home[a] = s
  PROVE  RequestsKnowTheirSession'
<1>1. /\ UNCHANGED <<home, inbox, stage>> /\ \A g \in Handlers \ {h} : hnd'[g] = hnd[g]
      /\ hnd'[h].at = at /\ hnd'[h].session = s /\ hnd'[h].wf = active[s]
      /\ hnd'[h].about = a /\ home[active[s]] = s
  BY DEF LoadEntry, Serving, flowVars, RouteInv, TypeOK, EntriesStarted
<1>2. RequestsKnowTheirSession
  BY DEF RouteInv
<1>3. \A g \in Handlers :
        hnd'[g] # Idle => /\ home[hnd'[g].wf] = hnd'[g].session
                          /\ hnd'[g].at = "signal" => home[hnd'[g].about] = hnd'[g].session
                          /\ hnd'[g].at = "start" => stage[hnd'[g].wf] = "named"
  BY <1>1, <1>2 DEF RequestsKnowTheirSession
<1>4. \A f, g \in Handlers :
        hnd'[f].at = "start" /\ hnd'[g].at = "start" /\ hnd'[f].wf = hnd'[g].wf => f = g
  BY <1>1, <1>2 DEF RequestsKnowTheirSession
<1> QED
  BY <1>1, <1>2, <1>3, <1>4 DEF RequestsKnowTheirSession

(* A delivered answer joins those w had, and reaches no other workflow.     *)
LEMMA DeliveredHolds ==
  ASSUME TypeOK, NEW w \in Workflows, NEW a \in Workflows, inbox' = Delivered(w, a)
  PROVE  /\ inbox' \in [Workflows -> Seq(Workflows)]
         /\ \A z \in Workflows \ {w} : inbox'[z] = inbox[z]
         /\ \A i \in DOMAIN inbox'[w] :
              inbox'[w][i] = a \/ (i \in DOMAIN inbox[w] /\ inbox'[w][i] = inbox[w][i])
<1>1. inbox \in [Workflows -> Seq(Workflows)] /\ inbox[w] \in Seq(Workflows)
  BY DEF TypeOK
<1>2. CASE kind[w] = "graph"
  <2>1. inbox' = [inbox EXCEPT ![w] = <<a>>]
    BY <1>2 DEF Delivered
  <2> QED
    BY <1>1, <2>1
<1>3. CASE kind[w] # "graph"
  <2>1. inbox' = [inbox EXCEPT ![w] = Append(inbox[w], a)]
    BY <1>3 DEF Delivered
  <2>2. /\ inbox'[w] = Append(inbox[w], a) /\ Append(inbox[w], a) \in Seq(Workflows)
        /\ DOMAIN Append(inbox[w], a) = 1..(Len(inbox[w]) + 1)
    BY <1>1, <2>1
  <2>3. \A i \in 1..(Len(inbox[w]) + 1) :
          Append(inbox[w], a)[i] = IF i \in DOMAIN inbox[w] THEN inbox[w][i] ELSE a
    BY <1>1
  <2> QED
    BY <1>1, <2>1, <2>2, <2>3
<1> QED
  BY <1>2, <1>3

LEMMA LaunchRoute ==
  ASSUME RouteInv, NEW h \in Handlers, NEW s \in Sessions, NEW w \in Workflows,
         NEW k \in {"chat", "graph"}, Launch(h, s, w, k)
  PROVE  RouteInv'
<1>1. TypeOK'
  <2>1. Serving("start", s, w, None) \in Place
    BY PlaceOf
  <2> QED
    BY <2>1 DEF RouteInv, TypeOK, Launch, Stored
<1>2. home[w] = None /\ inbox[w] = <<>>
  BY DEF RouteInv, RequestsKnowTheirSession, Launch
<1>3. \A g \in Handlers : hnd[g] # Idle => hnd[g].wf # w /\ hnd[g].about # w
  BY <1>2, PlaceFields, RouterAssumption DEF RouteInv, RequestsKnowTheirSession
<1>4. \A t \in Sessions : active[t] # w
  BY <1>2, RouterAssumption DEF RouteInv, EntriesStarted
<1>5. EntriesStarted'
  <2> SUFFICES ASSUME NEW t \in Sessions, active'[t] # None
               PROVE  /\ home'[active'[t]] = t
                      /\ stage'[active'[t]] = "named" =>
                           \E g \in Handlers : hnd'[g].wf = active'[t] /\ hnd'[g].at \in {"start", "forget"}
    BY DEF EntriesStarted
  <2>1. CASE t = s
    <3>1. active'[t] = w /\ home'[w] = s /\ hnd'[h] = Serving("start", s, w, None)
      BY <2>1 DEF Launch, Stored, RouteInv, TypeOK
    <3> QED
      BY <2>1, <3>1 DEF Serving
  <2>2. CASE t # s
    <3>1. /\ active'[t] = active[t] /\ active[t] \in Workflows \ {w}
          /\ home'[active[t]] = home[active[t]] /\ stage'[active[t]] = stage[active[t]]
      BY <2>2, <1>4 DEF Launch, Stored, RouteInv, TypeOK
    <3>2. \A g \in Handlers : hnd[g].wf = active[t] => g # h /\ hnd'[g] = hnd[g]
      BY <3>1, RouterAssumption DEF Launch, Arrives, Idle, RouteInv, TypeOK
    <3> QED
      BY <3>1, <3>2 DEF RouteInv, EntriesStarted
  <2> QED
    BY <2>1, <2>2
<1>6. AnswersStayInSession'
  <2> SUFFICES ASSUME NEW x \in Workflows, NEW i \in DOMAIN inbox[x]
               PROVE  home'[inbox[x][i]] = home'[x]
    BY DEF AnswersStayInSession, Launch
  <2>1. x # w /\ home[x] # None /\ inbox[x][i] \in Workflows
    BY <1>2 DEF RouteInv, TypeOK, RequestsKnowTheirSession
  <2>2. inbox[x][i] # w
    BY <2>1, <1>2 DEF RouteInv, AnswersStayInSession
  <2> QED
    BY <2>1, <2>2 DEF RouteInv, TypeOK, AnswersStayInSession, Launch
<1>7. RequestsKnowTheirSession'
  <2>1. \A g \in Handlers \ {h} : hnd'[g] = hnd[g]
    BY DEF Launch, RouteInv, TypeOK
  <2>2. /\ \A x \in Workflows \ {w} : home'[x] = home[x] /\ stage'[x] = stage[x]
        /\ home'[w] = s /\ stage'[w] = "named" /\ inbox' = inbox
    BY DEF Launch, RouteInv, TypeOK
  <2>3. hnd'[h] = Serving("start", s, w, None)
    BY DEF Launch, RouteInv, TypeOK
  <2>4. ASSUME NEW g \in Handlers, hnd'[g] # Idle
        PROVE  /\ home'[hnd'[g].wf] = hnd'[g].session
               /\ hnd'[g].at = "signal" => home'[hnd'[g].about] = hnd'[g].session
               /\ hnd'[g].at = "start" => stage'[hnd'[g].wf] = "named"
    <3>1. CASE g = h
      BY <3>1, <2>2, <2>3 DEF Serving
    <3>2. CASE g # h
      BY <3>2, <2>1, <2>2, <2>4, <1>3, PlaceFields DEF RouteInv, RequestsKnowTheirSession
    <3> QED
      BY <3>1, <3>2
  <2>5. \A x \in Workflows : /\ stage'[x] = "unused" <=> home'[x] = None
                             /\ home'[x] = None => inbox'[x] = <<>>
    BY <2>2, RouterAssumption DEF RouteInv, RequestsKnowTheirSession
  <2>6. ASSUME NEW f \in Handlers, NEW g \in Handlers, hnd'[f].at = "start", hnd'[g].at = "start",
               hnd'[f].wf = hnd'[g].wf
        PROVE  f = g
    BY <2>1, <2>3, <2>6, <1>3 DEF RouteInv, RequestsKnowTheirSession, Serving, Idle
  <2> QED
    BY <2>4, <2>5, <2>6 DEF RequestsKnowTheirSession
<1> QED
  BY <1>1, <1>5, <1>6, <1>7 DEF RouteInv

LEMMA ExecuteWorkflowRoute ==
  ASSUME RouteInv, NEW h \in Handlers, ExecuteWorkflow(h)
  PROVE  RouteInv'
<1> USE DEF RouteInv
<1>1. TypeOK'
  BY PlaceFields, PlaceOf, OnToForget DEF TypeOK, ExecuteWorkflow, flowVars, routeVars
<1>2. EntriesStarted'
  BY PlaceFields DEF TypeOK, EntriesStarted, RequestsKnowTheirSession, ExecuteWorkflow, Idle, Serving, Live, flowVars, routeVars
<1>3. AnswersStayInSession'
  BY PlaceFields DEF TypeOK, AnswersStayInSession, RequestsKnowTheirSession, ExecuteWorkflow, Live, flowVars, routeVars
<1>4. RequestsKnowTheirSession'
  <2>1. /\ UNCHANGED <<home, inbox>> /\ hnd'[h] = Idle
        /\ \A g \in Handlers \ {h} : hnd'[g] = hnd[g]
        /\ stage' = [stage EXCEPT ![hnd[h].wf] = "running"] /\ stage[hnd[h].wf] = "named"
    BY DEF ExecuteWorkflow, RequestsKnowTheirSession, Idle, TypeOK
  <2>2. /\ \A w \in Workflows : stage'[w] = "unused" <=> stage[w] = "unused"
        /\ \A g \in Handlers \ {h} :
             hnd[g].at = "start" => stage'[hnd[g].wf] = stage[hnd[g].wf]
    BY <2>1, PlaceFields DEF ExecuteWorkflow, TypeOK, RequestsKnowTheirSession, Idle
  <2> QED
    BY <2>1, <2>2, RequestSettled
<1> QED
  BY <1>1, <1>2, <1>3, <1>4

LEMMA ExecuteWorkflowFailsRoute ==
  ASSUME RouteInv, NEW h \in Handlers, NEW started \in BOOLEAN, ExecuteWorkflowFails(h, started)
  PROVE  RouteInv'
<1> USE DEF RouteInv
<1>1. TypeOK'
  BY PlaceFields, PlaceOf, OnToForget DEF TypeOK, ExecuteWorkflowFails, flowVars, routeVars
<1>2. EntriesStarted'
  BY PlaceFields DEF TypeOK, EntriesStarted, RequestsKnowTheirSession, ExecuteWorkflowFails, Idle, Serving, Live, flowVars, routeVars
<1>3. AnswersStayInSession'
  BY PlaceFields DEF TypeOK, AnswersStayInSession, RequestsKnowTheirSession, ExecuteWorkflowFails, Live, flowVars, routeVars
<1>4. RequestsKnowTheirSession'
  <2>1. /\ UNCHANGED <<home, inbox>> /\ hnd[h] # Idle /\ hnd[h].at = "start"
        /\ hnd' = [hnd EXCEPT ![h].at = "forget"]
        /\ stage' = stage \/ stage' = [stage EXCEPT ![hnd[h].wf] = "running"]
        /\ stage[hnd[h].wf] = "named"
    BY DEF ExecuteWorkflowFails, RequestsKnowTheirSession, Idle
  <2>2. /\ \A g \in Handlers \ {h} : hnd'[g] = hnd[g]
        /\ hnd'[h] = [hnd[h] EXCEPT !.at = "forget"]
    BY <2>1 DEF TypeOK
  <2>3. /\ \A w \in Workflows : stage'[w] = "unused" <=> stage[w] = "unused"
        /\ \A g \in Handlers \ {h} :
             hnd[g].at = "start" => stage'[hnd[g].wf] = stage[hnd[g].wf]
    BY <2>1, PlaceFields DEF TypeOK, RequestsKnowTheirSession, Idle
  <2> QED
    BY <2>1, <2>2, <2>3, RequestSettled
<1> QED
  BY <1>1, <1>2, <1>3, <1>4

LEMMA ForgetRoute ==
  ASSUME RouteInv, NEW h \in Handlers, Forget(h)
  PROVE  RouteInv'
<1> USE DEF RouteInv
<1>1. TypeOK'
  BY PlaceFields, PlaceOf, OnToForget DEF TypeOK, Forget, flowVars, routeVars
<1>2. EntriesStarted'
  <2> DEFINE t == hnd[h].session
  <2>1. /\ hnd[h] # Idle /\ t \in Sessions /\ home[hnd[h].wf] = t
        /\ active' = [active EXCEPT ![t] = None] /\ hnd' = [hnd EXCEPT ![h] = Idle]
        /\ home' = home /\ stage' = stage
    BY PlaceFields DEF Forget, RequestsKnowTheirSession, Idle, flowVars
  <2>2. ASSUME NEW s \in Sessions, active'[s] # None
        PROVE  /\ s # t /\ active'[s] = active[s] /\ hnd[h].wf # active[s]
    BY <2>1, <2>2 DEF TypeOK, EntriesStarted
  <2>3. ASSUME NEW s \in Sessions, active'[s] # None
        PROVE  /\ home[active[s]] = s
               /\ stage[active[s]] = "named" =>
                    \E g \in Handlers : hnd'[g].wf = active[s] /\ hnd'[g].at \in {"start", "forget"}
    <3>1. /\ home[active[s]] = s
          /\ stage[active[s]] = "named" =>
               \E g \in Handlers : hnd[g].wf = active[s] /\ hnd[g].at \in {"start", "forget"}
      BY <2>2, <2>3 DEF EntriesStarted
    <3>2. \A g \in Handlers : hnd[g].wf = active[s] => hnd'[g] = hnd[g]
      BY <2>1, <2>2, <2>3 DEF TypeOK
    <3> QED
      BY <3>1, <3>2
  <2> QED
    BY <2>1, <2>2, <2>3 DEF EntriesStarted
<1>3. AnswersStayInSession'
  BY PlaceFields DEF TypeOK, AnswersStayInSession, RequestsKnowTheirSession, Forget, Live, flowVars, routeVars
<1>4. RequestsKnowTheirSession'
  <2>1. UNCHANGED <<home, inbox, stage>> /\ hnd' = [hnd EXCEPT ![h] = Idle]
    BY DEF Forget, flowVars
  <2>2. hnd'[h] = Idle /\ \A g \in Handlers \ {h} : hnd'[g] = hnd[g]
    BY <2>1 DEF TypeOK
  <2>3. /\ \A w \in Workflows : stage'[w] = "unused" <=> stage[w] = "unused"
        /\ \A g \in Handlers \ {h} :
             hnd[g].at = "start" => stage'[hnd[g].wf] = stage[hnd[g].wf]
    BY <2>1
  <2>4. TypeOK /\ RequestsKnowTheirSession /\ UNCHANGED <<home, inbox>>
    BY <2>1
  <2> QED
    BY <2>2, <2>3, <2>4, RequestSettled
<1> QED
  BY <1>1, <1>2, <1>3, <1>4

LEMMA HandleApprovalRoute ==
  ASSUME RouteInv, NEW h \in Handlers, NEW s \in Sessions, NEW a \in Workflows, HandleApproval(h, s, a)
  PROVE  RouteInv'
<1> USE DEF RouteInv
<1>1. TypeOK'
  BY PlaceFields, PlaceOf, OnToForget DEF TypeOK, HandleApproval, flowVars, routeVars, LoadEntry, Arrives
<1>2. EntriesStarted'
  BY PlaceFields DEF TypeOK, EntriesStarted, RequestsKnowTheirSession, HandleApproval, Idle, Serving, Live, flowVars, routeVars, LoadEntry, Arrives
<1>3. AnswersStayInSession'
  BY PlaceFields DEF TypeOK, AnswersStayInSession, RequestsKnowTheirSession, HandleApproval, Live, flowVars, routeVars, LoadEntry, Arrives
<1>4. RequestsKnowTheirSession'
  BY RequestLoaded DEF HandleApproval
<1> QED
  BY <1>1, <1>2, <1>3, <1>4

LEMMA HandleCancelRoute ==
  ASSUME RouteInv, NEW h \in Handlers, NEW s \in Sessions, HandleCancel(h, s)
  PROVE  RouteInv'
<1> USE DEF RouteInv
<1>1. TypeOK'
  BY PlaceFields, PlaceOf, OnToForget DEF TypeOK, HandleCancel, flowVars, routeVars, LoadEntry, Arrives
<1>2. EntriesStarted'
  BY PlaceFields DEF TypeOK, EntriesStarted, RequestsKnowTheirSession, HandleCancel, Idle, Serving, Live, flowVars, routeVars, LoadEntry, Arrives
<1>3. AnswersStayInSession'
  BY PlaceFields DEF TypeOK, AnswersStayInSession, RequestsKnowTheirSession, HandleCancel, Live, flowVars, routeVars, LoadEntry, Arrives
<1>4. RequestsKnowTheirSession'
  BY RequestLoaded DEF HandleCancel
<1> QED
  BY <1>1, <1>2, <1>3, <1>4

LEMMA SignalWorkflowRoute ==
  ASSUME RouteInv, NEW h \in Handlers, SignalWorkflow(h)
  PROVE  RouteInv'
<1> USE DEF RouteInv
<1>0. /\ hnd[h] # Idle /\ hnd[h].wf \in Workflows /\ hnd[h].about \in Workflows
      /\ home[hnd[h].about] = home[hnd[h].wf]
      /\ stage[hnd[h].wf] \notin {"unused", "named"}
      /\ UNCHANGED <<active, home, kind, stage, cancelled, shown, restarts>>
      /\ inbox' = Delivered(hnd[h].wf, hnd[h].about)
  BY PlaceFields DEF SignalWorkflow, Accepts, RequestsKnowTheirSession, Live, Idle
<1> DEFINE x == hnd[h].wf  y == hnd[h].about
<1>a. /\ inbox' \in [Workflows -> Seq(Workflows)]
      /\ \A z \in Workflows \ {x} : inbox'[z] = inbox[z]
      /\ \A i \in DOMAIN inbox'[x] :
           inbox'[x][i] = y \/ (i \in DOMAIN inbox[x] /\ inbox'[x][i] = inbox[x][i])
  <2>1. PICK v \in Workflows, a \in Workflows : v = x /\ a = y /\ inbox' = Delivered(v, a)
    BY <1>0
  <2> QED
    BY <2>1, DeliveredHolds
<1>b. hnd' = [hnd EXCEPT ![h] = Idle] /\ hnd[h].at = "signal"
  BY DEF SignalWorkflow
<1>1. TypeOK'
  BY <1>0, <1>a, <1>b, PlaceOf DEF TypeOK
<1>2. EntriesStarted'
  BY <1>0, <1>b DEF TypeOK, EntriesStarted
<1>3. AnswersStayInSession'
  <2> SUFFICES ASSUME NEW z \in Workflows, NEW i \in DOMAIN inbox'[z]
               PROVE  home[inbox'[z][i]] = home[z]
    BY <1>0 DEF AnswersStayInSession
  <2>1. CASE z = x
    <3>1. inbox'[x][i] = y \/ (i \in DOMAIN inbox[x] /\ inbox'[x][i] = inbox[x][i])
      BY <1>a, <2>1
    <3>2. \A k \in DOMAIN inbox[x] : home[inbox[x][k]] = home[x]
      BY <1>0 DEF AnswersStayInSession
    <3> QED
      BY <1>0, <2>1, <3>1, <3>2
  <2>2. CASE z # x
    BY <1>a, <2>2 DEF AnswersStayInSession
  <2> QED
    BY <2>1, <2>2
<1>4. RequestsKnowTheirSession'
  <2>1. home[x] # None
    BY <1>0 DEF RequestsKnowTheirSession
  <2> QED
    BY <1>0, <1>a, <1>b, <2>1 DEF TypeOK, RequestsKnowTheirSession, Idle
<1> QED
  BY <1>1, <1>2, <1>3, <1>4

LEMMA CancelWorkflowRoute ==
  ASSUME RouteInv, NEW h \in Handlers, CancelWorkflow(h)
  PROVE  RouteInv'
<1> USE DEF RouteInv
<1>1. TypeOK'
  <2>1. hnd[h].wf \in Workflows
    BY PlaceFields DEF CancelWorkflow, Idle
  <2>2. hnd' \in [Handlers -> Place]
    BY OnToForget DEF TypeOK, CancelWorkflow
  <2> QED
    BY <2>1, <2>2 DEF TypeOK, CancelWorkflow
<1>2. EntriesStarted'
  BY PlaceFields DEF TypeOK, EntriesStarted, RequestsKnowTheirSession, CancelWorkflow, Idle, Serving, Live, flowVars, routeVars
<1>3. AnswersStayInSession'
  BY PlaceFields DEF TypeOK, AnswersStayInSession, RequestsKnowTheirSession, CancelWorkflow, Live, flowVars, routeVars
<1>4. RequestsKnowTheirSession'
  BY PlaceFields, RouterAssumption DEF TypeOK, RequestsKnowTheirSession, EntriesStarted, CancelWorkflow, Idle, Serving, Live, flowVars, routeVars
<1> QED
  BY <1>1, <1>2, <1>3, <1>4

LEMMA CallFailsRoute ==
  ASSUME RouteInv, NEW h \in Handlers, CallFails(h)
  PROVE  RouteInv'
<1> USE DEF RouteInv
<1>1. TypeOK'
  BY PlaceFields, PlaceOf, OnToForget DEF TypeOK, CallFails, flowVars, routeVars
<1>2. EntriesStarted'
  BY PlaceFields DEF TypeOK, EntriesStarted, RequestsKnowTheirSession, CallFails, Idle, Serving, Live, flowVars, routeVars
<1>3. AnswersStayInSession'
  BY PlaceFields DEF TypeOK, AnswersStayInSession, RequestsKnowTheirSession, CallFails, Live, flowVars, routeVars
<1>4. RequestsKnowTheirSession'
  <2>1. /\ UNCHANGED <<home, inbox, stage>> /\ hnd'[h] = Idle
        /\ \A g \in Handlers \ {h} : hnd'[g] = hnd[g]
    BY DEF CallFails, flowVars, TypeOK
  <2> QED
    BY <2>1, RequestSettled
<1> QED
  BY <1>1, <1>2, <1>3, <1>4

LEMMA ApproveRoute ==
  ASSUME RouteInv, NEW a \in Workflows, Approve(a)
  PROVE  RouteInv'
<1> USE DEF RouteInv
<1>1. /\ UNCHANGED <<active, hnd, home, kind, stage, cancelled, shown, restarts>>
      /\ inbox' = Delivered(a, a) /\ stage[a] \notin {"unused", "named"}
  BY DEF Approve, Accepts, Live, routeVars
<1>2. /\ inbox' \in [Workflows -> Seq(Workflows)]
      /\ \A z \in Workflows \ {a} : inbox'[z] = inbox[z]
      /\ \A i \in DOMAIN inbox'[a] :
           inbox'[a][i] = a \/ (i \in DOMAIN inbox[a] /\ inbox'[a][i] = inbox[a][i])
  BY <1>1, DeliveredHolds
<1>3. TypeOK' /\ EntriesStarted'
  BY <1>1, <1>2 DEF TypeOK, EntriesStarted
<1>4. AnswersStayInSession'
  <2> SUFFICES ASSUME NEW z \in Workflows, NEW i \in DOMAIN inbox'[z]
               PROVE  home[inbox'[z][i]] = home[z]
    BY <1>1 DEF AnswersStayInSession
  <2>1. CASE z = a
    <3>1. inbox'[a][i] = a \/ (i \in DOMAIN inbox[a] /\ inbox'[a][i] = inbox[a][i])
      BY <1>2, <2>1
    <3> QED
      BY <2>1, <3>1 DEF AnswersStayInSession
  <2>2. CASE z # a
    BY <1>2, <2>2 DEF AnswersStayInSession
  <2> QED
    BY <2>1, <2>2
<1>5. RequestsKnowTheirSession'
  BY <1>1, <1>2 DEF RequestsKnowTheirSession
<1> QED
  BY <1>3, <1>4, <1>5

LEMMA CancelByIDRoute ==
  ASSUME RouteInv, NEW w \in Workflows, CancelByID(w)
  PROVE  RouteInv'
<1> USE DEF RouteInv
<1>1. TypeOK'
  BY PlaceFields, PlaceOf, OnToForget DEF TypeOK, CancelByID, flowVars, routeVars
<1>2. EntriesStarted'
  BY PlaceFields DEF TypeOK, EntriesStarted, RequestsKnowTheirSession, CancelByID, Idle, Serving, Live, flowVars, routeVars
<1>3. AnswersStayInSession'
  BY PlaceFields DEF TypeOK, AnswersStayInSession, RequestsKnowTheirSession, CancelByID, Live, flowVars, routeVars
<1>4. RequestsKnowTheirSession'
  BY PlaceFields, RouterAssumption DEF TypeOK, RequestsKnowTheirSession, EntriesStarted, CancelByID, Idle, Serving, Live, flowVars, routeVars
<1> QED
  BY <1>1, <1>2, <1>3, <1>4

LEMMA AskRoute ==
  ASSUME RouteInv, NEW w \in Workflows, NEW seen \in BOOLEAN, Ask(w, seen)
  PROVE  RouteInv'
<1> USE DEF RouteInv
<1>1. TypeOK'
  BY PlaceFields, PlaceOf, OnToForget DEF TypeOK, Ask, flowVars, routeVars
<1>2. EntriesStarted'
  BY PlaceFields DEF TypeOK, EntriesStarted, RequestsKnowTheirSession, Ask, Idle, Serving, Live, flowVars, routeVars
<1>3. AnswersStayInSession'
  BY PlaceFields DEF TypeOK, AnswersStayInSession, RequestsKnowTheirSession, Ask, Live, flowVars, routeVars
<1>4. RequestsKnowTheirSession'
  BY PlaceFields, RouterAssumption DEF TypeOK, RequestsKnowTheirSession, EntriesStarted, Ask, Idle, Serving, Live, flowVars, routeVars
<1> QED
  BY <1>1, <1>2, <1>3, <1>4

LEMMA AwaitRoute ==
  ASSUME RouteInv, NEW w \in Workflows, Await(w)
  PROVE  RouteInv'
<1> USE DEF RouteInv
<1>1. TypeOK'
  BY PlaceFields, PlaceOf, OnToForget DEF TypeOK, Await, flowVars, routeVars
<1>2. EntriesStarted'
  BY PlaceFields DEF TypeOK, EntriesStarted, RequestsKnowTheirSession, Await, Idle, Serving, Live, flowVars, routeVars
<1>3. AnswersStayInSession'
  BY PlaceFields DEF TypeOK, AnswersStayInSession, RequestsKnowTheirSession, Await, Live, flowVars, routeVars
<1>4. RequestsKnowTheirSession'
  BY PlaceFields, RouterAssumption DEF TypeOK, RequestsKnowTheirSession, EntriesStarted, Await, Idle, Serving, Live, flowVars, routeVars
<1> QED
  BY <1>1, <1>2, <1>3, <1>4

LEMMA ResumeRoute ==
  ASSUME RouteInv, NEW w \in Workflows, Resume(w)
  PROVE  RouteInv'
<1> USE DEF RouteInv
<1>1. TypeOK'
  BY PlaceFields, PlaceOf, OnToForget DEF TypeOK, Resume, flowVars, routeVars
<1>2. EntriesStarted'
  BY PlaceFields DEF TypeOK, EntriesStarted, RequestsKnowTheirSession, Resume, Idle, Serving, Live, flowVars, routeVars
<1>3. AnswersStayInSession'
  BY PlaceFields DEF TypeOK, AnswersStayInSession, RequestsKnowTheirSession, Resume, Live, flowVars, routeVars
<1>4. RequestsKnowTheirSession'
  BY PlaceFields, RouterAssumption DEF TypeOK, RequestsKnowTheirSession, EntriesStarted, Resume, Idle, Serving, Live, flowVars, routeVars
<1> QED
  BY <1>1, <1>2, <1>3, <1>4

LEMMA EndRoute ==
  ASSUME RouteInv, NEW w \in Workflows, End(w)
  PROVE  RouteInv'
<1> USE DEF RouteInv
<1>1. TypeOK'
  BY PlaceFields, PlaceOf, OnToForget DEF TypeOK, End, flowVars, routeVars
<1>2. EntriesStarted'
  BY PlaceFields DEF TypeOK, EntriesStarted, RequestsKnowTheirSession, End, Idle, Serving, Live, flowVars, routeVars
<1>3. AnswersStayInSession'
  BY PlaceFields DEF TypeOK, AnswersStayInSession, RequestsKnowTheirSession, End, Live, flowVars, routeVars
<1>4. RequestsKnowTheirSession'
  BY PlaceFields, RouterAssumption DEF TypeOK, RequestsKnowTheirSession, EntriesStarted, End, Idle, Serving, Live, flowVars, routeVars
<1> QED
  BY <1>1, <1>2, <1>3, <1>4

LEMMA RestartRoute ==
  ASSUME RouteInv, Restart
  PROVE  RouteInv'
<1> USE DEF RouteInv
<1>1. TypeOK'
  BY PlaceOf, RouterAssumption DEF TypeOK, Restart, flowVars, routeVars
<1>2. EntriesStarted'
  BY PlaceFields DEF TypeOK, EntriesStarted, RequestsKnowTheirSession, Restart, Idle, Serving, Live, flowVars, routeVars
<1>3. AnswersStayInSession'
  BY PlaceFields DEF TypeOK, AnswersStayInSession, RequestsKnowTheirSession, Restart, Live, flowVars, routeVars
<1>4. RequestsKnowTheirSession'
  BY PlaceFields, RouterAssumption DEF TypeOK, RequestsKnowTheirSession, EntriesStarted, Restart, Idle, Serving, Live, flowVars, routeVars
<1> QED
  BY <1>1, <1>2, <1>3, <1>4

LEMMA RouteStep == RouteInv /\ [Next]_vars => RouteInv'
<1> SUFFICES ASSUME RouteInv, [Next]_vars PROVE RouteInv'
  OBVIOUS
<1>1. ASSUME NEW h \in Handlers, Serve(h) PROVE RouteInv'
  BY <1>1, LaunchRoute, ExecuteWorkflowRoute, ExecuteWorkflowFailsRoute, ForgetRoute,
     HandleApprovalRoute, HandleCancelRoute, SignalWorkflowRoute, CancelWorkflowRoute,
     CallFailsRoute DEF Serve, HandleChat, HandleBlueprintRun
<1>2. ASSUME NEW w \in Workflows, Run(w) \/ Direct(w) PROVE RouteInv'
  BY <1>2, AskRoute, AwaitRoute, ResumeRoute, EndRoute, ApproveRoute, CancelByIDRoute DEF Run, Direct
<1>3. CASE UNCHANGED vars
  BY <1>3 DEF vars, routeVars, flowVars, RouteInv, TypeOK, EntriesStarted,
     AnswersStayInSession, RequestsKnowTheirSession
<1> QED
  BY <1>1, <1>2, <1>3, RestartRoute DEF Next

LEMMA RouteInvariant == Spec => []RouteInv
BY RouteInit, RouteStep, PTL DEF Spec

(* Types of the router's variables.                                         *)
THEOREM RouterTypeCorrect == Spec => []TypeOK
BY RouteInvariant, PTL DEF RouteInv

(* However requests overlap, fail or are cut off: no entry names a workflow *)
(* that was never started, once the request that made it has been served.   *)
THEOREM EntriesNameStarted == Spec => []EntriesStarted
BY RouteInvariant, PTL DEF RouteInv

(* No answer ever reaches a workflow of another session.                    *)
THEOREM AnswersNeverLeave == Spec => []AnswersStayInSession
BY RouteInvariant, PTL DEF RouteInv
---------------------------------------------------------------------------
(* One request at a time in a session, no restart, no start that fails      *)
(* after it took effect.                                                    *)

Orderly == OneAtATime /\ ~Ambiguous /\ MaxRestarts = 0

(* A session's only request is about its entry, the only workflow that can  *)
(* be live; nothing is live while a start or a removal is under way; and an *)
(* answer on its way is for the workflow it will be sent to.                *)
RequestsInOrder ==
  /\ \A g, h \in Handlers :
       hnd[g] # Idle /\ hnd[h] # Idle /\ hnd[g].session = hnd[h].session => g = h
  /\ \A h \in Handlers :
       hnd[h] # Idle => /\ active[hnd[h].session] = hnd[h].wf
                        /\ hnd[h].at \in {"start", "forget"} => LiveIn(hnd[h].session) = {}
                        /\ hnd[h].at = "signal" => hnd[h].about = hnd[h].wf
  /\ \A s \in Sessions : LiveIn(s) \subseteq {active[s]}
  /\ \A w \in shown : stage[w] \in {"asked", "waiting"}

OrderlyInv == RequestsInOrder /\ AnswersReachAsker

LEMMA BusyMeans ==
  ASSUME TypeOK, NEW s \in Sessions, ~Busy(s), NEW h \in Handlers
  PROVE  hnd[h] = Idle \/ hnd[h].session # s
BY DEF Busy

(* Steps of the workflows and of the older interface.                       *)
LEMMA FlowOrder ==
  ASSUME OrderlyInv, UNCHANGED <<active, hnd, home>>,
         \A w \in Workflows : Live(w)' => Live(w),
         cancelled \subseteq cancelled',
         \A w \in shown' : stage'[w] \in {"asked", "waiting"},
         AnswersReachAsker'
  PROVE  OrderlyInv'
<1>1. \A s : LiveIn(s)' \subseteq LiveIn(s)
  BY DEF LiveIn
<1> QED
  BY <1>1 DEF OrderlyInv, RequestsInOrder

LEMMA RunOrder ==
  ASSUME RouteInv, OrderlyInv, NEW w \in Workflows, Run(w) \/ Direct(w)
  PROVE  OrderlyInv'
<1>1. /\ stage \in [Workflows -> {"unused", "named", "running", "asked", "waiting", "ended"}]
      /\ inbox \in [Workflows -> Seq(Workflows)] /\ shown \subseteq Workflows
  BY DEF RouteInv, TypeOK
<1>2. UNCHANGED <<active, hnd, home>>
  BY DEF Run, Direct, Ask, Await, Resume, End, Approve, Accepts, Delivered, CancelByID, routeVars
<1>3. /\ \A x \in Workflows : Live(x)' => Live(x)
      /\ cancelled \subseteq cancelled'
      /\ \A x \in shown' : stage'[x] \in {"asked", "waiting"}
  <2>0. \A x \in shown : stage[x] \in {"asked", "waiting"}
    BY DEF OrderlyInv, RequestsInOrder
  <2>1. CASE Run(w)
    <3>1. CASE \E seen \in BOOLEAN : Ask(w, seen)
      BY <1>1, <2>0, <3>1 DEF Ask, Live
    <3>2. CASE Await(w)
      BY <1>1, <2>0, <3>2 DEF Await, Live
    <3>3. CASE Resume(w)
      BY <1>1, <2>0, <3>3 DEF Resume, Live
    <3>4. CASE End(w)
      BY <1>1, <2>0, <3>4 DEF End, Live
    <3> QED
      BY <2>1, <3>1, <3>2, <3>3, <3>4 DEF Run
  <2>2. CASE Direct(w)
    BY <1>1, <2>0, <2>2 DEF Direct, Approve, CancelByID, Live
  <2> QED
    BY <2>1, <2>2
<1>4. ASSUME NEW x \in Workflows, NEW i \in DOMAIN inbox'[x]
      PROVE  inbox'[x][i] = x
  <2>1. CASE inbox'[x] = inbox[x]
    BY <2>1, <1>4 DEF OrderlyInv, AnswersReachAsker
  <2>2. CASE inbox'[x] = <<>>
    BY <2>2, <1>4
  <2>3. CASE x = w /\ inbox' = Delivered(w, w)
    BY <2>3, <1>4, DeliveredHolds DEF RouteInv, OrderlyInv, AnswersReachAsker
  <2>4. CASE inbox'[x] = Tail(inbox[x]) /\ inbox[x] # <<>>
    <3>1. /\ inbox[x] \in Seq(Workflows)
          /\ i + 1 \in DOMAIN inbox[x] /\ inbox'[x][i] = inbox[x][i + 1]
      BY <1>1, <1>4, <2>4
    <3> QED
      BY <3>1 DEF OrderlyInv, AnswersReachAsker
  <2>5. \/ inbox'[x] = inbox[x] \/ inbox'[x] = <<>>
        \/ x = w /\ inbox' = Delivered(w, w)
        \/ inbox'[x] = Tail(inbox[x]) /\ inbox[x] # <<>>
    <3>1. CASE Approve(w)
      BY <3>1, <1>1, DeliveredHolds DEF Approve, RouteInv
    <3> QED
      BY <3>1, <1>1 DEF Run, Direct, Ask, Await, Resume, End, CancelByID
  <2> QED
    BY <2>1, <2>2, <2>3, <2>4, <2>5
<1> QED
  BY <1>2, <1>3, <1>4, FlowOrder DEF AnswersReachAsker

LEMMA LaunchOrder ==
  ASSUME Orderly, RouteInv, OrderlyInv, NEW h \in Handlers, NEW s \in Sessions,
         NEW w \in Workflows, NEW k \in {"chat", "graph"}, Launch(h, s, w, k)
  PROVE  OrderlyInv'
<1>1. /\ \A g \in Handlers \ {h} : hnd'[g] = hnd[g] /\ (hnd[g] = Idle \/ hnd[g].session # s)
      /\ hnd'[h] = Serving("start", s, w, None)
      /\ LiveIn(s) = {}
      /\ \A t \in Sessions \ {s} : active'[t] = active[t]
      /\ active'[s] = w
  BY DEF Orderly, Launch, Stored, Arrives, Busy, RouteInv, TypeOK
<1>2. \A t \in Sessions : LiveIn(t)' = LiveIn(t)
  BY DEF LiveIn, Live, Launch, RouteInv, TypeOK
<1>3. /\ hnd'[h].session = s /\ hnd'[h].wf = w /\ hnd'[h].at = "start"
      /\ LiveIn(s)' = {}
  BY <1>1, <1>2 DEF Serving
<1>4. ASSUME NEW f \in Handlers, NEW g \in Handlers, hnd'[f] # Idle, hnd'[g] # Idle,
             hnd'[f].session = hnd'[g].session
      PROVE  f = g
  BY <1>1, <1>3, <1>4 DEF OrderlyInv, RequestsInOrder
<1>5. ASSUME NEW g \in Handlers, hnd'[g] # Idle
      PROVE  /\ active'[hnd'[g].session] = hnd'[g].wf
             /\ hnd'[g].at \in {"start", "forget"} => (LiveIn(hnd[g].session))' = {}
             /\ hnd'[g].at = "signal" => hnd'[g].about = hnd'[g].wf
  <2>1. CASE g = h
    BY <2>1, <1>1, <1>3
  <2>2. CASE g # h
    <3>1. PICK t \in Sessions : t = hnd[g].session
      BY <2>2, <1>1, <1>5, PlaceFields DEF RouteInv
    <3>2. t # s /\ hnd'[g] = hnd[g] /\ active'[t] = active[t] /\ LiveIn(t)' = LiveIn(t)
      BY <2>2, <3>1, <1>1, <1>2, <1>5
    <3> QED
      BY <3>1, <3>2, <1>5 DEF OrderlyInv, RequestsInOrder
  <2> QED
    BY <2>1, <2>2
<1>6. \A t \in Sessions : LiveIn(t)' \subseteq {active'[t]}
  BY <1>1, <1>2, <1>3 DEF OrderlyInv, RequestsInOrder
<1>7. \A x \in shown' : stage'[x] \in {"asked", "waiting"}
  BY DEF Launch, OrderlyInv, RequestsInOrder, RouteInv, TypeOK
<1> QED
  BY <1>4, <1>5, <1>6, <1>7 DEF OrderlyInv, RequestsInOrder, AnswersReachAsker, Launch

(* One request of session t is given up, or goes on to remove the entry.    *)
LEMMA SettleOrder ==
  ASSUME RouteInv, OrderlyInv, NEW h \in Handlers, NEW t \in Sessions,
         hnd[h] # Idle, t = hnd[h].session,
         \A g \in Handlers \ {h} : hnd'[g] = hnd[g],
         \/ hnd'[h] = Idle
         \/ /\ hnd'[h].session = t /\ hnd'[h].wf = hnd[h].wf /\ hnd'[h].at = "forget"
            /\ active'[t] = active[t] /\ LiveIn(t)' = {},
         \A s \in Sessions \ {t} : active'[s] = active[s] /\ LiveIn(s)' = LiveIn(s),
         LiveIn(t)' \subseteq {active'[t]},
         \A w \in shown' : stage'[w] \in {"asked", "waiting"}
  PROVE  RequestsInOrder'
<1>1. \A g \in Handlers \ {h} : hnd[g] # Idle => hnd[g].session \in Sessions \ {t}
  BY PlaceFields DEF RouteInv, OrderlyInv, RequestsInOrder
<1>2. ASSUME NEW f \in Handlers, NEW g \in Handlers, hnd'[f] # Idle, hnd'[g] # Idle,
             hnd'[f].session = hnd'[g].session
      PROVE  f = g
  BY <1>1, <1>2 DEF OrderlyInv, RequestsInOrder
<1>3. ASSUME NEW g \in Handlers, hnd'[g] # Idle
      PROVE  /\ active'[hnd'[g].session] = hnd'[g].wf
             /\ hnd'[g].at \in {"start", "forget"} => (LiveIn(hnd[g].session))' = {}
             /\ hnd'[g].at = "signal" => hnd'[g].about = hnd'[g].wf
  <2>1. CASE g = h
    BY <2>1, <1>3 DEF OrderlyInv, RequestsInOrder
  <2>2. CASE g # h
    <3>1. PICK s \in Sessions : s = hnd[g].session
      BY <2>2, <1>1, <1>3
    <3>2. s # t /\ hnd'[g] = hnd[g] /\ active'[s] = active[s] /\ LiveIn(s)' = LiveIn(s)
      BY <2>2, <3>1, <1>1, <1>3
    <3> QED
      BY <3>1, <3>2, <1>3 DEF OrderlyInv, RequestsInOrder
  <2> QED
    BY <2>1, <2>2
<1>4. \A s \in Sessions : LiveIn(s)' \subseteq {active'[s]}
  BY DEF OrderlyInv, RequestsInOrder
<1> QED
  BY <1>2, <1>3, <1>4 DEF RequestsInOrder

(* A request is given up or goes on to remove the entry; workflows stay.    *)
LEMMA ServeOrder ==
  ASSUME Orderly, RouteInv, OrderlyInv, NEW h \in Handlers,
         \/ ExecuteWorkflow(h)
         \/ \E started \in BOOLEAN : ExecuteWorkflowFails(h, started)
         \/ Forget(h) \/ SignalWorkflow(h) \/ CancelWorkflow(h) \/ CallFails(h)
  PROVE  OrderlyInv'
<1> USE DEF RouteInv
<1>0. /\ hnd[h] # Idle /\ hnd[h].session \in Sessions /\ hnd[h].wf \in Workflows
      /\ active[hnd[h].session] = hnd[h].wf /\ home[hnd[h].wf] = hnd[h].session
      /\ \A g \in Handlers \ {h} : hnd[g] = Idle \/ hnd[g].session # hnd[h].session
      /\ \A g \in Handlers \ {h} : hnd'[g] = hnd[g]
  BY PlaceFields DEF OrderlyInv, RequestsInOrder, RequestsKnowTheirSession, TypeOK, Idle,
     ExecuteWorkflow, ExecuteWorkflowFails, Forget, SignalWorkflow, CancelWorkflow, CallFails
<1>t. PICK t \in Sessions : t = hnd[h].session
  BY <1>0
<1>s. \A w \in shown : stage[w] \in {"asked", "waiting"}
  BY DEF OrderlyInv, RequestsInOrder
<1>1. CASE ExecuteWorkflow(h)
  <2>1. hnd'[h] = Idle /\ active' = active /\ home' = home /\ inbox' = inbox /\ shown' = shown
    BY <1>1 DEF ExecuteWorkflow, TypeOK
  <2>2. /\ LiveIn(t)' \subseteq {active[t]}
        /\ \A s \in Sessions \ {t} : LiveIn(s)' = LiveIn(s)
    BY <1>0, <1>t, <1>1 DEF ExecuteWorkflow, LiveIn, Live, OrderlyInv, RequestsInOrder, TypeOK
  <2>3. \A w \in shown' : stage'[w] \in {"asked", "waiting"}
    BY <1>0, <1>1 DEF ExecuteWorkflow, OrderlyInv, RequestsInOrder, RequestsKnowTheirSession, TypeOK
  <2>4. RequestsInOrder'
    BY <1>0, <1>t, <1>s, <2>1, <2>2, <2>3, SettleOrder DEF OrderlyInv, RequestsInOrder
  <2> QED
    BY <2>1, <2>4 DEF OrderlyInv, AnswersReachAsker
<1>2. CASE \E started \in BOOLEAN : ExecuteWorkflowFails(h, started)
  <2>1. /\ hnd'[h] = [hnd[h] EXCEPT !.at = "forget"] /\ hnd[h].at = "start"
        /\ UNCHANGED <<active, home, stage, cancelled, inbox, shown>>
    BY <1>2 DEF ExecuteWorkflowFails, TypeOK, Orderly
  <2>2. hnd'[h].session = t /\ hnd'[h].wf = hnd[h].wf /\ hnd'[h].at = "forget"
    BY <1>0, <1>t, <2>1, PlaceFields DEF Serving
  <2>3. /\ \A s : LiveIn(s)' = LiveIn(s)
        /\ LiveIn(t) = {}
    BY <1>0, <1>t, <2>1 DEF LiveIn, Live, OrderlyInv, RequestsInOrder
  <2>4. RequestsInOrder'
    BY <1>0, <1>t, <1>s, <2>1, <2>2, <2>3, SettleOrder DEF OrderlyInv, RequestsInOrder
  <2> QED
    BY <2>1, <2>4 DEF OrderlyInv, AnswersReachAsker
<1>3. CASE Forget(h)
  <2>1. /\ hnd'[h] = Idle /\ UNCHANGED <<home, stage, cancelled, inbox, shown>>
        /\ active' = [active EXCEPT ![t] = None] /\ LiveIn(t) = {}
    BY <1>0, <1>t, <1>3 DEF Forget, flowVars, TypeOK, OrderlyInv, RequestsInOrder
  <2>2. \A s : LiveIn(s)' = LiveIn(s)
    BY <2>1 DEF LiveIn, Live
  <2>3. RequestsInOrder'
    BY <1>0, <1>t, <1>s, <2>1, <2>2, SettleOrder DEF OrderlyInv, RequestsInOrder, TypeOK
  <2> QED
    BY <2>1, <2>3 DEF OrderlyInv, AnswersReachAsker
<1>4. CASE SignalWorkflow(h)
  <2>1. /\ hnd'[h] = Idle /\ hnd[h].about = hnd[h].wf
        /\ UNCHANGED <<active, home, stage, cancelled, shown>>
        /\ inbox' = Delivered(hnd[h].wf, hnd[h].wf)
    BY <1>0, <1>4 DEF SignalWorkflow, TypeOK, OrderlyInv, RequestsInOrder
  <2>2. \A s : LiveIn(s)' = LiveIn(s)
    BY <2>1 DEF LiveIn, Live
  <2>3. RequestsInOrder'
    BY <1>0, <1>t, <1>s, <2>1, <2>2, SettleOrder DEF OrderlyInv, RequestsInOrder
  <2>4. PICK w \in Workflows : w = hnd[h].wf /\ inbox' = Delivered(w, w)
    BY <1>0, <2>1
  <2>5. AnswersReachAsker'
    BY <2>4, DeliveredHolds DEF OrderlyInv, AnswersReachAsker
  <2> QED
    BY <2>3, <2>5 DEF OrderlyInv
<1>5. CASE CancelWorkflow(h)
  <2>1. /\ hnd'[h] = [hnd[h] EXCEPT !.at = "forget"] /\ hnd[h].at = "cancel"
        /\ UNCHANGED <<active, home, stage, inbox, shown>>
        /\ cancelled' = cancelled \cup {hnd[h].wf}
    BY <1>5 DEF CancelWorkflow, TypeOK
  <2>2. hnd'[h].session = t /\ hnd'[h].wf = hnd[h].wf /\ hnd'[h].at = "forget"
    BY <1>0, <1>t, <2>1, PlaceFields DEF Serving
  <2>3. \A s : LiveIn(s)' = LiveIn(s) \ {hnd[h].wf}
    BY <2>1 DEF LiveIn, Live
  <2>4. /\ LiveIn(t)' = {}
        /\ \A s \in Sessions \ {t} : LiveIn(s)' = LiveIn(s)
    <3>1. \A s \in Sessions : hnd[h].wf \in LiveIn(s) => s = t
      BY <1>0, <1>t DEF LiveIn
    <3> QED
      BY <1>0, <1>t, <2>3, <3>1 DEF OrderlyInv, RequestsInOrder
  <2>5. /\ LiveIn(t)' \subseteq {active'[t]} /\ active'[t] = active[t]
        /\ \A s \in Sessions \ {t} : active'[s] = active[s] /\ LiveIn(s)' = LiveIn(s)
        /\ \A w \in shown' : stage'[w] \in {"asked", "waiting"}
    BY <1>s, <2>1, <2>4
  <2>6. RequestsInOrder'
    BY <1>0, <1>t, <2>2, <2>4, <2>5, SettleOrder
  <2> QED
    BY <2>1, <2>6 DEF OrderlyInv, AnswersReachAsker
<1>6. CASE CallFails(h)
  <2>1. hnd'[h] = Idle /\ UNCHANGED <<active, home, stage, cancelled, inbox, shown>>
    BY <1>6 DEF CallFails, flowVars, TypeOK
  <2>2. \A s : LiveIn(s)' = LiveIn(s)
    BY <2>1 DEF LiveIn, Live
  <2>3. RequestsInOrder'
    BY <1>0, <1>t, <1>s, <2>1, <2>2, SettleOrder DEF OrderlyInv, RequestsInOrder
  <2> QED
    BY <2>1, <2>3 DEF OrderlyInv, AnswersReachAsker
<1> QED
  BY <1>1, <1>2, <1>3, <1>4, <1>5, <1>6

(* Loading an entry finds the workflow that is live, or whose request the   *)
(* user is answering.                                                       *)
LEMMA LoadOrder ==
  ASSUME Orderly, RouteInv, OrderlyInv, NEW h \in Handlers, NEW s \in Sessions,
         \/ HandleCancel(h, s)
         \/ \E a \in Workflows : HandleApproval(h, s, a)
  PROVE  OrderlyInv'
<1>1. PICK at \in {"cancel", "signal"}, a \in Workflows \cup {None} :
        /\ LoadEntry(h, s, at, a)
        /\ at = "signal" => a \in Workflows /\ a \in shown /\ home[a] = s /\ a \notin cancelled
  BY DEF HandleCancel, HandleApproval, Orderly
<1>2. /\ hnd'[h] = Serving(at, s, active[s], a)
      /\ \A g \in Handlers \ {h} : hnd'[g] = hnd[g] /\ (hnd[g] = Idle \/ hnd[g].session # s)
      /\ UNCHANGED <<active, home, stage, cancelled, inbox, shown>>
  BY <1>1 DEF LoadEntry, Arrives, Busy, Orderly, flowVars, RouteInv, TypeOK
<1>3. \A t : LiveIn(t)' = LiveIn(t)
  BY <1>2 DEF LiveIn, Live
<1>4. at = "signal" => a = active[s]
  <2>1. at = "signal" => a \in LiveIn(s)
    BY <1>1 DEF LiveIn, Live, OrderlyInv, RequestsInOrder
  <2> QED
    BY <2>1 DEF OrderlyInv, RequestsInOrder
<1>5. RequestsInOrder'
  BY <1>2, <1>3, <1>4, PlaceFields DEF OrderlyInv, RequestsInOrder, RouteInv, Serving
<1> QED
  BY <1>2, <1>5 DEF OrderlyInv, AnswersReachAsker

LEMMA OrderlyStep ==
  ASSUME Orderly, RouteInv, OrderlyInv, [Next]_vars
  PROVE  OrderlyInv'
<1>1. ASSUME NEW h \in Handlers, Serve(h) PROVE OrderlyInv'
  BY <1>1, LaunchOrder, LoadOrder, ServeOrder DEF Serve, HandleChat, HandleBlueprintRun
<1>2. ~Restart
  BY DEF Restart, Orderly, RouteInv, TypeOK
<1>3. CASE UNCHANGED vars
  BY <1>3 DEF vars, routeVars, flowVars, OrderlyInv, RequestsInOrder, AnswersReachAsker, LiveIn, Live
<1> QED
  BY <1>1, <1>2, <1>3, RunOrder DEF Next

LEMMA OrderlyInvariant ==
  ASSUME Orderly
  PROVE  Spec => []OrderlyInv
<1>1. Init => OrderlyInv
  BY DEF Init, OrderlyInv, RequestsInOrder, AnswersReachAsker, LiveIn, Live
<1>2. RouteInv /\ OrderlyInv /\ [Next]_vars => OrderlyInv'
  BY OrderlyStep
<1> QED
  BY <1>1, <1>2, RouteInvariant, PTL DEF Spec

(* Without overlapping requests, restarts and ambiguous failures the entry  *)
(* of a session is its live workflow, whenever none of its requests is      *)
(* being served.                                                            *)
THEOREM OrderlyEntriesTrack ==
  ASSUME Orderly
  PROVE  Spec => []TracksActive
<1>1. OrderlyInv => TracksActive
  BY DEF OrderlyInv, RequestsInOrder, TracksActive
<1> QED
  BY <1>1, OrderlyInvariant, PTL

(* Under the same conditions an answer reaches the workflow that asked.     *)
THEOREM OrderlyAnswersReachAsker ==
  ASSUME Orderly
  PROVE  Spec => []AnswersReachAsker
BY OrderlyInvariant, PTL DEF OrderlyInv
===========================================================================
