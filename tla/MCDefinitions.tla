---------------------------- MODULE MCDefinitions -----------------------------
(* What a rollout is made of, from files to a graph: configuration, pipelines, *)
(* topologies, their combination, and the search for cycles.  Each is read on  *)
(* its own: one is active, and of the others something is at hand and rests.   *)
EXTENDS MCConfigLayers, MCPipelineDefinition, MCTopologyValidation,
        MCCombinedTopology, Definitions

VARIABLE active   \* the part that is checked

\* What is at hand of each part that rests.
AnOverride == CHOOSE o \in Overrides : TRUE
ADocument  == CHOOSE d \in Documents : TRUE
ATopology  == CHOOSE t \in Topologies : TRUE
AFile      == CHOOSE f \in Files : TRUE

ConfigRests == /\ overrides = AnOverride /\ files = << >>
               /\ target = << >> /\ level = 0 /\ cfg = Empty /\ reached = 0
               /\ schema = NoSchema /\ merged = Empty
DefRests == pipeline = ADocument /\ stage = "read" /\ built = << >> /\ resolved = {}
TopoRests == /\ topology = ATopology /\ marked = 0 /\ place = 1
             /\ below = [i \in DOMAIN ATopology.parent |-> FALSE]
             /\ seenNames = {} /\ duplicates = {} /\ verdict = "none"
CombinationRests ==
  /\ file = AFile /\ unread = Tops
  /\ mapped = {} /\ deferred = << >> /\ next = 0 /\ roots = {}
  /\ parent = AFile.local /\ tree = AFile.top /\ stamped = AFile.declared
  /\ result = "none"
CyclesRest  == /\ nodes = {} /\ children = << >> /\ color = << >> /\ path = << >>
               /\ todo = << >> /\ answer = "none"

MCInit ==
  /\ active \in {"configuration", "pipelines", "validation", "combination", "cycles"}
  /\ IF active = "configuration" THEN ConfigInit ELSE ConfigRests
  /\ IF active = "pipelines" THEN DefInit ELSE DefRests
  /\ IF active = "validation" THEN TopoInit ELSE TopoRests
  /\ IF active = "combination" THEN Init ELSE CombinationRests
  /\ IF active = "cycles" THEN CycleInit ELSE CyclesRest

MCNext ==
  /\ UNCHANGED active
  /\ \/ /\ active = "configuration" /\ ConfigNext
        /\ UNCHANGED <<defVars, topoVars, vars, cycleVars>>
     \/ /\ active = "pipelines" /\ DefNext
        /\ UNCHANGED <<configVars, topoVars, vars, cycleVars>>
     \/ /\ active = "validation" /\ TopoNext
        /\ UNCHANGED <<configVars, defVars, vars, cycleVars>>
     \/ /\ active = "combination" /\ Next
        /\ UNCHANGED <<configVars, defVars, topoVars, cycleVars>>
     \/ /\ active = "cycles" /\ CycleNext
        /\ UNCHANGED <<configVars, defVars, topoVars, vars>>

MCSpec == MCInit /\ [][MCNext]_<<active, configVars, defVars, topoVars, vars, cycleVars>>
===============================================================================
