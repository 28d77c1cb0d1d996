\* One value to store for each node; two contacts are pinged at a time, each again if it
\* is silent, and one answer is enough for the search.
CONSTANTS
  K = 1
  alpha = 2
  attempts_number = 1
  twice = twice
  once = once
  never = never
  Addr = {twice, once, never}
  supernode = supernode
  NoNode = NoNode
  values_per_node = 1
  values_total = 3
  MaxActivations <- Activations
SPECIFICATION Spec
VIEW View
CHECK_DEADLOCK FALSE
INVARIANTS
  JobsFitNodes
  PingingIsCounted
  SucceedIsLast
  JoinGoesOn
  ValuesAreStoredOnce
PROPERTIES
  OnlyTheJoinSearchIsLeft
