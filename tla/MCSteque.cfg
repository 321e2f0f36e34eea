\* Three nodes and two items: every length up to three, with reuse of nodes.
SPECIFICATION Spec
CONSTANTS
  Nodes = {n1, n2, n3}
  Items = {a, b}
  Null = Null
INVARIANTS
  Linked
PROPERTIES
  RefinesDeque
