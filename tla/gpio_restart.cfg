SPECIFICATION Spec
CONSTANTS
  l1 = l1
  l2 = l2
  app = app
  tool = tool
  Kernel = Kernel
  NoOne = NoOne
  Lines <- MCLines
  Apps <- MCApps
  Mappers <- MCMappers
  Types <- MCTypes
  MaxDefs = 2
  MaxAsked = 2
INVARIANT GpioInv
INVARIANT NeverDriven
INVARIANT FirstMappingDecides
PROPERTY MappingSurvivesPurge
SYMMETRY LineSymmetry
VIEW Seen
