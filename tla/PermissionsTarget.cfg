CONSTANTS
  Projects <- MCProjects
  Inputs <- MCInputs
  Namespaced <- MCNamespaced
  PascalCase <- MCPascalCase
  Shapes <- MCShapes
SPECIFICATION Spec
INVARIANT PermissionsMappingsPass
CHECK_DEADLOCK FALSE
