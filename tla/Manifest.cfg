CONSTANTS
  Projects <- MCProjects
  Inputs <- MCInputs
  Namespaced <- MCNamespaced
  PascalCase <- MCPascalCase
  Shapes <- MCShapes
SPECIFICATION Spec
INVARIANTS
  SchemaAgreesWithRules
  CheckedPartsOfRowsAreClean
  LintVerdictsAgree
CHECK_DEADLOCK FALSE
