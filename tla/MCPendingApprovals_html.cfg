SPECIFICATION Spec
CONSTANTS
  Calls = {c1, c2}
SYMMETRY Interchangeable
INVARIANT HtmlPageIsTrue
