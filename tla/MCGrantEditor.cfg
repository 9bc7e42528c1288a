CONSTANTS
    Documents = {d, e}
    Users = {u}
    Teams = {t}
    NoDocument = NoDocument
SPECIFICATION Spec
SYMMETRY Symmetry
INVARIANTS Inductive
PROPERTIES SaveExplained
