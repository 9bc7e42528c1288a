CONSTANTS
    Users = {author, reader}
    Author = author
    Teams = {team}
    Requests = {p, q}
    PlainRoles = {"MANAGER"}
    Lists = {{}, {reader}, {team}, {reader, team}}
    Changing = {reader}
    NoUser = NoUser
    NoTeam = NoTeam
SPECIFICATION SteadyAuthorSpec
SYMMETRY Symmetry
INVARIANTS Inductive
PROPERTIES ReplaceErasesEarlier ServedWasEntitled
