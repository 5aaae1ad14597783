CONSTANTS
  c1 = c1
  c2 = c2
  Conn = {c1, c2}
  Text <- Texts
  MaxChars = 2
SPECIFICATION Spec
CHECK_DEADLOCK FALSE
INVARIANTS TypeOK PiecesMakeTheText ThreadShowsPrefix OnlyLateIsOvertaken QuestionIsShown
