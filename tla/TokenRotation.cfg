SPECIFICATION AuthSpec
CONSTANTS
  Tasks = {t1, t2}
  Margin = 4
  Backdate = 2
  JwtLife = 7
  Lifetime = 9
  JwtMax = 9
  MaxSkew = 2
  Flight = 2
  MaxTime = 15
INVARIANTS AuthTypeOK TokenAlive JwtInWindow
