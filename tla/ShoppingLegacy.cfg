SPECIFICATION ShoppingSpec
CONSTANTS
  Nil = Nil
  Unset = Unset
  Shoppers = {u1}
  Goods = {g1}
  Entries = {e1, e2}
INVARIANTS LegacyIdFollowsSource
