CONSTANTS
  k1 = k1
  k2 = k2
  k3 = k3
  n1 = n1
  n2 = n2
  n3 = n3
  Keys = {k1, k2, k3}
  Names = {n1, n2, n3}
  NetworkOf <- MCNetworkOf
  Seeds = {n1, n2}
  Data = {d1, d2}
  Requests = {r1, r2}
  MaxTokens = 3
SPECIFICATION Spec
SYMMETRY Symmetry
INVARIANTS TypeOK EntriesAreCurrent EntriesHaveProviders OneRowANetwork
