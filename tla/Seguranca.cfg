SPECIFICATION Spec
CONSTANTS
    Campanhas = {c1}
    Alvos = {1, 2}
    Workers = {w1, w2}
    Varredor = varredor
    Nenhum = nenhum
    ChunkSize = 1
    MaxActiveCampaigns = 1
    MaxActiveChunks = 2
    ItemCabeNoLease = FALSE
    MaxChunks = 3
    MaxMensagens = 1
    MaxQuedas = 1
    MaxTrocas = 1
    MaxAtrasos = 1
    MaxReentregas = 1
    MaxFalhas = 1
    MaxEventos = 2
SYMMETRY Simetria
INVARIANT TypeOK
INVARIANT ResultadoConfere
 
INVARIANT ItemExclusivo
INVARIANT LimiteComLease
 
CHECK_DEADLOCK FALSE
