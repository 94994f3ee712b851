SPECIFICATION FairSpec
CONSTANTS
    Membros = {h, d1}
    Cabecalho = h
    Workers = {w1, w2}
    Nenhum = nenhum
    Financeiro = TRUE
    Janela = 1
    Versoes = {1, 2}
    Vazias = {2}
    PaiLento = FALSE
    MaxPedidos = 1
    MaxPosts = 1
    MaxQuedas = 1
    MaxErros = 0
    MaxReentregas = 1
    MaxCancelamentos = 1
    MaxMudancas = 1
    Gastos <- Cenarios
PROPERTY Sossega
PROPERTY CampanhaCriada
PROPERTY CorridasAcabam
CHECK_DEADLOCK FALSE
